-------------------------- MODULE BlockCodecProofs --------------------------
(***************************************************************************)
(* Theorems about BlockCodec: how an object is divided, for every length   *)
(* that the OTI has room for and every size of a symbol; that a burst of   *)
(* damage in a frame is seen; that the multiplication tables are those of  *)
(* a field; and that the inversion of a code's matrix works on a matrix    *)
(* that its schedule describes, through every step of both sides.          *)
(***************************************************************************)
EXTENDS BlockCodecTerms, WellFoundedInduction, FiniteSetTheorems, TLAPS

-----------------------------------------------------------------------------
\* Quotients.

LEMMA Smaller ==
    ASSUME NEW b \in Nat \ {0}, NEW q \in Nat, NEW c \in Nat, b * q <= b * c
    PROVE  q <= c
  <1>1. SUFFICES ASSUME q >= c + 1
                 PROVE  FALSE
    OBVIOUS
  <1>2. PICK m \in Nat : q = c + 1 + m
    <2>1. q - (c + 1) \in Nat /\ q = c + 1 + (q - (c + 1))
      BY <1>1
    <2>. QED
      BY <2>1
  <1>3. b * q = b * c + b + b * m /\ b * m \in Nat /\ b * c \in Nat
    BY <1>2
  <1>. QED
    BY <1>3

LEMMA Quotient ==
    ASSUME NEW a \in Nat, NEW b \in Nat \ {0}
    PROVE  /\ a \div b \in Nat /\ a % b \in 0 .. b - 1
           /\ a = b * (a \div b) + (a % b)
  OBVIOUS

\* DivCeil(a, b) is the least number of parts of at most b that hold a things.
LEMMA Covers ==
    ASSUME NEW a \in Nat, NEW b \in Nat \ {0}
    PROVE  DivCeil(a, b) \in Nat /\ a <= b * DivCeil(a, b)
  <1>1. PICK q \in Nat, r \in 0 .. b - 1 : q = a \div b /\ r = a % b /\ a = b * q + r
    BY Quotient
  <1>2. DivCeil(a, b) = IF r # 0 THEN q + 1 ELSE q
    BY <1>1 DEF DivCeil
  <1>3. b * (q + 1) = b * q + b
    OBVIOUS
  <1>. QED
    BY <1>1, <1>2, <1>3

LEMMA Least ==
    ASSUME NEW a \in Nat, NEW b \in Nat \ {0}, NEW c \in Nat, a <= b * c
    PROVE  DivCeil(a, b) <= c
  <1>1. PICK q \in Nat, r \in 0 .. b - 1 : q = a \div b /\ r = a % b /\ a = b * q + r
    BY Quotient
  <1>2. DivCeil(a, b) = IF r # 0 THEN q + 1 ELSE q
    BY <1>1 DEF DivCeil
  <1>3. b * q <= b * c
    BY <1>1
  <1>4. q <= c
    BY <1>3, Smaller
  <1>5. r # 0 => q # c
    BY <1>1
  <1>. QED
    BY <1>2, <1>4, <1>5

LEMMA Positive ==
    ASSUME NEW a \in Nat \ {0}, NEW b \in Nat \ {0}
    PROVE  DivCeil(a, b) >= 1 /\ DivCeil(a, b) \in Nat /\ DivCeil(a, b) <= a
  <1>1. DivCeil(a, b) \in Nat /\ a <= b * DivCeil(a, b)
    BY Covers
  <1>2. DivCeil(a, b) # 0
    BY <1>1
  <1>3. a <= b * a
    <2>1. PICK m \in Nat : b = m + 1
      <3>1. b - 1 \in Nat /\ b = (b - 1) + 1
        OBVIOUS
      <3>. QED
        BY <3>1
    <2>2. b * a = m * a + a /\ m * a \in Nat
      BY <2>1
    <2>. QED
      BY <2>2
  <1>4. DivCeil(a, b) <= a
    BY <1>3, Least
  <1>. QED
    BY <1>1, <1>2, <1>4

-----------------------------------------------------------------------------
\* The number of blocks.

LEMMA LeastElement ==
    ASSUME NEW Q, Q \subseteq Nat, Q # {}
    PROVE  \E n \in Q : \A m \in Q : n <= m
  <1>. DEFINE R == OpToRel(<, Nat)
  <1>1. PICK n \in Q : \A m \in Q : ~(<<m, n>> \in R)
    <2>. HIDE DEF R
    <2>1. IsWellFoundedOn(R, Nat)
      BY NatLessThanWellFounded DEF R
    <2>. QED
      BY <2>1, WFMin
  <1>2. \A m \in Q : <<m, n>> \in R <=> m < n
    BY DEF OpToRel
  <1>3. \A m \in Q : ~(m < n) /\ m \in Nat /\ n \in Nat
    BY <1>1, <1>2
  <1>. QED
    BY <1>3

\* The loop ends: with as many blocks as symbols, each block has one.
LEMMA LoopEnds ==
    ASSUME NEW Kt \in Nat \ {0}
    PROVE  BlocksTried(Kt) \in MinBlocks .. MinBlocks + Kt /\ FirstFit(Kt, BlocksTried(Kt))
  <1>1. KMax \in Nat /\ KMax >= 1 /\ MinBlocks \in Nat /\ MinBlocks >= 1
    BY LayoutAssumption
  <1>. DEFINE Q == {z \in MinBlocks .. MinBlocks + Kt : DivCeil(Kt, z) <= KMax}
  <1>2. MinBlocks + Kt \in Q
    <2>1. PICK b \in Nat \ {0} : b = MinBlocks + Kt
      BY <1>1
    <2>2. DivCeil(Kt, b) <= 1 /\ DivCeil(Kt, b) \in Nat
      <3>1. Kt <= b * 1
        BY <1>1, <2>1
      <3>. QED
        BY <3>1, Least, Covers
    <2>. QED
      BY <1>1, <2>1, <2>2
  <1>3. Q \subseteq Nat /\ Q # {}
    BY <1>1, <1>2
  <1>4. PICK z \in Q : \A m \in Q : z <= m
    <2>. HIDE DEF Q
    <2>. QED
      BY <1>3, LeastElement
  <1>5. FirstFit(Kt, z)
    <2>1. ASSUME NEW y \in MinBlocks .. z - 1
          PROVE  DivCeil(Kt, y) > KMax
      <3>1. y \in MinBlocks .. MinBlocks + Kt /\ y \in Nat \ {0} /\ ~(z <= y)
        BY <1>1
      <3>2. y \notin Q
        BY <1>4, <3>1
      <3>3. DivCeil(Kt, y) \in Nat
        BY <3>1, Covers
      <3>. QED
        BY <1>1, <3>1, <3>2, <3>3
    <2>. QED
      BY <2>1 DEF FirstFit
  <1>6. \E x \in MinBlocks .. MinBlocks + Kt : FirstFit(Kt, x)
    BY <1>5
  <1>7. BlocksTried(Kt) = CHOOSE x \in MinBlocks .. MinBlocks + Kt : FirstFit(Kt, x)
    BY Zenon DEF BlocksTried, FirstFit
  <1>. QED
    BY <1>6, <1>7, Zenon

\* There are at most Z_max blocks, none of them is empty or larger than K_max:
\* nanorq_encoder_new does not refuse the file.
LEMMA SchemeFits ==
    ASSUME NEW Kt \in Nat \ {0}, Kt <= 256 * KMax, MinBlocks <= 256
    PROVE  /\ SchemeZ(Kt) \in 1 .. 256 /\ SchemeZ(Kt) <= Kt
           /\ DivCeil(Kt, SchemeZ(Kt)) <= KMax
  <1>1. KMax \in Nat /\ KMax >= 1 /\ MinBlocks \in 1 .. 256
    BY LayoutAssumption
  <1>2. PICK z \in Nat \ {0} : z = BlocksTried(Kt) /\ FirstFit(Kt, z)
    BY <1>1, LoopEnds
  <1>3. z <= 256
    <2>1. SUFFICES ASSUME z > 256
                   PROVE  FALSE
      OBVIOUS
    <2>2. DivCeil(Kt, 256) > KMax
      BY <1>1, <1>2, <2>1 DEF FirstFit
    <2>3. DivCeil(Kt, 256) <= KMax /\ DivCeil(Kt, 256) \in Nat
      BY <1>1, Least, Covers
    <2>. QED
      BY <1>1, <2>2, <2>3
  <1>4. PICK q \in Nat \ {0} : q = DivCeil(Kt, z) /\ q <= KMax /\ Kt <= z * q
    <2>1. DivCeil(Kt, z) \in Nat /\ DivCeil(Kt, z) >= 1
      BY Positive
    <2>2. Kt <= z * DivCeil(Kt, z)
      BY Covers
    <2>3. DivCeil(Kt, z) <= KMax
      BY <1>2 DEF FirstFit
    <2>. QED
      BY <2>1, <2>2, <2>3
  <1>5. PICK Z \in Nat \ {0} : Z = DivCeil(Kt, q) /\ Z <= Kt /\ Kt <= q * Z
    <2>1. DivCeil(Kt, q) \in Nat /\ DivCeil(Kt, q) >= 1 /\ DivCeil(Kt, q) <= Kt
      BY Positive
    <2>2. Kt <= q * DivCeil(Kt, q)
      BY Covers
    <2>. QED
      BY <2>1, <2>2
  <1>6. Z <= z
    <2>1. Kt <= q * z
      BY <1>4
    <2>. QED
      BY <1>5, <2>1, Least
  <1>7. DivCeil(Kt, Z) <= q
    <2>1. Kt <= Z * q
      BY <1>5
    <2>. QED
      BY <2>1, Least
  <1>8. SchemeZ(Kt) = Z
    BY <1>2, <1>4, <1>5 DEF SchemeZ
  <1>9. DivCeil(Kt, Z) \in Nat
    BY Covers
  <1>. QED
    BY <1>1, <1>3, <1>4, <1>5, <1>6, <1>7, <1>8, <1>9

\* The parts of a partition add up to the whole.
LEMMA PartitionAddsUp ==
    ASSUME NEW I \in Nat, NEW J \in Nat \ {0}, NEW p, p = Partition(I, J)
    PROVE  IsPartition(p, I, J)
  <1>1. PICK q \in Nat, r \in 0 .. J - 1 : q = I \div J /\ r = I % J /\ I = J * q + r
    BY Quotient
  <1>2. DivCeil(I, J) = IF r # 0 THEN q + 1 ELSE q
    BY <1>1 DEF DivCeil
  <1>3. I - (I \div J) * J = r
    BY <1>1
  <1>4. p.JL = r /\ p.JS = J - r /\ p.IS = q
        /\ p.IL = IF r = 0 THEN 0 ELSE q + 1
    BY <1>1, <1>2, <1>3 DEF Partition
  <1>5. p.IL * p.JL + p.IS * p.JS = I
    <2>1. CASE r = 0
      BY <1>1, <1>4, <2>1
    <2>2. CASE r # 0
      <3>1. (q + 1) * r + q * (J - r) = J * q + r
        OBVIOUS
      <3>. QED
        BY <1>1, <1>4, <2>2, <3>1
    <2>. QED
      BY <2>1, <2>2
  <1>6. /\ p.JL \in Nat /\ p.JS \in Nat \ {0} /\ p.JL + p.JS = J
        /\ p.IL \in Nat /\ p.IS \in Nat
    BY <1>1, <1>4
  <1>. QED
    BY <1>5, <1>6 DEF IsPartition

LEMMA PartitionFits ==
    ASSUME NEW I \in Nat, NEW J \in Nat \ {0}, J <= I, NEW p, p = Partition(I, J)
    PROVE  SizesFit(p, DivCeil(I, J))
  <1>1. PICK q \in Nat, r \in 0 .. J - 1 : q = I \div J /\ r = I % J /\ I = J * q + r
    BY Quotient
  <1>2. q >= 1
    <2>1. q # 0
      BY <1>1
    <2>. QED
      BY <2>1
  <1>3. DivCeil(I, J) = IF r # 0 THEN q + 1 ELSE q
    BY <1>1 DEF DivCeil
  <1>4. I - (I \div J) * J = r
    BY <1>1
  <1>5. p.JL = r /\ p.IS = q /\ p.IL = IF r = 0 THEN 0 ELSE q + 1
    BY <1>1, <1>3, <1>4 DEF Partition
  <1>. QED
    BY <1>2, <1>3, <1>5 DEF SizesFit

-----------------------------------------------------------------------------
\* What the OTI carries.

LEMMA OneOctet ==
    ASSUME NEW n \in 0 .. 255
    PROVE  OctetOf(n, 1) = n /\ OctetOf(n, 256) = 0
  BY SMT DEF OctetOf

LEMMA TwoOctets ==
    ASSUME NEW n \in Nat, n < 65536
    PROVE  OctetOf(n, 1) + 256 * OctetOf(n, 256) = n
  BY SMT DEF OctetOf

LEMMA ThreeOctets ==
    ASSUME NEW n \in Nat, n < 16777216
    PROVE  OctetOf(n, 1) + 256 * OctetOf(n, 256) + 65536 * OctetOf(n, 65536) = n
  BY SMT DEF OctetOf

LEMMA CasesAre ==
    ASSUME NEW F \in Lengths, NEW T \in Sizes
    PROVE  IsCase(F, T)
  BY LengthsAssumption, SMT DEF IsCase

\* The number of symbols and the number of blocks of a case
LEMMA CaseScheme ==
    ASSUME NEW F, NEW T, IsCase(F, T), NEW Kt, Kt = DivCeil(F, T)
    PROVE  /\ Kt \in Nat \ {0} /\ F <= T * Kt
           /\ SchemeZ(Kt) \in 1 .. 256 /\ SchemeZ(Kt) <= Kt
           /\ DivCeil(Kt, SchemeZ(Kt)) <= KMax
  <1>1. F \in Nat \ {0} /\ T \in Nat \ {0} /\ Kt <= 256 * KMax
    BY SMT DEF IsCase
  <1>2. Kt \in Nat \ {0} /\ F <= T * Kt
    BY <1>1, Positive, Covers
  <1>3. MinBlocks <= 256
    BY LengthsAssumption, SMT
  <1>. QED
    BY <1>1, <1>2, <1>3, SchemeFits

\* The decoder that is made of the OTI has the layout of the encoder, whatever
\* the length of the file and the size of its symbols.
LEMMA Agrees ==
    ASSUME NEW F, NEW T, IsCase(F, T)
    PROVE  SameAtBothEnds(EncoderNew(F, T, 1))
  <1>1. PICK Z \in 1 .. 256 : Z = SchemeZ(DivCeil(F, T))
    BY CaseScheme
  <1>. DEFINE rq == Nanorq(F, T, 1, Z, 1)
  <1>2. EncoderNew(F, T, 1) = rq
    BY <1>1 DEF EncoderNew
  <1>3. rq.F = F /\ rq.T = T /\ rq.Z = Z /\ rq.N = 1
    BY DEF Nanorq
  <1>. HIDE DEF rq
  <1>4. /\ Oti(rq)[1] + 256 * Oti(rq)[2] + 65536 * Oti(rq)[3] = F
        /\ (Oti(rq)[4] + 256 * Oti(rq)[5] + 1) % 65536 = T
        /\ Oti(rq)[6] + 1 = Z
        /\ Oti(rq)[7] + 256 * Oti(rq)[8] + 1 = 1
    <2>1. /\ Oti(rq)[1] = OctetOf(F, 1) /\ Oti(rq)[2] = OctetOf(F, 256)
          /\ Oti(rq)[3] = OctetOf(F, 65536)
          /\ Oti(rq)[4] = OctetOf(T - 1, 1) /\ Oti(rq)[5] = OctetOf(T - 1, 256)
          /\ Oti(rq)[6] = OctetOf(Z - 1, 1)
          /\ Oti(rq)[7] = OctetOf(0, 1) /\ Oti(rq)[8] = OctetOf(0, 256)
      BY <1>3, SMT DEF Oti
    <2>2. OctetOf(F, 1) + 256 * OctetOf(F, 256) + 65536 * OctetOf(F, 65536) = F
      BY ThreeOctets, SMT DEF IsCase
    <2>3. OctetOf(T - 1, 1) + 256 * OctetOf(T - 1, 256) = T - 1
      BY TwoOctets, SMT DEF IsCase
    <2>4. (T - 1 + 1) % 65536 = T
      BY SMT DEF IsCase
    <2>5. OctetOf(Z - 1, 1) = Z - 1 /\ OctetOf(0, 1) = 0 /\ OctetOf(0, 256) = 0
      BY OneOctet
    <2>. QED
      BY <2>1, <2>2, <2>3, <2>4, <2>5, SMT
  <1>5. DecoderNew(Oti(rq)) = Nanorq(F, T, 1, Z, 1)
    BY <1>4 DEF DecoderNew
  <1>. QED
    BY <1>2, <1>5 DEF rq, SameAtBothEnds

-----------------------------------------------------------------------------
\* Where a symbol is: the blocks follow each other, long ones first.

LEMMA ProductBelow ==
    ASSUME NEW b \in Nat \ {0}, NEW q \in Nat, NEW c \in Nat, q < c,
           NEW r \in 0 .. b - 1
    PROVE  b * q + r < b * c
  <1>1. PICK m \in Nat : c = q + 1 + m
    <2>1. c - (q + 1) \in Nat /\ c = q + 1 + (c - (q + 1))
      OBVIOUS
    <2>. QED
      BY <2>1
  <1>2. b * c = b * q + b + b * m /\ b * m \in Nat
    BY <1>1
  <1>. QED
    BY <1>2

LEMMA OneQuotient ==
    ASSUME NEW b \in Nat \ {0}, NEW q \in Nat, NEW c \in Nat,
           NEW r \in 0 .. b - 1, NEW s \in 0 .. b - 1, b * q + r = b * c + s
    PROVE  q = c /\ r = s
  <1>1. ~(q < c)
    <2>1. SUFFICES ASSUME q < c
                   PROVE  FALSE
      OBVIOUS
    <2>2. b * q + r < b * c /\ b * c \in Nat
      BY <2>1, ProductBelow
    <2>. QED
      BY <2>2
  <1>2. ~(c < q)
    <2>1. SUFFICES ASSUME c < q
                   PROVE  FALSE
      OBVIOUS
    <2>2. b * c + s < b * q /\ b * q \in Nat
      BY <2>1, ProductBelow
    <2>. QED
      BY <2>2
  <1>3. q = c
    BY <1>1, <1>2
  <1>. QED
    BY <1>3

\* Each of the I things is in one part.
LEMMA SomePlace ==
    ASSUME NEW p, NEW I \in Nat, NEW J \in Nat, IsPartition(p, I, J),
           NEW m \in 0 .. I - 1
    PROVE  \E b \in 0 .. J - 1 : \E e \in 0 .. Size(p, b) - 1 : First(p, b) + e = m
  <1>1. PICK JL \in Nat, JS \in Nat \ {0}, IL \in Nat, IS \in Nat :
            /\ p.JL = JL /\ p.JS = JS /\ p.IL = IL /\ p.IS = IS
            /\ JL + JS = J /\ IL * JL + IS * JS = I
    BY DEF IsPartition
  <1>2. PICK long \in Nat : long = IL * JL
    OBVIOUS
  <1>3. CASE m < long
    <2>1. IL # 0
      BY <1>1, <1>2, <1>3
    <2>2. PICK q \in Nat, r \in 0 .. IL - 1 : m = IL * q + r
      <3>1. m \in Nat /\ IL \in Nat \ {0}
        BY <1>3, <2>1
      <3>2. m \div IL \in Nat /\ m % IL \in 0 .. IL - 1 /\ m = IL * (m \div IL) + (m % IL)
        BY <3>1, Quotient
      <3>. QED
        BY <3>2
    <2>3. q < JL
      <3>1. ~(q >= JL)
        <4>1. SUFFICES ASSUME q >= JL
                       PROVE  FALSE
          OBVIOUS
        <4>2. PICK k \in Nat : q = JL + k
          <5>1. q - JL \in Nat /\ q = JL + (q - JL)
            BY <4>1
          <5>. QED
            BY <5>1
        <4>3. IL * q = long + IL * k /\ IL * k \in Nat
          BY <1>2, <4>2
        <4>. QED
          BY <1>3, <2>2, <4>3
      <3>. QED
        BY <3>1
    <2>4. First(p, q) = IL * q /\ Size(p, q) = IL
      BY <1>1, <2>3 DEF First, Size
    <2>5. q \in 0 .. J - 1
      BY <1>1, <2>3
    <2>. QED
      BY <2>2, <2>4, <2>5
  <1>4. CASE m >= long
    <2>1. PICK n \in Nat : m = long + n
      <3>1. m - long \in Nat /\ m = long + (m - long)
        BY <1>4
      <3>. QED
        BY <3>1
    <2>2. PICK q \in Nat, r \in 0 .. IS - 1 : n = IS * q + r
      <3>. IS \in Nat \ {0}
        <4>1. IS * JS > 0
          BY <1>1, <1>2, <1>4
        <4>. QED
          BY <4>1
      <3>1. n \div IS \in Nat /\ n % IS \in 0 .. IS - 1 /\ n = IS * (n \div IS) + (n % IS)
        BY Quotient
      <3>. QED
        BY <3>1
    <2>3. q < JS
      <3>1. ~(q >= JS)
        <4>1. SUFFICES ASSUME q >= JS
                       PROVE  FALSE
          OBVIOUS
        <4>2. PICK k \in Nat : q = JS + k
          <5>1. q - JS \in Nat /\ q = JS + (q - JS)
            BY <4>1
          <5>. QED
            BY <5>1
        <4>3. IS * q = IS * JS + IS * k /\ IS * k \in Nat /\ IS * JS \in Nat
          BY <4>2
        <4>4. m < long + IS * JS
          BY <1>1, <1>2
        <4>. QED
          BY <2>1, <2>2, <4>3, <4>4
      <3>. QED
        BY <3>1
    <2>4. PICK b \in 0 .. J - 1 : b = JL + q /\ b - JL = q /\ ~(b < JL)
      BY <1>1, <2>3
    <2>5. First(p, b) = long + IS * q /\ Size(p, b) = IS
      BY <1>1, <1>2, <2>4 DEF First, Size
    <2>6. First(p, b) + r = m
      BY <2>1, <2>2, <2>5
    <2>. QED
      BY <2>5, <2>6
  <1>. QED
    BY <1>3, <1>4

\* It is in no other one, and has no other place there.
LEMMA OnePlace ==
    ASSUME NEW p, NEW I \in Nat, NEW J \in Nat, IsPartition(p, I, J),
           NEW b, NEW e, IsPlace(p, J, b, e), NEW c, NEW f, IsPlace(p, J, c, f),
           First(p, b) + e = First(p, c) + f
    PROVE  b = c /\ e = f
  <1>. /\ b \in 0 .. J - 1 /\ e \in 0 .. Size(p, b) - 1
       /\ c \in 0 .. J - 1 /\ f \in 0 .. Size(p, c) - 1
    BY DEF IsPlace
  <1>1. PICK JL \in Nat, JS \in Nat \ {0}, IL \in Nat, IS \in Nat :
            p.JL = JL /\ p.JS = JS /\ p.IL = IL /\ p.IS = IS
    BY DEF IsPartition
  <1>2. PICK long \in Nat : long = IL * JL
    OBVIOUS
  <1>3. \A x \in 0 .. J - 1 : x < JL =>
            /\ First(p, x) = IL * x /\ Size(p, x) = IL
            /\ \A y \in 0 .. IL - 1 : IL * x + y < long
    <2>1. SUFFICES ASSUME NEW x \in 0 .. J - 1, x < JL
                   PROVE  /\ First(p, x) = IL * x /\ Size(p, x) = IL
                          /\ \A y \in 0 .. IL - 1 : IL * x + y < long
      OBVIOUS
    <2>2. First(p, x) = IL * x /\ Size(p, x) = IL
      BY <1>1, <2>1 DEF First, Size
    <2>3. ASSUME NEW y \in 0 .. IL - 1
          PROVE  IL * x + y < long
      <3>1. x \in Nat /\ x < JL /\ IL \in Nat \ {0}
        BY <2>1
      <3>2. IL * x + y < IL * JL
        BY <3>1, ProductBelow
      <3>. QED
        BY <1>2, <3>2
    <2>. QED
      BY <1>2, <2>2, <2>3
  <1>4. \A x \in 0 .. J - 1 : ~(x < JL) =>
            /\ First(p, x) = long + IS * (x - JL) /\ Size(p, x) = IS
            /\ x - JL \in Nat /\ IS * (x - JL) \in Nat
    BY <1>1, <1>2 DEF First, Size
  <1>5. CASE b < JL /\ c < JL
    <2>1. IL * b + e = IL * c + f /\ IL \in Nat \ {0} /\ e \in 0 .. IL - 1 /\ f \in 0 .. IL - 1
      BY <1>3, <1>5
    <2>2. b \in Nat /\ c \in Nat
      OBVIOUS
    <2>. QED
      BY <2>1, <2>2, OneQuotient
  <1>6. CASE ~(b < JL) /\ ~(c < JL)
    <2>1. PICK k \in Nat, l \in Nat : k = b - JL /\ l = c - JL
      BY <1>6
    <2>2. IS * k + e = IS * l + f /\ e \in 0 .. IS - 1 /\ f \in 0 .. IS - 1 /\ IS \in Nat \ {0}
      BY <1>4, <1>6, <2>1
    <2>3. k = l /\ e = f
      BY <2>2, OneQuotient
    <2>. QED
      BY <2>1, <2>3
  <1>7. CASE b < JL /\ ~(c < JL)
    <2>1. First(p, b) + e < long
      BY <1>3, <1>7
    <2>2. PICK k \in Nat : First(p, c) = long + k
      BY <1>4, <1>7
    <2>3. f \in Nat
      OBVIOUS
    <2>. QED
      BY <2>1, <2>2, <2>3
  <1>8. CASE ~(b < JL) /\ c < JL
    <2>1. First(p, c) + f < long
      BY <1>3, <1>8
    <2>2. PICK k \in Nat : First(p, b) = long + k
      BY <1>4, <1>8
    <2>3. e \in Nat
      OBVIOUS
    <2>. QED
      BY <2>1, <2>2, <2>3
  <1>. QED
    BY <1>5, <1>6, <1>7, <1>8

\* No thing of a part lies outside of the whole.
LEMMA Inside ==
    ASSUME NEW p, NEW I \in Nat, NEW J \in Nat, IsPartition(p, I, J),
           NEW b \in 0 .. J - 1, NEW e \in 0 .. Size(p, b) - 1
    PROVE  First(p, b) \in Nat /\ First(p, b) + e \in 0 .. I - 1
  <1>1. PICK JL \in Nat, JS \in Nat \ {0}, IL \in Nat, IS \in Nat :
            /\ p.JL = JL /\ p.JS = JS /\ p.IL = IL /\ p.IS = IS
            /\ JL + JS = J /\ IL * JL + IS * JS = I
    BY DEF IsPartition
  <1>2. IL * JL \in Nat /\ IS * JS \in Nat
    OBVIOUS
  <1>3. CASE b < JL
    <2>1. First(p, b) = IL * b /\ IL * b \in Nat /\ e \in 0 .. IL - 1 /\ IL \in Nat \ {0} /\ b \in Nat
      BY <1>1, <1>3 DEF First, Size
    <2>2. IL * b + e < IL * JL
      BY <1>3, <2>1, ProductBelow
    <2>. QED
      BY <1>1, <1>2, <2>1, <2>2
  <1>4. CASE ~(b < JL)
    <2>1. PICK k \in Nat : k = b - JL /\ k < JS
      BY <1>1, <1>4
    <2>2. First(p, b) = IL * JL + IS * k /\ IS * k \in Nat /\ e \in 0 .. IS - 1 /\ IS \in Nat \ {0}
      BY <1>1, <1>4, <2>1 DEF First, Size
    <2>3. IS * k + e < IS * JS
      BY <2>1, <2>2, ProductBelow
    <2>. QED
      BY <1>1, <1>2, <2>2, <2>3
  <1>. QED
    BY <1>3, <1>4

LEMMA TimesScales ==
    ASSUME NEW p, NEW I \in Nat, NEW J \in Nat, IsPartition(p, I, J), NEW k \in Nat
    PROVE  IsPartition(Times(k, p), k * I, J) /\ IsTimes(k, p, J, Times(k, p))
  <1>1. PICK JL \in Nat, JS \in Nat \ {0}, IL \in Nat, IS \in Nat :
            /\ p.JL = JL /\ p.JS = JS /\ p.IL = IL /\ p.IS = IS
            /\ JL + JS = J /\ IL * JL + IS * JS = I
    BY DEF IsPartition
  <1>2. PICK t : t = Times(k, p)
    OBVIOUS
  <1>3. t.JL = JL /\ t.JS = JS /\ t.IL = k * IL /\ t.IS = k * IS
    BY <1>1, <1>2 DEF Times
  <1>4. IsPartition(t, k * I, J)
    <2>1. (k * IL) * JL + (k * IS) * JS = k * (IL * JL + IS * JS)
      OBVIOUS
    <2>2. k * IL \in Nat /\ k * IS \in Nat
      OBVIOUS
    <2>. QED
      BY <1>1, <1>3, <2>1, <2>2 DEF IsPartition
  <1>5. ASSUME NEW b \in 0 .. J - 1
        PROVE  /\ Size(p, b) \in Nat /\ First(p, b) \in Nat
               /\ Size(t, b) = k * Size(p, b) /\ First(t, b) = k * First(p, b)
    <2>1. CASE b < JL
      <3>1. Size(p, b) = IL /\ First(p, b) = IL * b /\ Size(t, b) = k * IL /\ First(t, b) = (k * IL) * b
        BY <1>1, <1>3, <2>1 DEF Size, First
      <3>2. (k * IL) * b = k * (IL * b) /\ IL * b \in Nat
        OBVIOUS
      <3>. QED
        BY <3>1, <3>2
    <2>2. CASE ~(b < JL)
      <3>1. PICK l \in Nat : l = b - JL
        BY <2>2
      <3>2. /\ Size(p, b) = IS /\ First(p, b) = IL * JL + IS * l
            /\ Size(t, b) = k * IS /\ First(t, b) = (k * IL) * JL + (k * IS) * l
        BY <1>1, <1>3, <2>2, <3>1 DEF Size, First
      <3>3. /\ (k * IL) * JL + (k * IS) * l = k * (IL * JL + IS * l)
            /\ IL * JL + IS * l \in Nat
        OBVIOUS
      <3>. QED
        BY <3>2, <3>3
    <2>. QED
      BY <2>1, <2>2
  <1>. QED
    BY <1>2, <1>4, <1>5 DEF IsTimes

-----------------------------------------------------------------------------
\* Where the units of an object are.  Unit a of sub-symbol j of symbol e
\* of block b: block b begins behind the symbols of the blocks before it,
\* of Tn units each; in it, the sub-block of the j-th sub-symbols begins
\* behind those before it; and in that, the symbols follow each other.

LEMMA SomeUnit ==
    ASSUME NEW p, NEW s, NEW Kt \in Nat, NEW Z \in Nat, NEW Tn \in Nat, NEW N \in Nat,
           IsPartition(p, Kt, Z), IsPartition(s, Tn, N), NEW u \in 0 .. Tn * Kt - 1
    PROVE  \E b, e, j, a : IsUnit(p, s, Z, N, b, e, j, a) /\ UnitAt(p, s, Tn, b, e, j, a) = u
  <1>1. PICK t : t = Times(Tn, p) /\ IsPartition(t, Tn * Kt, Z) /\ IsTimes(Tn, p, Z, t)
    BY TimesScales
  <1>2. PICK b \in 0 .. Z - 1 : \E v \in 0 .. Size(t, b) - 1 : First(t, b) + v = u
    <2>1. Tn * Kt \in Nat
      OBVIOUS
    <2>. QED
      BY <1>1, <2>1, SomePlace
  <1>3. PICK v \in 0 .. Size(t, b) - 1 : First(t, b) + v = u
    BY <1>2
  <1>4. PICK k \in Nat, f \in Nat :
            /\ k = Size(p, b) /\ Size(t, b) = k * Tn
            /\ f = First(p, b) /\ First(t, b) = Tn * f
    BY <1>1, <1>2 DEF IsTimes
  <1>5. PICK r : r = Times(k, s) /\ IsPartition(r, k * Tn, N) /\ IsTimes(k, s, N, r)
    BY TimesScales
  <1>6. PICK j \in 0 .. N - 1 : \E w \in 0 .. Size(r, j) - 1 : First(r, j) + w = v
    <2>1. k * Tn \in Nat /\ v \in 0 .. k * Tn - 1
      BY <1>3, <1>4
    <2>. QED
      BY <1>5, <2>1, SomePlace
  <1>7. PICK w \in 0 .. Size(r, j) - 1 : First(r, j) + w = v
    BY <1>6
  <1>8. PICK len \in Nat, g \in Nat :
            /\ len = Size(s, j) /\ Size(r, j) = k * len
            /\ g = First(s, j) /\ First(r, j) = k * g
    BY <1>5, <1>6 DEF IsTimes
  <1>9. w \in Nat /\ len \in Nat \ {0} /\ w < len * k
    <2>1. w \in Nat /\ w < k * len
      BY <1>7, <1>8
    <2>2. len # 0
      BY <2>1
    <2>. QED
      BY <2>1, <2>2
  <1>10. PICK e \in Nat, a \in 0 .. len - 1 : w = len * e + a
    <2>1. w \div len \in Nat /\ w % len \in 0 .. len - 1 /\ w = len * (w \div len) + (w % len)
      BY <1>9, Quotient
    <2>. QED
      BY <2>1
  <1>11. e < k
    <2>1. SUFFICES ASSUME e >= k
                   PROVE  FALSE
      OBVIOUS
    <2>2. PICK m \in Nat : e = k + m
      <3>1. e - k \in Nat /\ e = k + (e - k)
        BY <2>1
      <3>. QED
        BY <3>1
    <2>3. len * e = len * k + len * m /\ len * m \in Nat /\ len * k \in Nat
      BY <2>2
    <2>. QED
      BY <1>9, <1>10, <2>3
  <1>12. IsUnit(p, s, Z, N, b, e, j, a)
    BY <1>4, <1>8, <1>10, <1>11 DEF IsUnit
  <1>13. UnitAt(p, s, Tn, b, e, j, a) = Tn * f + (k * g + (len * e + a))
    BY <1>4, <1>8 DEF UnitAt, InBlock, InSubBlock
  <1>14. Tn * f + (k * g + (len * e + a)) = u
    BY <1>3, <1>4, <1>7, <1>8, <1>10
  <1>. QED
    BY <1>12, <1>13, <1>14

LEMMA UnitParts ==
    ASSUME NEW p, NEW s, NEW Kt \in Nat, NEW Z \in Nat, NEW Tn \in Nat, NEW N \in Nat,
           IsPartition(p, Kt, Z), IsPartition(s, Tn, N),
           NEW b, NEW e, NEW j, NEW a, IsUnit(p, s, Z, N, b, e, j, a)
    PROVE  HasParts(p, s, Z, Tn, N, Kt, b, e, j, a)
  <1>. DEFINE t == Times(Tn, p)
              r == Times(Size(p, b), s)
  <1>1. IsPartition(t, Tn * Kt, Z) /\ IsTimes(Tn, p, Z, t)
    BY TimesScales
  <1>. HIDE DEF t
  <1>2. b \in 0 .. Z - 1 /\ j \in 0 .. N - 1
    BY DEF IsUnit
  <1>3. PICK k \in Nat, f \in Nat :
            /\ k = Size(p, b) /\ Size(t, b) = Tn * k
            /\ f = First(p, b) /\ First(t, b) = Tn * f
    BY <1>1, <1>2 DEF IsTimes
  <1>4. IsPartition(r, k * Tn, N) /\ IsTimes(k, s, N, r)
    BY <1>3, TimesScales
  <1>. HIDE DEF r
  <1>5. PICK len \in Nat, g \in Nat :
            /\ len = Size(s, j) /\ Size(r, j) = k * len
            /\ g = First(s, j) /\ First(r, j) = k * g
    BY <1>2, <1>4 DEF IsTimes
  <1>6. e \in Nat /\ e < k /\ a \in 0 .. len - 1 /\ len \in Nat \ {0}
    BY <1>3, <1>5 DEF IsUnit
  <1>7. PICK low \in Nat : low = InSubBlock(s, e, j, a) /\ low = len * e + a /\ low < len * k
    <2>1. len * e + a < len * k /\ len * e + a \in Nat
      BY <1>6, ProductBelow
    <2>. QED
      BY <1>5, <2>1 DEF InSubBlock
  <1>8. low \in 0 .. Size(r, j) - 1
    <2>1. low < k * len
      BY <1>7
    <2>2. k * len \in Nat
      OBVIOUS
    <2>. QED
      BY <1>5, <2>1, <2>2
  <1>9. PICK mid \in Nat : mid = InBlock(Size(p, b), s, e, j, a) /\ mid = First(r, j) + low
    BY <1>3, <1>5, <1>7 DEF InBlock
  <1>10. mid \in 0 .. k * Tn - 1
    <2>1. k * Tn \in Nat
      OBVIOUS
    <2>. QED
      BY <1>2, <1>4, <1>8, <1>9, <2>1, Inside
  <1>11. mid \in 0 .. Size(t, b) - 1
    BY <1>3, <1>10
  <1>12. UnitAt(p, s, Tn, b, e, j, a) = First(t, b) + mid
    BY <1>3, <1>9 DEF UnitAt
  <1>13. First(t, b) + mid \in 0 .. Tn * Kt - 1
    <2>1. Tn * Kt \in Nat
      OBVIOUS
    <2>. QED
      BY <1>1, <1>2, <1>11, <2>1, Inside
  <1>. QED
    BY <1>2, <1>3, <1>5, <1>7, <1>8, <1>9, <1>11, <1>12, <1>13 DEF HasParts, IsPlace, t, r

LEMMA OneUnit ==
    ASSUME NEW p, NEW s, NEW Kt \in Nat, NEW Z \in Nat, NEW Tn \in Nat, NEW N \in Nat,
           IsPartition(p, Kt, Z), IsPartition(s, Tn, N),
           NEW b, NEW e, NEW j, NEW a, IsUnit(p, s, Z, N, b, e, j, a),
           NEW c, NEW d, NEW l, NEW x, IsUnit(p, s, Z, N, c, d, l, x),
           UnitAt(p, s, Tn, b, e, j, a) = UnitAt(p, s, Tn, c, d, l, x)
    PROVE  b = c /\ e = d /\ j = l /\ a = x
  <1>1. HasParts(p, s, Z, Tn, N, Kt, b, e, j, a) /\ HasParts(p, s, Z, Tn, N, Kt, c, d, l, x)
    BY UnitParts
  <1>2. PICK t : t = Times(Tn, p) /\ IsPartition(t, Tn * Kt, Z)
    BY TimesScales
  <1>3. PICK m : m = InBlock(Size(p, b), s, e, j, a)
    OBVIOUS
  <1>4. PICK n : n = InBlock(Size(p, c), s, d, l, x)
    OBVIOUS
  <1>5. b = c /\ m = n
    <2>1. IsPlace(t, Z, b, m) /\ IsPlace(t, Z, c, n) /\ First(t, b) + m = First(t, c) + n
      BY <1>1, <1>2, <1>3, <1>4, Zenon DEF HasParts
    <2>2. Tn * Kt \in Nat
      OBVIOUS
    <2>. QED
      BY <1>2, <2>1, <2>2, OnePlace
  <1>6. PICK k \in Nat : k = Size(p, b)
    BY <1>1 DEF HasParts
  <1>7. PICK r : r = Times(k, s) /\ IsPartition(r, k * Tn, N)
    BY TimesScales
  <1>8. PICK v : v = InSubBlock(s, e, j, a)
    OBVIOUS
  <1>9. PICK w : w = InSubBlock(s, d, l, x)
    OBVIOUS
  <1>10. j = l /\ v = w
    <2>1. IsPlace(r, N, j, v) /\ m = First(r, j) + v
      BY <1>1, <1>3, <1>6, <1>7, <1>8, Zenon DEF HasParts
    <2>2. IsPlace(r, N, l, w) /\ n = First(r, l) + w
      BY <1>1, <1>4, <1>5, <1>6, <1>7, <1>9, Zenon DEF HasParts
    <2>3. k * Tn \in Nat
      OBVIOUS
    <2>. QED
      BY <1>5, <1>7, <2>1, <2>2, <2>3, OnePlace
  <1>11. PICK len \in Nat : len = Size(s, j)
    BY <1>1 DEF HasParts
  <1>12. /\ len \in Nat \ {0} /\ e \in Nat /\ d \in Nat
         /\ a \in 0 .. len - 1 /\ x \in 0 .. len - 1
    BY <1>5, <1>6, <1>10, <1>11 DEF IsUnit
  <1>13. len * e + a = len * d + x
    BY <1>8, <1>9, <1>10, <1>11 DEF InSubBlock
  <1>14. e = d /\ a = x
    BY <1>12, <1>13, OneQuotient
  <1>. QED
    BY <1>5, <1>10, <1>14

-----------------------------------------------------------------------------
\* The places a symbol is moved to.

LEMMA Exact ==
    ASSUME NEW b \in Nat \ {0}, NEW q \in Nat
    PROVE  (b * q) \div b = q /\ (b * q) % b = 0
  <1>1. PICK a \in Nat : a = b * q
    OBVIOUS
  <1>2. a \div b \in Nat /\ a % b \in 0 .. b - 1 /\ a = b * (a \div b) + (a % b)
    BY Quotient
  <1>3. PICK c \in Nat, r \in 0 .. b - 1 : c = a \div b /\ r = a % b
    BY <1>2
  <1>4. b * q + 0 = b * c + r /\ 0 \in 0 .. b - 1
    BY <1>1, <1>2, <1>3
  <1>5. q = c /\ 0 = r
    BY <1>4, OneQuotient
  <1>. QED
    BY <1>1, <1>3, <1>5

LEMMA LayoutBlocks ==
    ASSUME NEW rq, NEW Al \in Nat \ {0}, NEW Kt \in Nat, NEW Z \in Nat, NEW Tn \in Nat, NEW N \in Nat,
           IsLayout(rq, Al, Kt, Z, Tn, N)
    PROVE  HasBlocks(rq, Z, Tn)
  <1>1. PICK p : p = rq.src
    OBVIOUS
  <1>2. PICK JL \in Nat, JS \in Nat, IL \in Nat, IS \in Nat :
            p.JL = JL /\ p.JS = JS /\ p.IL = IL /\ p.IS = IS /\ JL + JS = Z
    BY <1>1 DEF IsLayout, IsPartition
  <1>3. NumBlocks(rq) = Z
    BY <1>1, <1>2 DEF NumBlocks
  <1>4. rq.T \div rq.Al = Tn
    BY DEF IsLayout
  <1>5. ASSUME NEW b \in 0 .. Z - 1
        PROVE  BlockSymbols(rq, b) = Size(p, b) /\ BlockStart(rq, b) = Tn * First(p, b)
    <2>1. CASE b < JL
      <3>1. First(p, b) = b * IL /\ Size(p, b) = IL
        BY <1>2, <2>1 DEF First, Size
      <3>2. BlockStart(rq, b) = Tn * (b * IL) /\ BlockSymbols(rq, b) = IL
        BY <1>1, <1>2, <1>4, <2>1 DEF BlockStart, BlockSymbols
      <3>. QED
        BY <3>1, <3>2
    <2>2. CASE ~(b < JL)
      <3>1. b - JL < JS
        BY <1>2, <2>2
      <3>2. First(p, b) = IL * JL + (b - JL) * IS /\ Size(p, b) = IS
        BY <1>2, <2>2 DEF First, Size
      <3>3. BlockStart(rq, b) = Tn * (IL * JL + (b - JL) * IS) /\ BlockSymbols(rq, b) = IS
        BY <1>1, <1>2, <1>4, <2>2, <3>1 DEF BlockStart, BlockSymbols
      <3>. QED
        BY <3>2, <3>3
    <2>. QED
      BY <2>1, <2>2
  <1>. QED
    BY <1>1, <1>3, <1>5 DEF HasBlocks

LEMMA Pieces ==
    ASSUME NEW rq, NEW Al \in Nat \ {0}, NEW Kt \in Nat, NEW Z \in Nat, NEW Tn \in Nat, NEW N \in Nat,
           IsLayout(rq, Al, Kt, Z, Tn, N), NEW b \in 0 .. Z - 1, NEW e \in Nat
    PROVE  HasPieces(rq, N, Tn, b, e)
  <1>1. PICK s : s = rq.sub
    OBVIOUS
  <1>2. PICK JL \in Nat, JS \in Nat \ {0}, IL \in Nat, IS \in Nat \ {0} :
            /\ s.JL = JL /\ s.JS = JS /\ s.IL = IL /\ s.IS = IS /\ JL + JS = N
            /\ JL > 0 => IL # 0
    BY <1>1 DEF IsLayout, IsPartition
  <1>3. PICK k \in Nat, f \in Nat : k = Size(rq.src, b) /\ f = First(rq.src, b)
    <2>1. IsPartition(rq.src, Kt, Z)
      BY DEF IsLayout
    <2>2. IsTimes(Tn, rq.src, Z, Times(Tn, rq.src))
      BY <2>1, TimesScales
    <2>. QED
      BY <2>2 DEF IsTimes
  <1>4. BlockSymbols(rq, b) = k /\ BlockStart(rq, b) = Tn * f
    <2>1. HasBlocks(rq, Z, Tn)
      BY LayoutBlocks
    <2>. QED
      BY <1>3, <2>1 DEF HasBlocks
  <1>5. PICK long \in Nat : long = IL * JL
    OBVIOUS
  <1>6. ASSUME NEW j \in 0 .. N - 1, j < JL
        PROVE  /\ First(s, j) = j * IL /\ First(s, j) \in Nat /\ Size(s, j) = IL
               /\ PieceLength(rq, First(s, j)) = Size(s, j)
               /\ SymbolOffset(rq, b, e, First(s, j)) = Tn * f + (k * First(s, j) + Size(s, j) * e)
    <2>1. First(s, j) = IL * j /\ Size(s, j) = IL /\ j \in Nat /\ IL \in Nat \ {0}
      BY <1>2, <1>6 DEF First, Size
    <2>2. PICK pos \in Nat : pos = IL * j /\ pos < long
      <3>1. IL * j + 0 < IL * JL
        BY <1>6, <2>1, ProductBelow
      <3>2. IL * j \in Nat
        BY <2>1
      <3>. QED
        BY <1>5, <3>1, <3>2
    <2>3. pos \div IL = j /\ pos % IL = 0
      BY <2>1, <2>2, Exact
    <2>4. PieceLength(rq, pos) = IL
      BY <1>1, <1>2, <1>5, <2>2 DEF PieceLength
    <2>5. SymbolOffset(rq, b, e, pos) = Tn * f + (j * k * IL + e * IL + 0)
      BY <1>1, <1>2, <1>4, <1>5, <2>2, <2>3 DEF SymbolOffset
    <2>6. j * k * IL + e * IL + 0 = k * (IL * j) + IL * e
      BY <2>1
    <2>. QED
      BY <2>1, <2>2, <2>4, <2>5, <2>6
  <1>7. ASSUME NEW i \in 0 .. JS - 1
        PROVE  /\ First(s, JL + i) = IL * JL + i * IS /\ First(s, JL + i) \in Nat
               /\ Size(s, JL + i) = IS
               /\ PieceLength(rq, First(s, JL + i)) = Size(s, JL + i)
               /\ SymbolOffset(rq, b, e, First(s, JL + i)) =
                      Tn * f + (k * First(s, JL + i) + Size(s, JL + i) * e)
    <2>1. First(s, JL + i) = long + IS * i /\ Size(s, JL + i) = IS /\ i \in Nat
      BY <1>2, <1>5 DEF First, Size
    <2>2. PICK pos \in Nat : pos = long + IS * i /\ ~(pos < long) /\ pos - long = IS * i
      <3>1. IS * i \in Nat
        OBVIOUS
      <3>. QED
        BY <3>1
    <2>3. (pos - long) \div IS = i /\ (pos - long) % IS = 0
      <3>1. IS \in Nat \ {0} /\ i \in Nat /\ pos - long = IS * i
        BY <2>1, <2>2
      <3>2. (IS * i) \div IS = i /\ (IS * i) % IS = 0
        BY <3>1, Exact
      <3>. QED
        BY <3>1, <3>2
    <2>4. PieceLength(rq, pos) = IS
      BY <1>1, <1>2, <1>5, <2>2 DEF PieceLength
    <2>5. SymbolOffset(rq, b, e, pos) = Tn * f + (long * k + (i * k * IS + e * IS + 0))
      BY <1>1, <1>2, <1>4, <1>5, <2>2, <2>3 DEF SymbolOffset
    <2>6. long * k + (i * k * IS + e * IS + 0) = k * (long + IS * i) + IS * e
      BY <2>1
    <2>. QED
      BY <1>5, <2>1, <2>2, <2>4, <2>5, <2>6
  <1>8. ASSUME NEW j \in 0 .. N - 1
        PROVE  /\ First(s, j) \in Nat /\ Size(s, j) \in Nat
               /\ PieceLength(rq, First(s, j)) = Size(s, j)
               /\ SymbolOffset(rq, b, e, First(s, j)) = Tn * f + (k * First(s, j) + Size(s, j) * e)
               /\ First(s, j) \in PieceStarts(rq)
    <2>1. CASE j < JL
      <3>1. j \in 0 .. JL - 1
        BY <2>1
      <3>2. j * IL \in PieceStarts(rq)
        BY <1>1, <1>2, <3>1 DEF PieceStarts
      <3>. QED
        BY <1>6, <2>1, <3>2
    <2>2. CASE ~(j < JL)
      <3>1. PICK i \in 0 .. JS - 1 : j = JL + i
        <4>1. j - JL \in 0 .. JS - 1 /\ j = JL + (j - JL)
          BY <1>2, <2>2
        <4>. QED
          BY <4>1
      <3>2. IL * JL + i * IS \in PieceStarts(rq)
        BY <1>1, <1>2 DEF PieceStarts
      <3>. QED
        BY <1>7, <3>1, <3>2
    <2>. QED
      BY <2>1, <2>2
  <1>9. ASSUME NEW pos \in PieceStarts(rq)
        PROVE  \E j \in 0 .. N - 1 : pos = First(s, j)
    <2>1. CASE \E n \in 0 .. JL - 1 : pos = n * IL
      <3>1. PICK n \in 0 .. JL - 1 : pos = n * IL
        BY <2>1
      <3>2. n \in 0 .. N - 1 /\ n < JL
        BY <1>2
      <3>. QED
        BY <1>6, <3>1, <3>2
    <2>2. CASE \E n \in 0 .. JS - 1 : pos = IL * JL + n * IS
      <3>1. PICK n \in 0 .. JS - 1 : pos = IL * JL + n * IS
        BY <2>2
      <3>2. JL + n \in 0 .. N - 1
        BY <1>2
      <3>. QED
        BY <1>7, <3>1, <3>2
    <2>3. pos \in {n * IL : n \in 0 .. JL - 1} \union {IL * JL + n * IS : n \in 0 .. JS - 1}
      BY <1>1, <1>2, <1>9 DEF PieceStarts
    <2>. QED
      BY <2>1, <2>2, <2>3
  <1>10. PieceStarts(rq) = {First(s, j) : j \in 0 .. N - 1}
    BY <1>8, <1>9
  <1>. QED
    BY <1>1, <1>3, <1>8, <1>10 DEF HasPieces

LEMMA IsPlaced ==
    ASSUME NEW rq, NEW Al \in Nat \ {0}, NEW Kt \in Nat, NEW Z \in Nat, NEW Tn \in Nat, NEW N \in Nat,
           IsLayout(rq, Al, Kt, Z, Tn, N),
           NEW b, NEW e, IsPlace(rq.src, Z, b, e), NEW x
    PROVE  x \in Placed(rq, b, e) <=>
               \E j, a, c : IsOctet(rq, Al, Z, N, b, e, j, a, c)
                            /\ x = MovedAs(rq, Al, Tn, b, e, j, a, c)
  <1>1. b \in 0 .. Z - 1 /\ e \in 0 .. Size(rq.src, b) - 1 /\ e \in Nat
    BY DEF IsPlace
  <1>2. HasPieces(rq, N, Tn, b, e)
    BY <1>1, Pieces
  <1>3. PICK p : p = rq.src
    OBVIOUS
  <1>4. PICK s : s = rq.sub
    OBVIOUS
  <1>5. PICK k \in Nat, f \in Nat : k = Size(p, b) /\ f = First(p, b)
    <2>1. IsPartition(p, Kt, Z)
      BY <1>3 DEF IsLayout
    <2>2. IsTimes(Tn, p, Z, Times(Tn, p))
      BY <2>1, TimesScales
    <2>. QED
      BY <1>1, <2>2 DEF IsTimes
  <1>. DEFINE Off(j) == Tn * f + (k * First(s, j) + Size(s, j) * e)
              Whole(j, n) == [octet |-> First(s, j) * Al + n, at |-> Off(j) * Al + n]
  <1>6. \A j \in 0 .. N - 1 : First(s, j) \in Nat /\ Size(s, j) \in Nat /\ Off(j) \in Nat
    <2>1. SUFFICES ASSUME NEW j \in 0 .. N - 1
                   PROVE  First(s, j) \in Nat /\ Size(s, j) \in Nat /\ Off(j) \in Nat
      OBVIOUS
    <2>2. PICK g \in Nat, len \in Nat : g = First(s, j) /\ len = Size(s, j)
      BY <1>2, <1>4 DEF HasPieces
    <2>3. Tn * f + (k * g + len * e) \in Nat
      BY <1>1
    <2>. QED
      BY <2>2, <2>3
  <1>7. x \in Placed(rq, b, e) <=>
            \E j \in 0 .. N - 1 : \E n \in 0 .. Size(s, j) * Al - 1 : x = Whole(j, n)
    <2>1. rq.Al = Al
      BY DEF IsLayout
    <2>2. Placed(rq, b, e) =
              UNION {{[octet |-> pos * Al + n, at |-> SymbolOffset(rq, b, e, pos) * Al + n] :
                          n \in 0 .. PieceLength(rq, pos) * Al - 1} :
                     pos \in {First(s, j) : j \in 0 .. N - 1}}
      BY <1>2, <1>4, <2>1 DEF Placed, HasPieces
    <2>3. x \in Placed(rq, b, e) <=>
              \E j \in 0 .. N - 1 : \E n \in 0 .. PieceLength(rq, First(s, j)) * Al - 1 :
                  x = [octet |-> First(s, j) * Al + n,
                       at |-> SymbolOffset(rq, b, e, First(s, j)) * Al + n]
      <3>. DEFINE Set(pos) == {[octet |-> pos * Al + n, at |-> SymbolOffset(rq, b, e, pos) * Al + n] :
                                   n \in 0 .. PieceLength(rq, pos) * Al - 1}
      <3>1. \A pos : x \in Set(pos) <=>
                \E n \in 0 .. PieceLength(rq, pos) * Al - 1 :
                    x = [octet |-> pos * Al + n, at |-> SymbolOffset(rq, b, e, pos) * Al + n]
        BY Zenon
      <3>2. Placed(rq, b, e) = UNION {Set(pos) : pos \in {First(s, j) : j \in 0 .. N - 1}}
        BY <2>2
      <3>. HIDE DEF Set
      <3>3. x \in Placed(rq, b, e) <=> \E j \in 0 .. N - 1 : x \in Set(First(s, j))
        BY <3>2, Zenon
      <3>. QED
        BY <3>1, <3>3, Zenon
    <2>4. \A j \in 0 .. N - 1 : PieceLength(rq, First(s, j)) = Size(s, j)
                                /\ SymbolOffset(rq, b, e, First(s, j)) = Off(j)
      BY <1>2, <1>3, <1>4, <1>5 DEF HasPieces
    <2>. HIDE DEF Off
    <2>. QED
      BY <2>3, <2>4, Zenon
  <1>8. ASSUME NEW j \in 0 .. N - 1, NEW a \in Nat, NEW c \in 0 .. Al - 1
        PROVE  MovedAs(rq, Al, Tn, b, e, j, a, c) = Whole(j, Al * a + c)
    <2>1. PICK g \in Nat, len \in Nat : g = First(s, j) /\ len = Size(s, j)
      BY <1>6
    <2>2. Al * (g + a) + c = g * Al + (Al * a + c)
      OBVIOUS
    <2>3. Al * (Tn * f + (k * g + (len * e + a))) + c = (Tn * f + (k * g + len * e)) * Al + (Al * a + c)
      BY <1>1
    <2>4. OctetOfUnit(rq, Al, j, a, c) = First(s, j) * Al + (Al * a + c)
      BY <1>4, <2>1, <2>2 DEF OctetOfUnit
    <2>5. AtOfUnit(rq, Al, Tn, b, e, j, a, c) = Off(j) * Al + (Al * a + c)
      BY <1>3, <1>4, <1>5, <2>1, <2>3 DEF AtOfUnit, UnitAt, InBlock, InSubBlock
    <2>. QED
      BY <2>4, <2>5 DEF MovedAs
  <1>. HIDE DEF Off, Whole
  <1>9. ASSUME NEW j \in 0 .. N - 1, NEW n \in 0 .. Size(s, j) * Al - 1
        PROVE  \E a \in 0 .. Size(s, j) - 1 : \E c \in 0 .. Al - 1 : n = Al * a + c
    <2>1. PICK len \in Nat : len = Size(s, j)
      BY <1>6
    <2>2. n \in Nat /\ n < Al * len
      BY <2>1
    <2>3. PICK a \in Nat, c \in 0 .. Al - 1 : n = Al * a + c
      <3>1. n \div Al \in Nat /\ n % Al \in 0 .. Al - 1 /\ n = Al * (n \div Al) + (n % Al)
        BY <2>2, Quotient
      <3>. QED
        BY <3>1
    <2>4. a < len
      <3>1. SUFFICES ASSUME a >= len
                     PROVE  FALSE
        OBVIOUS
      <3>2. PICK m \in Nat : a = len + m
        <4>1. a - len \in Nat /\ a = len + (a - len)
          BY <3>1
        <4>. QED
          BY <4>1
      <3>3. Al * a = Al * len + Al * m /\ Al * m \in Nat /\ Al * len \in Nat
        BY <3>2
      <3>. QED
        BY <2>2, <2>3, <3>3
    <2>. QED
      BY <2>1, <2>3, <2>4
  <1>10. ASSUME NEW j \in 0 .. N - 1, NEW a \in 0 .. Size(s, j) - 1, NEW c \in 0 .. Al - 1
         PROVE  Al * a + c \in 0 .. Size(s, j) * Al - 1
    <2>1. PICK len \in Nat : len = Size(s, j)
      BY <1>6
    <2>2. Al * a + c < Al * len /\ Al * a + c \in Nat
      BY <2>1, ProductBelow
    <2>. QED
      BY <2>1, <2>2
  <1>11. \A j, a, c : IsOctet(rq, Al, Z, N, b, e, j, a, c) <=>
             j \in 0 .. N - 1 /\ a \in 0 .. Size(s, j) - 1 /\ c \in 0 .. Al - 1
    BY <1>1, <1>4, Zenon DEF IsOctet, IsUnit
  <1>12. ASSUME x \in Placed(rq, b, e)
         PROVE  \E j, a, c : IsOctet(rq, Al, Z, N, b, e, j, a, c)
                             /\ x = MovedAs(rq, Al, Tn, b, e, j, a, c)
    <2>1. PICK j \in 0 .. N - 1 : \E n \in 0 .. Size(s, j) * Al - 1 : x = Whole(j, n)
      BY <1>7, <1>12
    <2>2. PICK n \in 0 .. Size(s, j) * Al - 1 : x = Whole(j, n)
      BY <2>1
    <2>3. PICK a \in 0 .. Size(s, j) - 1 : \E c \in 0 .. Al - 1 : n = Al * a + c
      BY <1>9
    <2>4. PICK c \in 0 .. Al - 1 : n = Al * a + c
      BY <2>3
    <2>5. MovedAs(rq, Al, Tn, b, e, j, a, c) = Whole(j, Al * a + c)
      BY <1>8
    <2>. QED
      BY <1>11, <2>2, <2>4, <2>5, Zenon
  <1>13. ASSUME NEW j, NEW a, NEW c, IsOctet(rq, Al, Z, N, b, e, j, a, c),
                x = MovedAs(rq, Al, Tn, b, e, j, a, c)
         PROVE  x \in Placed(rq, b, e)
    <2>1. j \in 0 .. N - 1 /\ a \in 0 .. Size(s, j) - 1 /\ a \in Nat /\ c \in 0 .. Al - 1
      BY <1>11, <1>13
    <2>2. x = Whole(j, Al * a + c)
      BY <1>8, <1>13, <2>1
    <2>3. Al * a + c \in 0 .. Size(s, j) * Al - 1
      BY <1>10, <2>1
    <2>. QED
      BY <1>7, <2>1, <2>2, <2>3, Zenon
  <1>. QED
    BY <1>12, <1>13

-----------------------------------------------------------------------------
\* The layout covers the object.

LEMMA SymbolsAre ==
    ASSUME NEW rq, NEW Al \in Nat \ {0}, NEW Kt \in Nat, NEW Z \in Nat, NEW Tn \in Nat, NEW N \in Nat,
           IsLayout(rq, Al, Kt, Z, Tn, N), NEW z
    PROVE  z \in Symbols(rq) <=> IsSymbol(rq, Z, z)
  <1>1. HasBlocks(rq, Z, Tn)
    BY LayoutBlocks
  <1>. DEFINE Set(b) == {<<b, e>> : e \in 0 .. BlockSymbols(rq, b) - 1}
  <1>2. Symbols(rq) = UNION {Set(b) : b \in 0 .. Z - 1}
    BY <1>1 DEF Symbols, HasBlocks
  <1>3. \A b : z \in Set(b) <=> \E e \in 0 .. BlockSymbols(rq, b) - 1 : z = <<b, e>>
    BY Zenon
  <1>. HIDE DEF Set
  <1>4. z \in Symbols(rq) <=> \E b \in 0 .. Z - 1 : z \in Set(b)
    BY <1>2, Zenon
  <1>5. \A b \in 0 .. Z - 1 : BlockSymbols(rq, b) = Size(rq.src, b)
    BY <1>1 DEF HasBlocks
  <1>. QED
    BY <1>3, <1>4, <1>5, Zenon DEF IsPlace, IsSymbol

\* Each octet is in some symbol.
LEMMA SomeOctet ==
    ASSUME NEW rq, NEW Al \in Nat \ {0}, NEW Kt \in Nat, NEW Z \in Nat, NEW Tn \in Nat, NEW N \in Nat,
           IsLayout(rq, Al, Kt, Z, Tn, N), NEW at \in 0 .. rq.F - 1
    PROVE  \E b, e, j, a, c : IsOctet(rq, Al, Z, N, b, e, j, a, c)
                              /\ AtOfUnit(rq, Al, Tn, b, e, j, a, c) = at
  <1>1. PICK F \in Nat : F = rq.F /\ F <= (Al * Tn) * Kt
    BY DEF IsLayout
  <1>2. at \in Nat /\ at < F
    BY <1>1
  <1>3. PICK u \in Nat, c \in 0 .. Al - 1 : at = Al * u + c
    <2>1. at \div Al \in Nat /\ at % Al \in 0 .. Al - 1 /\ at = Al * (at \div Al) + (at % Al)
      BY <1>2, Quotient
    <2>. QED
      BY <2>1
  <1>4. u < Tn * Kt
    <2>1. PICK all \in Nat : all = Tn * Kt
      OBVIOUS
    <2>2. (Al * Tn) * Kt = Al * all
      BY <2>1
    <2>3. ~(u >= all)
      <3>1. SUFFICES ASSUME u >= all
                     PROVE  FALSE
        OBVIOUS
      <3>2. PICK m \in Nat : u = all + m
        <4>1. u - all \in Nat /\ u = all + (u - all)
          BY <3>1
        <4>. QED
          BY <4>1
      <3>3. Al * u = Al * all + Al * m /\ Al * m \in Nat /\ Al * all \in Nat
        BY <3>2
      <3>. QED
        BY <1>1, <1>2, <1>3, <2>2, <3>3
    <2>. QED
      BY <2>1, <2>3
  <1>5. u \in 0 .. Tn * Kt - 1
    <2>1. Tn * Kt \in Nat
      OBVIOUS
    <2>. QED
      BY <1>4, <2>1
  <1>6. PICK b, e, j, a : /\ IsUnit(rq.src, rq.sub, Z, N, b, e, j, a)
                          /\ UnitAt(rq.src, rq.sub, Tn, b, e, j, a) = u
    <2>1. IsPartition(rq.src, Kt, Z) /\ IsPartition(rq.sub, Tn, N)
      BY DEF IsLayout
    <2>. QED
      BY <1>5, <2>1, SomeUnit
  <1>7. IsOctet(rq, Al, Z, N, b, e, j, a, c)
    BY <1>6 DEF IsOctet
  <1>8. AtOfUnit(rq, Al, Tn, b, e, j, a, c) = at
    BY <1>3, <1>6 DEF AtOfUnit
  <1>. QED
    BY <1>7, <1>8

\* What an octet's numbers are, and that no two octets share a place.
LEMMA OctetNumbers ==
    ASSUME NEW rq, NEW Al \in Nat \ {0}, NEW Kt \in Nat, NEW Z \in Nat, NEW Tn \in Nat, NEW N \in Nat,
           IsLayout(rq, Al, Kt, Z, Tn, N),
           NEW b, NEW e, NEW j, NEW a, NEW c, IsOctet(rq, Al, Z, N, b, e, j, a, c)
    PROVE  /\ UnitAt(rq.src, rq.sub, Tn, b, e, j, a) \in Nat
           /\ AtOfUnit(rq, Al, Tn, b, e, j, a, c) \in Nat
           /\ First(rq.sub, j) + a \in Nat
           /\ OctetOfUnit(rq, Al, j, a, c) \in 0 .. rq.T - 1
  <1>1. IsPartition(rq.src, Kt, Z) /\ IsPartition(rq.sub, Tn, N) /\ rq.T = Al * Tn
    BY DEF IsLayout
  <1>2. IsUnit(rq.src, rq.sub, Z, N, b, e, j, a) /\ c \in 0 .. Al - 1
    BY DEF IsOctet
  <1>3. PICK u \in Nat : u = UnitAt(rq.src, rq.sub, Tn, b, e, j, a)
    <2>1. HasParts(rq.src, rq.sub, Z, Tn, N, Kt, b, e, j, a)
      BY <1>1, <1>2, UnitParts
    <2>. QED
      BY <2>1 DEF HasParts
  <1>4. PICK o \in 0 .. Tn - 1 : o = First(rq.sub, j) + a
    <2>1. j \in 0 .. N - 1 /\ a \in 0 .. Size(rq.sub, j) - 1
      BY <1>2 DEF IsUnit
    <2>. QED
      BY <1>1, <2>1, Inside
  <1>5. Al * o + c < Al * Tn /\ Al * o + c \in Nat
    BY <1>2, <1>4, ProductBelow
  <1>6. Al * u + c \in Nat
    BY <1>2
  <1>7. Al * Tn \in Nat
    OBVIOUS
  <1>. QED
    BY <1>1, <1>3, <1>4, <1>5, <1>6, <1>7 DEF AtOfUnit, OctetOfUnit

LEMMA OneOctetAt ==
    ASSUME NEW rq, NEW Al \in Nat \ {0}, NEW Kt \in Nat, NEW Z \in Nat, NEW Tn \in Nat, NEW N \in Nat,
           IsLayout(rq, Al, Kt, Z, Tn, N),
           NEW b, NEW e, NEW j, NEW a, NEW c, IsOctet(rq, Al, Z, N, b, e, j, a, c),
           NEW d, NEW f, NEW l, NEW x, NEW k, IsOctet(rq, Al, Z, N, d, f, l, x, k),
           AtOfUnit(rq, Al, Tn, b, e, j, a, c) = AtOfUnit(rq, Al, Tn, d, f, l, x, k)
    PROVE  b = d /\ e = f /\ j = l /\ a = x /\ c = k
  <1>1. IsPartition(rq.src, Kt, Z) /\ IsPartition(rq.sub, Tn, N)
    BY DEF IsLayout
  <1>2. PICK u \in Nat : u = UnitAt(rq.src, rq.sub, Tn, b, e, j, a)
    BY OctetNumbers
  <1>3. PICK v \in Nat : v = UnitAt(rq.src, rq.sub, Tn, d, f, l, x)
    BY OctetNumbers
  <1>4. c \in 0 .. Al - 1 /\ k \in 0 .. Al - 1 /\ Al * u + c = Al * v + k
    BY <1>2, <1>3 DEF IsOctet, AtOfUnit
  <1>5. u = v /\ c = k
    BY <1>4, OneQuotient
  <1>6. /\ IsUnit(rq.src, rq.sub, Z, N, b, e, j, a) /\ IsUnit(rq.src, rq.sub, Z, N, d, f, l, x)
        /\ UnitAt(rq.src, rq.sub, Tn, b, e, j, a) = UnitAt(rq.src, rq.sub, Tn, d, f, l, x)
    BY <1>2, <1>3, <1>5 DEF IsOctet
  <1>7. b = d /\ e = f /\ j = l /\ a = x
    BY <1>1, <1>6, OneUnit
  <1>. QED
    BY <1>5, <1>7

LEMMA OneOctetOf ==
    ASSUME NEW rq, NEW Al \in Nat \ {0}, NEW Kt \in Nat, NEW Z \in Nat, NEW Tn \in Nat, NEW N \in Nat,
           IsLayout(rq, Al, Kt, Z, Tn, N),
           NEW b, NEW e, NEW j, NEW a, NEW c, IsOctet(rq, Al, Z, N, b, e, j, a, c),
           NEW l, NEW x, NEW k, IsOctet(rq, Al, Z, N, b, e, l, x, k),
           OctetOfUnit(rq, Al, j, a, c) = OctetOfUnit(rq, Al, l, x, k)
    PROVE  j = l /\ a = x /\ c = k
  <1>1. IsPartition(rq.sub, Tn, N)
    BY DEF IsLayout
  <1>2. PICK u \in Nat : u = First(rq.sub, j) + a
    BY OctetNumbers
  <1>3. PICK v \in Nat : v = First(rq.sub, l) + x
    BY OctetNumbers
  <1>4. c \in 0 .. Al - 1 /\ k \in 0 .. Al - 1 /\ Al * u + c = Al * v + k
    BY <1>2, <1>3 DEF IsOctet, OctetOfUnit
  <1>5. u = v /\ c = k
    BY <1>4, OneQuotient
  <1>6. IsPlace(rq.sub, N, j, a) /\ IsPlace(rq.sub, N, l, x)
    BY DEF IsOctet, IsUnit, IsPlace
  <1>7. First(rq.sub, j) + a = First(rq.sub, l) + x
    BY <1>2, <1>3, <1>5
  <1>8. j = l /\ a = x
    BY <1>1, <1>6, <1>7, OnePlace
  <1>. QED
    BY <1>5, <1>8

LEMMA Covered ==
    ASSUME NEW rq, NEW Al \in Nat \ {0}, NEW Kt \in Nat, NEW Z \in Nat, NEW Tn \in Nat, NEW N \in Nat,
           IsLayout(rq, Al, Kt, Z, Tn, N)
    PROVE  CoversObject(rq)
  <1>. DEFINE Holds(s, at) == \E x \in Transfer(rq, s[1], s[2]) : x.at = at
  <1>1. ASSUME NEW b, NEW e, IsPlace(rq.src, Z, b, e), NEW x
        PROVE  x \in Transfer(rq, b, e) <=>
                   \E j, a, c : /\ IsOctet(rq, Al, Z, N, b, e, j, a, c)
                                /\ x = MovedAs(rq, Al, Tn, b, e, j, a, c) /\ x.at < rq.F
    <2>1. x \in Placed(rq, b, e) <=>
               \E j, a, c : IsOctet(rq, Al, Z, N, b, e, j, a, c)
                            /\ x = MovedAs(rq, Al, Tn, b, e, j, a, c)
      BY <1>1, IsPlaced
    <2>. QED
      BY <2>1, Zenon DEF Transfer
  <1>2. \A b, e, j, a, c : /\ MovedAs(rq, Al, Tn, b, e, j, a, c).at = AtOfUnit(rq, Al, Tn, b, e, j, a, c)
                           /\ MovedAs(rq, Al, Tn, b, e, j, a, c).octet = OctetOfUnit(rq, Al, j, a, c)
    BY DEF MovedAs
  <1>3. \A b, e, at : IsPlace(rq.src, Z, b, e) =>
            (Holds(<<b, e>>, at) <=>
                \E j, a, c : /\ IsOctet(rq, Al, Z, N, b, e, j, a, c)
                             /\ AtOfUnit(rq, Al, Tn, b, e, j, a, c) = at /\ at < rq.F)
    <2>1. SUFFICES ASSUME NEW b, NEW e, NEW at, IsPlace(rq.src, Z, b, e)
                   PROVE  Holds(<<b, e>>, at) <=>
                              \E j, a, c : /\ IsOctet(rq, Al, Z, N, b, e, j, a, c)
                                           /\ AtOfUnit(rq, Al, Tn, b, e, j, a, c) = at /\ at < rq.F
      BY Zenon
    <2>2. Holds(<<b, e>>, at) <=> \E x \in Transfer(rq, b, e) : x.at = at
      OBVIOUS
    <2>3. ASSUME NEW x \in Transfer(rq, b, e), x.at = at
          PROVE  \E j, a, c : /\ IsOctet(rq, Al, Z, N, b, e, j, a, c)
                              /\ AtOfUnit(rq, Al, Tn, b, e, j, a, c) = at /\ at < rq.F
      BY <1>1, <1>2, <2>1, <2>3
    <2>4. ASSUME NEW j, NEW a, NEW c, IsOctet(rq, Al, Z, N, b, e, j, a, c),
                 AtOfUnit(rq, Al, Tn, b, e, j, a, c) = at, at < rq.F
          PROVE  \E x \in Transfer(rq, b, e) : x.at = at
      <3>1. MovedAs(rq, Al, Tn, b, e, j, a, c) \in Transfer(rq, b, e)
        BY <1>1, <1>2, <2>1, <2>4
      <3>. QED
        BY <1>2, <2>4, <3>1, Zenon
    <2>. HIDE DEF Holds
    <2>. QED
      BY <2>2, <2>3, <2>4, Zenon
  <1>4. ASSUME NEW at \in 0 .. rq.F - 1
        PROVE  \E s \in Symbols(rq) : {z \in Symbols(rq) : Holds(z, at)} = {s}
    <2>. HIDE DEF Holds
    <2>1. PICK b, e, j, a, c : IsOctet(rq, Al, Z, N, b, e, j, a, c)
                               /\ AtOfUnit(rq, Al, Tn, b, e, j, a, c) = at
      BY SomeOctet
    <2>2. IsPlace(rq.src, Z, b, e)
      BY <2>1 DEF IsOctet, IsUnit, IsPlace
    <2>3. at < rq.F
      BY DEF IsLayout
    <2>4. <<b, e>> \in Symbols(rq)
      <3>1. IsSymbol(rq, Z, <<b, e>>)
        BY <2>2, Zenon DEF IsSymbol
      <3>. QED
        BY <3>1, SymbolsAre
    <2>5. Holds(<<b, e>>, at)
      BY <1>3, <2>1, <2>2, <2>3, Zenon
    <2>6. ASSUME NEW z \in Symbols(rq), Holds(z, at)
          PROVE  z = <<b, e>>
      <3>1. PICK d, f : IsPlace(rq.src, Z, d, f) /\ z = <<d, f>>
        <4>1. IsSymbol(rq, Z, z)
          BY SymbolsAre
        <4>. QED
          BY <4>1 DEF IsSymbol
      <3>2. PICK l, x, k : IsOctet(rq, Al, Z, N, d, f, l, x, k)
                           /\ AtOfUnit(rq, Al, Tn, d, f, l, x, k) = at
        BY <1>3, <2>6, <3>1
      <3>3. b = d /\ e = f
        BY <2>1, <3>2, OneOctetAt
      <3>. QED
        BY <3>1, <3>3
    <2>. QED
      BY <2>4, <2>5, <2>6, Zenon
  <1>5. ASSUME NEW s \in Symbols(rq)
        PROVE  \E b, e : IsPlace(rq.src, Z, b, e) /\ s[1] = b /\ s[2] = e
    <2>1. IsSymbol(rq, Z, s)
      BY SymbolsAre
    <2>. QED
      BY <2>1 DEF IsSymbol
  <1>6. ASSUME NEW s \in Symbols(rq),
               NEW x \in Transfer(rq, s[1], s[2]), NEW y \in Transfer(rq, s[1], s[2])
        PROVE  /\ x.octet \in 0 .. rq.T - 1 /\ x.at \in 0 .. rq.F - 1
               /\ x.at = y.at <=> x.octet = y.octet
    <2>1. PICK b, e : IsPlace(rq.src, Z, b, e) /\ s[1] = b /\ s[2] = e
      BY <1>5
    <2>2. PICK j, a, c : /\ IsOctet(rq, Al, Z, N, b, e, j, a, c)
                         /\ x = MovedAs(rq, Al, Tn, b, e, j, a, c) /\ x.at < rq.F
      BY <1>1, <1>6, <2>1
    <2>3. PICK l, d, k : /\ IsOctet(rq, Al, Z, N, b, e, l, d, k)
                         /\ y = MovedAs(rq, Al, Tn, b, e, l, d, k)
      BY <1>1, <1>6, <2>1
    <2>4. /\ x.at = AtOfUnit(rq, Al, Tn, b, e, j, a, c) /\ x.octet = OctetOfUnit(rq, Al, j, a, c)
          /\ y.at = AtOfUnit(rq, Al, Tn, b, e, l, d, k) /\ y.octet = OctetOfUnit(rq, Al, l, d, k)
      BY <1>2, <2>2, <2>3
    <2>5. x.octet \in 0 .. rq.T - 1 /\ x.at \in Nat
      BY <2>2, <2>4, OctetNumbers, SMTT(30)
    <2>6. x.at \in 0 .. rq.F - 1
      BY <2>2, <2>5 DEF IsLayout
    <2>7. ASSUME x.at = y.at
          PROVE  x.octet = y.octet
      <3>1. j = l /\ a = d /\ c = k
        <4>1. AtOfUnit(rq, Al, Tn, b, e, j, a, c) = AtOfUnit(rq, Al, Tn, b, e, l, d, k)
          BY <2>4, <2>7
        <4>2. IsOctet(rq, Al, Z, N, b, e, j, a, c) /\ IsOctet(rq, Al, Z, N, b, e, l, d, k)
          BY <2>2, <2>3
        <4>. QED
          BY <4>1, <4>2, OneOctetAt
      <3>. QED
        BY <2>4, <3>1, Zenon
    <2>8. ASSUME x.octet = y.octet
          PROVE  x.at = y.at
      <3>1. j = l /\ a = d /\ c = k
        <4>1. OctetOfUnit(rq, Al, j, a, c) = OctetOfUnit(rq, Al, l, d, k)
          BY <2>4, <2>8
        <4>2. IsOctet(rq, Al, Z, N, b, e, j, a, c) /\ IsOctet(rq, Al, Z, N, b, e, l, d, k)
          BY <2>2, <2>3
        <4>. QED
          BY <4>1, <4>2, OneOctetOf
      <3>. QED
        BY <2>4, <3>1, Zenon
    <2>. QED
      BY <2>5, <2>6, <2>7, <2>8
  <1>. QED
    BY <1>4, <1>6, Zenon DEF CoversObject

\* What nanorq computes of the numbers it is given
LEMMA NanorqLayout ==
    ASSUME NEW F \in Nat \ {0}, NEW T \in Nat \ {0}, NEW Al \in Nat \ {0},
           NEW Z \in Nat \ {0}, NEW N \in Nat \ {0}, T % Al = 0, N <= T \div Al,
           N < 65536, NEW rq, rq = Nanorq(F, T, Al, Z, N)
    PROVE  IsLayout(rq, Al, DivCeil(F, T), Z, T \div Al, N)
  <1>1. PICK Tn \in Nat : Tn = T \div Al /\ T = Al * Tn
    <2>1. T \div Al \in Nat /\ T = Al * (T \div Al) + (T % Al)
      BY Quotient
    <2>. QED
      BY <2>1
  <1>2. PICK Kt \in Nat : Kt = DivCeil(F, T) /\ F <= T * Kt
    <2>1. DivCeil(F, T) \in Nat /\ F <= T * DivCeil(F, T)
      BY Covers
    <2>. QED
      BY <2>1
  <1>3. /\ rq.F = F /\ rq.T = T /\ rq.Al = Al
        /\ rq.src = Partition(Kt, Z) /\ rq.sub = Partition(Tn, N)
    <2>1. Uint16(N) = N
      BY DEF Uint16
    <2>. QED
      BY <1>1, <1>2, <2>1 DEF Nanorq
  <1>4. IsPartition(rq.src, Kt, Z) /\ IsPartition(rq.sub, Tn, N)
    BY <1>3, PartitionAddsUp
  <1>5. SizesFit(rq.sub, DivCeil(Tn, N))
    BY <1>1, <1>3, PartitionFits
  <1>6. rq.sub.IS \in Nat \ {0} /\ (rq.sub.JL > 0 => rq.sub.IL \in Nat \ {0})
    <2>1. DivCeil(Tn, N) \in Nat
      BY ONLY N \in Nat \ {0}, Tn \in Nat, Covers
    <2>. QED
      BY <1>5, <2>1 DEF SizesFit
  <1>7. rq.T \div rq.Al = Tn /\ rq.T = Al * Tn /\ rq.F \in Nat /\ rq.F <= rq.T * Kt
    BY <1>1, <1>2, <1>3
  <1>. QED
    BY <1>1, <1>2, <1>3, <1>4, <1>6, <1>7 DEF IsLayout

-----------------------------------------------------------------------------
\* Lists of a set of numbers, in their order.

LEMMA RankIs ==
    ASSUME NEW T, T \subseteq Nat, IsFiniteSet(T)
    PROVE  /\ Cardinality(T) \in Nat
           /\ \A n \in T : Rank(T, n) \in 1 .. Cardinality(T)
           /\ \A m, n \in T : m < n => Rank(T, m) < Rank(T, n)
  <1>. DEFINE UpTo(n) == {m \in T : m <= n}
  <1>1. Cardinality(T) \in Nat
    BY FS_CardinalityType
  <1>2. ASSUME NEW n \in T
        PROVE  /\ IsFiniteSet(UpTo(n)) /\ Cardinality(UpTo(n)) \in Nat
               /\ Cardinality(UpTo(n)) <= Cardinality(T)
               /\ Cardinality(UpTo(n)) # 0
    <2>1. UpTo(n) \in SUBSET T
      OBVIOUS
    <2>. HIDE DEF UpTo
    <2>2. IsFiniteSet(UpTo(n)) /\ Cardinality(UpTo(n)) <= Cardinality(T)
      BY <2>1, FS_Subset
    <2>3. n \in UpTo(n)
      BY DEF UpTo
    <2>. QED
      BY <2>2, <2>3, FS_CardinalityType, FS_EmptySet
  <1>3. ASSUME NEW m \in T, NEW n \in T, m < n
        PROVE  Cardinality(UpTo(m)) < Cardinality(UpTo(n))
    <2>1. UpTo(m) \in SUBSET UpTo(n) /\ n \notin UpTo(m) /\ n \in UpTo(n)
      <3>1. m \in Nat /\ n \in Nat /\ \A i \in T : i \in Nat
        OBVIOUS
      <3>2. \A i \in T : i <= m => i <= n
        BY <1>3, <3>1
      <3>3. ~(n <= m) /\ n <= n
        BY <1>3, <3>1
      <3>. QED
        BY <3>2, <3>3, Zenon
    <2>. HIDE DEF UpTo
    <2>2. /\ Cardinality(UpTo(m)) <= Cardinality(UpTo(n))
          /\ Cardinality(UpTo(n)) = Cardinality(UpTo(m)) => UpTo(n) = UpTo(m)
      BY <1>2, <2>1, FS_Subset
    <2>3. Cardinality(UpTo(m)) # Cardinality(UpTo(n))
      BY <2>1, <2>2
    <2>. QED
      BY <1>2, <2>2, <2>3
  <1>. QED
    BY <1>1, <1>2, <1>3 DEF Rank

\* Each number up to that of the elements is the rank of one.
LEMMA RankOnto ==
    ASSUME NEW T, T \subseteq Nat, IsFiniteSet(T), NEW k \in 1 .. Cardinality(T)
    PROVE  \E n \in T : Rank(T, n) = k
  <1>. DEFINE f == [n \in T |-> Rank(T, n)]
  <1>1. f \in [T -> 1 .. Cardinality(T)]
    BY RankIs
  <1>2. \A m, n \in T : f[m] = f[n] => m = n
    <2>1. ASSUME NEW m \in T, NEW n \in T, f[m] = f[n]
          PROVE  m = n
      <3>. DEFINE C == Cardinality(T)
      <3>0. /\ C \in Nat
            /\ \A i \in T : Rank(T, i) \in 1 .. C
            /\ \A i, j \in T : i < j => Rank(T, i) < Rank(T, j)
        BY RankIs
      <3>. HIDE DEF C
      <3>1. /\ Rank(T, m) = Rank(T, n) /\ m \in Nat /\ n \in Nat
            /\ Rank(T, m) \in Nat /\ Rank(T, n) \in Nat
        BY <2>1, <3>0
      <3>2. ~(m < n) /\ ~(n < m)
        BY <3>0, <3>1
      <3>. QED
        BY <3>1, <3>2
    <2>. QED
      BY <2>1
  <1>. HIDE DEF f
  <1>3. f \in Injection(T, 1 .. Cardinality(T))
    BY <1>1, <1>2 DEF Injection, IsInjective
  <1>4. Cardinality(T) \in Nat
    BY FS_CardinalityType
  <1>5. IsFiniteSet(1 .. Cardinality(T)) /\ Cardinality(1 .. Cardinality(T)) = Cardinality(T)
    BY <1>4, FS_Interval
  <1>6. f \in Surjection(T, 1 .. Cardinality(T))
    BY <1>3, <1>5, FS_Injection
  <1>7. \E n \in T : f[n] = k
    BY <1>6 DEF Surjection
  <1>. QED
    BY <1>7 DEF f

LEMMA ListIs ==
    ASSUME NEW T, NEW X, T \subseteq X, NEW seq, Lists(seq, T)
    PROVE  seq \in Seq(X) /\ IsInjective(seq)
  <1>1. seq \in Seq(T) /\ DOMAIN seq = 1 .. Len(seq) /\ Len(seq) \in Nat
    BY DEF Lists
  <1>2. \A n \in 1 .. Len(seq) : seq[n] \in X
    BY <1>1
  <1>3. seq \in Seq(X)
    <2>1. seq \in [1 .. Len(seq) -> X]
      BY <1>1, <1>2
    <2>. QED
      BY <1>1, <2>1
  <1>. QED
    BY <1>1, <1>3 DEF Lists, IsInjective

LEMMA SortedLists ==
    ASSUME NEW T, T \subseteq Nat, IsFiniteSet(T)
    PROVE  Lists(Sorted(T), T) /\ Len(Sorted(T)) = Cardinality(T)
  <1>. DEFINE s == Sorted(T)
  <1>1. Cardinality(T) \in Nat
    BY FS_CardinalityType
  <1>2. s = [k \in 1 .. Cardinality(T) |-> CHOOSE n \in T : Rank(T, n) = k]
    BY DEF Sorted, Rank
  <1>. HIDE DEF s
  <1>3. \A k \in 1 .. Cardinality(T) : s[k] \in T /\ Rank(T, s[k]) = k
    BY <1>2, RankOnto
  <1>4. s \in Seq(T) /\ Len(s) = Cardinality(T)
    <2>1. DOMAIN s = 1 .. Cardinality(T)
      BY <1>2
    <2>2. s = [k \in 1 .. Cardinality(T) |-> s[k]]
      BY <1>2
    <2>3. s \in [1 .. Cardinality(T) -> T]
      BY <1>3, <2>1, <2>2
    <2>. QED
      BY <1>1, <2>3
  <1>5. ASSUME NEW t \in T
        PROVE  \E k \in 1 .. Len(s) : s[k] = t
    <2>1. Rank(T, t) \in 1 .. Cardinality(T)
      BY RankIs
    <2>2. Rank(T, s[Rank(T, t)]) = Rank(T, t) /\ s[Rank(T, t)] \in T
      BY <1>3, <2>1
    <2>3. s[Rank(T, t)] = t
      <3>1. \A m, n \in T : m < n => Rank(T, m) < Rank(T, n)
        BY RankIs
      <3>2. s[Rank(T, t)] \in Nat /\ t \in Nat
        BY <2>2
      <3>3. Rank(T, t) \in Nat
        BY <1>1, <2>1
      <3>4. ~(s[Rank(T, t)] < t) /\ ~(t < s[Rank(T, t)])
        BY <2>2, <3>1, <3>2, <3>3
      <3>. QED
        BY <3>2, <3>4
    <2>. QED
      BY <1>4, <2>1, <2>3
  <1>6. \A k, l \in 1 .. Len(s) : s[k] = s[l] => k = l
    BY <1>3, <1>4
  <1>. QED
    BY <1>4, <1>5, <1>6 DEF Lists, s

LEMMA KeptHas ==
    ASSUME NEW X, NEW seq \in Seq(X), NEW set
    PROVE  Keeps(Kept(seq, set), seq, set, X)
  <1>. DEFINE T == {n \in 1 .. Len(seq) : seq[n] \in set}
              p == Sorted(T)
              q == Kept(seq, set)
  <1>1. T \subseteq Nat /\ IsFiniteSet(T)
    <2>1. T \in SUBSET (1 .. Len(seq)) /\ Len(seq) \in Nat
      OBVIOUS
    <2>. HIDE DEF T
    <2>2. IsFiniteSet(1 .. Len(seq))
      BY <2>1, FS_Interval
    <2>3. IsFiniteSet(T)
      BY <2>1, <2>2, FS_Subset
    <2>. QED
      BY <2>1, <2>3
  <1>2. Lists(p, T) /\ Len(p) = Cardinality(T)
    <2>. HIDE DEF T
    <2>. QED
      BY <1>1, SortedLists
  <1>3. q = [k \in DOMAIN p |-> seq[p[k]]]
    <2>1. {n \in DOMAIN seq : seq[n] \in set} = T
      OBVIOUS
    <2>. QED
      BY <2>1 DEF Kept
  <1>4. \A n : n \in T <=> n \in 1 .. Len(seq) /\ seq[n] \in set
    OBVIOUS
  <1>. HIDE DEF T, p, q
  <1>5. /\ p \in Seq(T) /\ Len(p) \in Nat /\ DOMAIN p = 1 .. Len(p)
        /\ \A k \in 1 .. Len(p) : p[k] \in T
        /\ \A t \in T : \E k \in 1 .. Len(p) : p[k] = t
        /\ \A k, l \in 1 .. Len(p) : p[k] = p[l] => k = l
    BY <1>2 DEF Lists
  <1>6. \A k \in 1 .. Len(p) : q[k] = seq[p[k]] /\ seq[p[k]] \in X
    BY <1>3, <1>4, <1>5
  <1>7. q \in Seq(X) /\ Len(q) = Len(p)
    <2>1. q \in [1 .. Len(p) -> X]
      BY <1>3, <1>5, <1>6
    <2>. QED
      BY <1>5, <2>1
  <1>8. \A k \in 1 .. Len(q) : q[k] \in set /\ \E n \in 1 .. Len(seq) : seq[n] = q[k]
    BY <1>4, <1>5, <1>6, <1>7
  <1>9. ASSUME NEW n \in 1 .. Len(seq), seq[n] \in set
        PROVE  \E k \in 1 .. Len(q) : q[k] = seq[n]
    <2>1. PICK k \in 1 .. Len(p) : p[k] = n
      BY <1>4, <1>5, <1>9
    <2>. QED
      BY <1>6, <1>7, <2>1
  <1>10. ASSUME IsInjective(seq), NEW k \in 1 .. Len(q), NEW l \in 1 .. Len(q), q[k] = q[l]
         PROVE  k = l
    <2>1. p[k] \in T /\ p[l] \in T /\ q[k] = seq[p[k]] /\ q[l] = seq[p[l]]
      BY <1>5, <1>6, <1>7
    <2>2. p[k] \in DOMAIN seq /\ p[l] \in DOMAIN seq
      BY <1>4, <2>1
    <2>3. p[k] = p[l]
      BY <1>10, <2>1, <2>2 DEF IsInjective
    <2>. QED
      BY <1>5, <1>7, <2>3
  <1>11. IsInjective(seq) => IsInjective(q)
    <2>1. DOMAIN q = 1 .. Len(q)
      BY <1>7
    <2>. QED
      BY <1>10, <2>1 DEF IsInjective
  <1>12. Keeps(q, seq, set, X)
    BY <1>7, <1>8, <1>9, <1>11 DEF Keeps
  <1>. QED
    BY <1>12 DEF q

-----------------------------------------------------------------------------
\* The walk of a tuple through the columns of a code.

\* Less than q steps of a do not come back to where they began, modulo a prime q.
LEMMA NoReturn ==
    ASSUME NEW q \in Nat, IsPrime(q), NEW a \in 1 .. q - 1, NEW k \in 1 .. q - 1
    PROVE  \A m \in Nat : a * k # q * m
  <1>. DEFINE Z == {j \in Nat : j > 0 /\ \E m \in Nat : a * j = q * m}
  <1>1. SUFFICES ASSUME k \in Z
                 PROVE  FALSE
    BY DEF Z
  <1>2. PICK j \in Z : \A n \in Z : j <= n
    <2>1. Z \subseteq Nat /\ Z # {}
      BY <1>1
    <2>. HIDE DEF Z
    <2>. QED
      BY <2>1, LeastElement
  <1>3. PICK m \in Nat : a * j = q * m
    OBVIOUS
  <1>4. j \in Nat /\ j > 0 /\ j <= k /\ j <= q - 1
    BY <1>1, <1>2
  <1>5. j # 1
    <2>1. SUFFICES ASSUME a = q * m
                   PROVE  FALSE
      BY <1>3
    <2>2. m # 0
      BY <2>1
    <2>3. PICK n \in Nat : m = n + 1
      <3>1. m - 1 \in Nat /\ m = (m - 1) + 1
        BY <2>2
      <3>. QED
        BY <3>1
    <2>4. q * m = q * n + q /\ q * n \in Nat
      BY <2>3
    <2>. QED
      BY <2>1, <2>4
  <1>6. q % j # 0
    <2>1. j \in 2 .. q - 1
      BY <1>4, <1>5
    <2>. QED
      BY <2>1 DEF IsPrime
  <1>7. PICK c \in Nat, r \in 0 .. j - 1 : r = q % j /\ q = j * c + r
    <2>1. j \in Nat \ {0} /\ q \in Nat
      BY <1>4
    <2>2. q \div j \in Nat /\ q % j \in 0 .. j - 1 /\ q = j * (q \div j) + (q % j)
      BY <2>1, Quotient
    <2>. QED
      BY <2>2
  <1>8. a * r = q * (a - m * c)
    <2>1. a * q = a * (j * c + r)
      BY <1>7
    <2>2. a * (j * c + r) = (a * j) * c + a * r
      BY <1>4, <1>7
    <2>3. (a * j) * c = q * (m * c)
      BY <1>3
    <2>4. q * (a - m * c) = a * q - q * (m * c)
      OBVIOUS
    <2>. QED
      BY <2>1, <2>2, <2>3, <2>4
  <1>9. a - m * c \in Nat
    <2>1. PICK e \in Int : e = a - m * c
      OBVIOUS
    <2>2. SUFFICES ASSUME e < 0
                   PROVE  FALSE
      BY <2>1
    <2>3. q * e = - (q * (-e)) /\ q * (-e) >= q
      <3>1. -e \in Nat \ {0}
        BY <2>2
      <3>2. PICK n \in Nat : -e = n + 1
        <4>1. (-e) - 1 \in Nat /\ -e = ((-e) - 1) + 1
          BY <3>1
        <4>. QED
          BY <4>1
      <3>3. q * (n + 1) = q * n + q /\ q * n \in Nat
        OBVIOUS
      <3>4. q * e = - (q * (-e))
        OBVIOUS
      <3>. QED
        BY <3>2, <3>3, <3>4
    <2>4. a * r >= 0
      <3>1. a \in Nat /\ r \in Nat
        BY <1>4, <1>7
      <3>2. a * r \in Nat
        BY <3>1
      <3>. QED
        BY <3>2
    <2>5. q >= 1
      BY <1>4
    <2>. QED
      BY <1>8, <2>1, <2>3, <2>4, <2>5
  <1>10. r \in Nat /\ r > 0 /\ r < j
    BY <1>4, <1>6, <1>7
  <1>11. r \in Z
    <2>1. \E n \in Nat : a * r = q * n
      BY <1>8, <1>9
    <2>. QED
      BY <1>10, <2>1
  <1>12. j <= r
    BY <1>2, <1>11
  <1>. QED
    BY <1>4, <1>10, <1>12

LEMMA Apart ==
    ASSUME NEW q \in Nat, IsPrime(q), NEW a \in 1 .. q - 1, NEW b \in Nat,
           NEW m \in Nat, NEW n \in Nat, m < n, n - m < q
    PROVE  (b + m * a) % q # (b + n * a) % q
  <1>1. SUFFICES ASSUME (b + m * a) % q = (b + n * a) % q
                 PROVE  FALSE
    OBVIOUS
  <1>2. q \in Nat \ {0} /\ a \in Nat
    BY DEF IsPrime
  <1>3. b + m * a \in Nat /\ b + n * a \in Nat
    BY <1>2
  <1>4. PICK c \in Nat, r \in 0 .. q - 1 : r = (b + m * a) % q /\ b + m * a = q * c + r
    BY <1>2, <1>3, Quotient, ZenonT(30)
  <1>5. PICK e \in Nat, s \in 0 .. q - 1 : s = (b + n * a) % q /\ b + n * a = q * e + s
    BY <1>2, <1>3, Quotient, ZenonT(30)
  <1>6. a * (n - m) = q * (e - c)
    <2>1. r = s
      BY <1>1, <1>4, <1>5
    <2>2. a * (n - m) = n * a - m * a /\ q * (e - c) = q * e - q * c
      BY <1>2
    <2>3. /\ n * a \in Int /\ m * a \in Int /\ q * e \in Int /\ q * c \in Int
          /\ r \in Int /\ s \in Int
      BY <1>2
    <2>. QED
      BY <1>4, <1>5, <2>1, <2>2, <2>3
  <1>7. n - m \in 1 .. q - 1
    OBVIOUS
  <1>8. e - c \in Nat
    <2>1. SUFFICES ASSUME e < c
                   PROVE  FALSE
      OBVIOUS
    <2>2. PICK d \in Nat : c = e + 1 + d
      <3>1. c - (e + 1) \in Nat /\ c = e + 1 + (c - (e + 1))
        BY <2>1
      <3>. QED
        BY <3>1
    <2>3. q * c = q * e + q + q * d /\ q * d \in Nat
      BY <1>2, <2>2
    <2>4. a * (n - m) >= 0
      <3>1. n - m \in Nat
        BY <1>7
      <3>2. a * (n - m) \in Nat
        BY <1>2, <3>1
      <3>. QED
        BY <3>2
    <2>5. q * (e - c) = q * e - q * c
      OBVIOUS
    <2>6. q * e \in Nat /\ q > 0
      BY <1>2
    <2>. QED
      BY <1>6, <2>3, <2>4, <2>5, <2>6
  <1>. QED
    BY <1>6, <1>7, <1>8, NoReturn

\* The walk of params_set_idxs: no residue of a prime comes twice.
LEMMA WalkApart ==
    ASSUME NEW q \in Nat, IsPrime(q), NEW a \in 1 .. q - 1, NEW b \in Nat,
           NEW len \in 0 .. q,
           NEW w, IsWalk(w, q, a, b, len)
    PROVE  w \in Seq(0 .. q - 1) /\ Len(w) = len /\ IsInjective(w)
  <1>1. q \in Nat \ {0} /\ a \in Nat
    BY DEF IsPrime
  <1>2. \A n \in 1 .. len : w[n] = (b + (n - 1) * a) % q /\ w[n] \in 0 .. q - 1
    <2>1. ASSUME NEW n \in 1 .. len
          PROVE  (b + (n - 1) * a) % q \in 0 .. q - 1
      <3>1. n - 1 \in Nat
        OBVIOUS
      <3>2. b + (n - 1) * a \in Nat
        BY <1>1, <3>1
      <3>. QED
        BY <1>1, <3>2, Quotient
    <2>. QED
      BY <2>1 DEF IsWalk
  <1>3. ASSUME NEW m \in 1 .. len, NEW n \in 1 .. len, m < n
        PROVE  w[m] # w[n]
    <2>1. m - 1 \in Nat /\ n - 1 \in Nat /\ m - 1 < n - 1 /\ (n - 1) - (m - 1) < q
      BY <1>3
    <2>2. (b + (m - 1) * a) % q # (b + (n - 1) * a) % q
      BY <2>1, Apart
    <2>. QED
      BY <1>2, <2>2
  <1>4. DOMAIN w = 1 .. len
    BY DEF IsWalk
  <1>5. IsInjective(w)
    <2>1. ASSUME NEW m \in 1 .. len, NEW n \in 1 .. len, w[m] = w[n]
          PROVE  m = n
      <3>1. ~(m < n) /\ ~(n < m)
        BY <1>3, <2>1
      <3>2. m \in Int /\ n \in Int
        OBVIOUS
      <3>. QED
        BY <3>1, <3>2
    <2>. QED
      BY <1>4, <2>1 DEF IsInjective
  <1>6. w \in Seq(0 .. q - 1) /\ Len(w) = len
    <2>1. w \in [1 .. len -> 0 .. q - 1]
      BY <1>2 DEF IsWalk
    <2>. QED
      BY <2>1
  <1>. QED
    BY <1>5, <1>6

LEMMA EntryOf ==
    ASSUME NEW X, NEW s \in Seq(X), NEW n \in DOMAIN s
    PROVE  s[n] \in X
  OBVIOUS

LEMMA FunctionIsSeq ==
    ASSUME NEW X, NEW n \in Nat, NEW f \in [1 .. n -> X]
    PROVE  f \in Seq(X) /\ Len(f) = n
  OBVIOUS

LEMMA MinIs ==
    ASSUME NEW Q, Q \subseteq Nat, Q # {}
    PROVE  Min(Q) \in Q /\ \A n \in Q : Min(Q) <= n
  BY LeastElement DEF Min

LEMMA MaxOfTwo ==
    ASSUME NEW m \in Int, NEW n \in Int
    PROVE  Max({m, n}) = IF m >= n THEN m ELSE n
  <1>1. \E x \in {m, n} : \A y \in {m, n} : x >= y
    <2>1. CASE m >= n
      BY <2>1
    <2>2. CASE ~(m >= n)
      BY <2>2
    <2>. QED
      BY <2>1, <2>2
  <1>2. Max({m, n}) \in {m, n} /\ \A y \in {m, n} : Max({m, n}) >= y
    BY <1>1 DEF Max
  <1>. QED
    BY <1>2

LEMMA MinOfTwo ==
    ASSUME NEW m \in Int, NEW n \in Int
    PROVE  Min({m, n}) = IF m <= n THEN m ELSE n
  <1>1. \E x \in {m, n} : \A y \in {m, n} : x <= y
    <2>1. CASE m <= n
      BY <2>1
    <2>2. CASE ~(m <= n)
      BY <2>2
    <2>. QED
      BY <2>1, <2>2
  <1>2. Min({m, n}) \in {m, n} /\ \A y \in {m, n} : Min({m, n}) <= y
    BY <1>1 DEF Min
  <1>. QED
    BY <1>2

LEMMA CodeIs ==
    ASSUME NEW k \in Nat, \E i \in DOMAIN Table2 : k <= Table2[i].Kprime
    PROVE  IsCode(ParamsInit(k)) /\ k <= ParamsInit(k).Kprime
  <1>. DEFINE Q == {i \in DOMAIN Table2 : k <= Table2[i].Kprime}
  <1>1. Q \subseteq Nat /\ Q # {}
    <2>1. DOMAIN Table2 = 1 .. Len(Table2) /\ Len(Table2) \in Nat
      BY Table2Assumption
    <2>. QED
      BY <2>1
  <1>2. PICK i \in DOMAIN Table2 : i = Min(Q) /\ k <= Table2[i].Kprime
    <2>1. \A i : i \in Q => i \in DOMAIN Table2 /\ k <= Table2[i].Kprime
      OBVIOUS
    <2>. HIDE DEF Q
    <2>2. Min(Q) \in Q
      BY <1>1, MinIs
    <2>. QED
      BY <2>1, <2>2
  <1>3. PICK row : row = Table2[i]
    OBVIOUS
  <1>4. row \in [Kprime : Nat, J : Nat, S : Nat, H : 2 .. 255, W : Nat]
    <2>1. Table2 \in Seq([Kprime : Nat, J : Nat, S : Nat, H : 2 .. 255, W : Nat])
      BY Table2Assumption, Zenon
    <2>. QED
      BY <1>3, <2>1, EntryOf
  <1>5. PICK last : last = row.Kprime + row.S + row.H - row.W
    OBVIOUS
  <1>6. /\ row.Kprime > 0 /\ IsPrime(row.W) /\ row.S \in 1 .. row.W
        /\ last >= 3 /\ last >= row.H /\ \E q \in last .. 2 * last : IsPrime(q)
    BY <1>3, <1>5, Table2Assumption
  <1>7. last \in Nat
    BY <1>4, <1>5, <1>6
  <1>. DEFINE LeastPrime(q) == IsPrime(q) /\ \A s \in last .. q - 1 : ~IsPrime(s)
              Primes == {q \in last .. 2 * last : IsPrime(q)}
  <1>8. \E q \in last .. 2 * last : LeastPrime(q)
    <2>1. Primes \subseteq Nat /\ Primes # {}
      BY <1>6, <1>7
    <2>2. \A q : q \in Primes <=> q \in last .. 2 * last /\ IsPrime(q)
      OBVIOUS
    <2>. HIDE DEF Primes
    <2>3. PICK q \in Primes : \A s \in Primes : q <= s
      BY <2>1, LeastElement
    <2>4. q \in last .. 2 * last /\ IsPrime(q)
      BY <2>2
    <2>5. ASSUME NEW s \in last .. q - 1
          PROVE  ~IsPrime(s)
      <3>1. s \in last .. 2 * last /\ ~(q <= s)
        BY <1>7, <2>4
      <3>. QED
        BY <2>2, <2>3, <3>1
    <2>. QED
      BY <2>4, <2>5
  <1>9. PICK P1 \in last .. 2 * last : IsPrime(P1) /\ P1 = CHOOSE q \in last .. 2 * last : LeastPrime(q)
    <2>. HIDE DEF LeastPrime
    <2>1. LeastPrime(CHOOSE q \in last .. 2 * last : LeastPrime(q)) /\ (CHOOSE q \in last .. 2 * last : LeastPrime(q)) \in last .. 2 * last
      BY <1>8
    <2>. QED
      BY <2>1 DEF LeastPrime
  <1>10. PICK p : p = ParamsInit(k)
    OBVIOUS
  <1>11. p = [Kprime |-> row.Kprime, J |-> row.J, S |-> row.S, H |-> row.H,
              W |-> row.W, L |-> row.Kprime + row.S + row.H, P |-> last, U |-> last - row.H,
              B |-> row.W - row.S, P1 |-> P1]
    <2>. DEFINE L == row.Kprime + row.S + row.H
    <2>1. p = [Kprime |-> row.Kprime, J |-> row.J, S |-> row.S, H |-> row.H,
               W |-> row.W, L |-> L, P |-> L - row.W, U |-> L - row.W - row.H,
               B |-> row.W - row.S,
               P1 |-> CHOOSE q \in L - row.W .. 2 * (L - row.W) :
                        IsPrime(q) /\ \A s \in L - row.W .. q - 1 : ~IsPrime(s)]
      BY <1>2, <1>3, <1>10, Zenon DEF ParamsInit
    <2>2. L - row.W = last
      BY <1>4, <1>5
    <2>. QED
      BY <1>9, <2>1, <2>2, Zenon
  <1>12. /\ p.Kprime = row.Kprime /\ p.S = row.S /\ p.H = row.H /\ p.W = row.W
         /\ p.L = row.Kprime + row.S + row.H /\ p.P = last /\ p.B = row.W - row.S
         /\ p.P1 = P1
    BY <1>11
  <1>13. P1 \in Nat /\ P1 >= last
    BY <1>7
  <1>. QED
    <2>1. IsCode(p)
      <3>1. /\ row.Kprime \in Nat /\ row.S \in Nat /\ row.H \in 2 .. 255 /\ row.W \in Nat
        BY <1>4
      <3>2. row.S <= row.W /\ row.S > 0
        BY <1>6, <3>1
      <3>3. /\ p.Kprime \in Nat /\ p.Kprime > 0 /\ p.S \in Nat /\ p.S > 0 /\ p.H \in 2 .. 255
            /\ p.W \in Nat /\ p.B \in Nat /\ p.W = p.B + p.S
        BY <1>6, <1>12, <3>1, <3>2
      <3>4. p.L \in Nat /\ p.L = p.Kprime + p.S + p.H /\ p.L = p.W + p.P
        BY <1>5, <1>7, <1>12, <3>1
      <3>5. p.P \in Nat /\ p.P1 \in Nat /\ p.P >= 3 /\ p.P >= p.H /\ p.P1 >= p.P
        BY <1>6, <1>7, <1>12, <1>13
      <3>6. IsPrime(p.W) /\ IsPrime(p.P1)
        BY <1>6, <1>9, <1>12
      <3>. QED
        BY <3>3, <3>4, <3>5, <3>6 DEF IsCode
    <2>2. k <= p.Kprime
      BY <1>2, <1>3, <1>12
    <2>. QED
      BY <1>10, <2>1, <2>2

LEMMA DegreeIs ==
    ASSUME NEW v \in Nat, NEW W \in Nat, W >= 2,
           \E i \in DOMAIN DegreeDist : v < DegreeDist[i]
    PROVE  Deg(v, W) \in 0 .. W - 2
  <1>. DEFINE Q == {i \in DOMAIN DegreeDist : v < DegreeDist[i]}
  <1>1. DOMAIN DegreeDist \subseteq Nat \ {0}
    BY SMT DEF DegreeDist
  <1>2. Q \subseteq Nat \ {0} /\ Q # {}
    BY <1>1
  <1>. HIDE DEF Q
  <1>3. Min(Q) \in Nat \ {0}
    <2>1. Q \subseteq Nat /\ Q # {}
      BY <1>2
    <2>2. Min(Q) \in Q
      BY <2>1, MinIs
    <2>. QED
      BY <1>2, <2>2
  <1>4. Deg(v, W) = IF Min(Q) - 1 < W - 2 THEN Min(Q) - 1 ELSE W - 2
    BY DEF Deg, Q
  <1>. QED
    BY <1>3, <1>4

LEMMA DegreeFound ==
    ASSUME NEW v \in Nat, v < 1048576
    PROVE  \E i \in DOMAIN DegreeDist : v < DegreeDist[i]
  <1>1. 31 \in DOMAIN DegreeDist /\ DegreeDist[31] = 1048576
    BY SMT DEF DegreeDist
  <1>. QED
    BY <1>1, SMT

\* A sequence of numbers below W, then one of numbers from W on
LEMMA Joined ==
    ASSUME NEW W \in Nat, NEW L \in Nat, W <= L,
           NEW s \in Seq(0 .. W - 1), IsInjective(s),
           NEW t \in Seq(W .. L - 1), IsInjective(t)
    PROVE  s \o t \in Seq(Upto(L)) /\ IsInjective(s \o t)
  <1>1. /\ Len(s) \in Nat /\ DOMAIN s = 1 .. Len(s)
        /\ Len(t) \in Nat /\ DOMAIN t = 1 .. Len(t)
        /\ Len(s \o t) = Len(s) + Len(t) /\ DOMAIN (s \o t) = 1 .. Len(s) + Len(t)
    <2>1. s \in Seq(Int) /\ t \in Seq(Int)
      OBVIOUS
    <2>. QED
      BY <2>1
  <1>2. \A n \in 1 .. Len(s) : s[n] \in 0 .. W - 1
    OBVIOUS
  <1>3. \A n \in 1 .. Len(t) : t[n] \in W .. L - 1
    OBVIOUS
  <1>4. \A n \in 1 .. Len(s) + Len(t) :
            (s \o t)[n] = IF n <= Len(s) THEN s[n] ELSE t[n - Len(s)]
    <2>1. s \in Seq(Int) /\ t \in Seq(Int)
      OBVIOUS
    <2>. QED
      BY <2>1
  <1>5. \A n \in 1 .. Len(s) + Len(t) : (s \o t)[n] \in Upto(L)
    <2>1. ASSUME NEW n \in 1 .. Len(s) + Len(t)
          PROVE  (s \o t)[n] \in Upto(L)
      <3>1. CASE n <= Len(s)
        BY <1>1, <1>2, <1>4, <3>1 DEF Upto
      <3>2. CASE ~(n <= Len(s))
        <4>1. n - Len(s) \in 1 .. Len(t)
          BY <1>1, <3>2
        <4>. QED
          BY <1>3, <1>4, <3>2, <4>1 DEF Upto
      <3>. QED
        BY <3>1, <3>2
    <2>. QED
      BY <2>1
  <1>6. s \o t \in Seq(Upto(L))
    <2>1. s \in Seq(Upto(L)) /\ t \in Seq(Upto(L))
      BY DEF Upto
    <2>. QED
      BY <2>1
  <1>7. ASSUME NEW m \in 1 .. Len(s) + Len(t), NEW n \in 1 .. Len(s) + Len(t),
               (s \o t)[m] = (s \o t)[n]
        PROVE  m = n
    <2>1. CASE m <= Len(s) /\ n <= Len(s)
      <3>1. m \in DOMAIN s /\ n \in DOMAIN s /\ s[m] = s[n]
        BY <1>1, <1>4, <1>7, <2>1
      <3>. QED
        BY <3>1 DEF IsInjective
    <2>2. CASE ~(m <= Len(s)) /\ ~(n <= Len(s))
      <3>1. m - Len(s) \in DOMAIN t /\ n - Len(s) \in DOMAIN t /\ t[m - Len(s)] = t[n - Len(s)]
        BY <1>1, <1>4, <1>7, <2>2
      <3>2. m - Len(s) = n - Len(s)
        BY <3>1 DEF IsInjective
      <3>. QED
        BY <1>1, <3>2
    <2>3. CASE m <= Len(s) /\ ~(n <= Len(s))
      <3>1. m \in 1 .. Len(s) /\ n - Len(s) \in 1 .. Len(t)
        BY <1>1, <2>3
      <3>2. s[m] \in 0 .. W - 1 /\ t[n - Len(s)] \in W .. L - 1 /\ s[m] = t[n - Len(s)]
        BY <1>2, <1>3, <1>4, <1>7, <2>3, <3>1
      <3>. QED
        BY <3>2
    <2>4. CASE ~(m <= Len(s)) /\ n <= Len(s)
      <3>1. n \in 1 .. Len(s) /\ m - Len(s) \in 1 .. Len(t)
        BY <1>1, <2>4
      <3>2. s[n] \in 0 .. W - 1 /\ t[m - Len(s)] \in W .. L - 1 /\ s[n] = t[m - Len(s)]
        BY <1>2, <1>3, <1>4, <1>7, <2>4, <3>1
      <3>. QED
        BY <3>2
    <2>. QED
      BY <2>1, <2>2, <2>3, <2>4
  <1>8. IsInjective(s \o t)
    BY <1>1, <1>7 DEF IsInjective
  <1>. QED
    BY <1>6, <1>8

LEMMA PrimeIs ==
    ASSUME NEW q \in Nat, IsPrime(q)
    PROVE  q >= 2
  BY DEF IsPrime

LEMMA TupleIs ==
    ASSUME NEW p, IsCode(p), NEW X, TupleInRange(X, p), NEW t, t = GenTuple(X, p)
    PROVE  /\ t.d \in 0 .. p.W - 2 /\ t.a \in 1 .. p.W - 1 /\ t.b \in 0 .. p.W - 1
           /\ t.d1 \in 2 .. 3 /\ t.a1 \in 1 .. p.P1 - 1 /\ t.b1 \in 0 .. p.P1 - 1
  <1>1. p.W \in Nat /\ p.W >= 2 /\ p.P1 \in Nat /\ p.P1 >= 2
    BY PrimeIs DEF IsCode
  <1>2. PICK y : y = Seed(X, p)
    OBVIOUS
  <1>3. /\ Rnd(y, 0, 1048576) \in Nat /\ Rnd(y, 0, 1048576) < 1048576
        /\ Rnd(y, 1, p.W - 1) \in 0 .. p.W - 2 /\ Rnd(y, 2, p.W) \in 0 .. p.W - 1
        /\ Rnd(X, 3, 2) \in 0 .. 1
        /\ Rnd(X, 4, p.P1 - 1) \in 0 .. p.P1 - 2 /\ Rnd(X, 5, p.P1) \in 0 .. p.P1 - 1
    BY <1>2, SMT DEF TupleInRange
  <1>4. PICK v \in Nat : v = Rnd(y, 0, 1048576) /\ v < 1048576
    BY <1>3, SMT
  <1>5. PICK d : d = Deg(v, p.W) /\ d \in 0 .. p.W - 2
    BY <1>1, <1>4, DegreeFound, DegreeIs, SMT
  <1>6. t = [d |-> d, a |-> 1 + Rnd(y, 1, p.W - 1), b |-> Rnd(y, 2, p.W),
             d1 |-> IF d < 4 THEN 2 + Rnd(X, 3, 2) ELSE 2,
             a1 |-> 1 + Rnd(X, 4, p.P1 - 1), b1 |-> Rnd(X, 5, p.P1)]
    BY <1>2, <1>4, <1>5, SMT DEF GenTuple
  <1>. QED
    BY <1>1, <1>3, <1>5, <1>6, SMT

\* The walk over the last columns finds the two or three that it needs.
LEMMA WalkSuffices ==
    ASSUME NEW q \in Nat, IsPrime(q), NEW a \in 1 .. q - 1, NEW b \in Nat,
           NEW last \in Nat, last >= 3, last <= q,
           NEW w, IsWalk(w, q, a, b, q),
           NEW kept, kept = Kept(w, 0 .. last - 1)
    PROVE  kept \in Seq(0 .. last - 1) /\ IsInjective(kept) /\ Len(kept) >= 3
  <1>1. w \in Seq(0 .. q - 1) /\ Len(w) = q /\ IsInjective(w)
    <2>1. q \in 0 .. q
      OBVIOUS
    <2>. QED
      BY <2>1, WalkApart
  <1>2. /\ w \in Injection(1 .. q, 0 .. q - 1) /\ DOMAIN w = 1 .. q
    <2>1. w \in [1 .. q -> 0 .. q - 1]
      BY <1>1
    <2>. QED
      BY <1>1, <2>1 DEF Injection
  <1>3. w \in Surjection(1 .. q, 0 .. q - 1)
    <2>1. IsFiniteSet(0 .. q - 1) /\ Cardinality(0 .. q - 1) = q
      <3>1. q - 1 \in Int /\ 0 \in Int /\ (0 > q - 1 => q = 0)
        OBVIOUS
      <3>. QED
        BY <3>1, FS_Interval, SMTT(30)
    <2>2. Cardinality(1 .. q) = q
      BY FS_Interval
    <2>. QED
      BY <1>2, <2>1, <2>2, FS_Injection
  <1>4. /\ kept \in Seq(0 .. q - 1)
        /\ \A k \in 1 .. Len(kept) : kept[k] \in 0 .. last - 1
        /\ \A n \in 1 .. Len(w) :
              w[n] \in 0 .. last - 1 => \E k \in 1 .. Len(kept) : kept[k] = w[n]
        /\ IsInjective(kept)
    <2>1. Keeps(kept, w, 0 .. last - 1, 0 .. q - 1)
      BY <1>1, KeptHas
    <2>. QED
      BY <1>1, <2>1 DEF Keeps
  <1>5. Len(kept) \in Nat /\ DOMAIN kept = 1 .. Len(kept)
    BY <1>4
  <1>6. ASSUME NEW r \in 0 .. last - 1
        PROVE  \E k \in 1 .. Len(kept) : kept[k] = r
    <2>1. r \in 0 .. q - 1
      OBVIOUS
    <2>2. PICK n \in 1 .. q : w[n] = r
      BY <1>3, <2>1 DEF Surjection
    <2>. QED
      BY <1>1, <1>4, <2>2
  <1>7. Len(kept) >= 3
    <2>1. 0 \in 0 .. last - 1 /\ 1 \in 0 .. last - 1 /\ 2 \in 0 .. last - 1
      OBVIOUS
    <2>2. PICK k \in 1 .. Len(kept) : kept[k] = 0
      BY <1>6, <2>1
    <2>3. PICK l \in 1 .. Len(kept) : kept[l] = 1
      BY <1>6, <2>1
    <2>4. PICK m \in 1 .. Len(kept) : kept[m] = 2
      BY <1>6, <2>1
    <2>5. k # l /\ k # m /\ l # m
      BY <2>2, <2>3, <2>4
    <2>. QED
      BY <1>5, <2>5
  <1>8. kept \in Seq(0 .. last - 1)
    <2>1. kept \in [1 .. Len(kept) -> 0 .. last - 1]
      BY <1>4, SMTT(30)
    <2>. QED
      BY <1>5, <2>1
  <1>. QED
    BY <1>4, <1>7, <1>8

\* No column comes twice in the row of an encoding symbol.
LEMMA IdxsIs ==
    ASSUME NEW p, IsCode(p), NEW X, TupleInRange(X, p)
    PROVE  IsRow(Idxs(X, p), p.L)
  <1>1. PICK t : t = GenTuple(X, p)
    OBVIOUS
  <1>2. /\ t.d \in 0 .. p.W - 2 /\ t.a \in 1 .. p.W - 1 /\ t.b \in 0 .. p.W - 1
        /\ t.d1 \in 2 .. 3 /\ t.a1 \in 1 .. p.P1 - 1 /\ t.b1 \in 0 .. p.P1 - 1
    BY <1>1, TupleIs
  <1>3. /\ p.W \in Nat /\ p.W >= 2 /\ p.P1 \in Nat /\ p.P \in Nat /\ p.L = p.W + p.P
        /\ IsPrime(p.W) /\ IsPrime(p.P1) /\ p.P >= 3 /\ p.P <= p.P1
    BY PrimeIs DEF IsCode
  <1>4. PICK d : d = Max({t.d, 1}) /\ d \in 0 .. p.W
    <2>1. t.d \in Int /\ 1 \in Int
      BY <1>2, <1>3
    <2>2. Max({t.d, 1}) = IF t.d >= 1 THEN t.d ELSE 1
      BY <2>1, MaxOfTwo
    <2>. QED
      BY <1>2, <1>3, <2>2
  <1>5. PICK s : s = [n \in 1 .. d |-> (t.b + (n - 1) * t.a) % p.W] /\ IsWalk(s, p.W, t.a, t.b, d)
    BY DEF IsWalk
  <1>6. s \in Seq(0 .. p.W - 1) /\ IsInjective(s)
    <2>1. t.b \in Nat
      BY <1>2
    <2>2. PICK W \in Nat, a \in Nat, b \in Nat : W = p.W /\ a = t.a /\ b = t.b
      BY <1>2, <1>3, <2>1
    <2>3. IsPrime(W) /\ a \in 1 .. W - 1 /\ d \in 0 .. W
      BY <1>2, <1>3, <1>4, <2>2
    <2>4. IsWalk(s, W, a, b, d)
      BY <1>5, <2>2
    <2>5. s \in Seq(0 .. W - 1) /\ IsInjective(s)
      BY <2>3, <2>4, WalkApart
    <2>. QED
      BY <2>2, <2>5
  <1>7. PICK w : /\ w = [n \in 1 .. p.P1 |-> (t.b1 + (n - 1) * t.a1) % p.P1]
                 /\ IsWalk(w, p.P1, t.a1, t.b1, p.P1)
    BY DEF IsWalk
  <1>8. PICK kept : kept = Kept(w, 0 .. p.P - 1)
    OBVIOUS
  <1>9. kept \in Seq(0 .. p.P - 1) /\ IsInjective(kept) /\ Len(kept) >= 3
    <2>1. t.b1 \in Nat
      BY <1>2
    <2>. QED
      BY <1>2, <1>3, <1>7, <1>8, <2>1, WalkSuffices
  <1>10. PICK u : u = [n \in 1 .. t.d1 |-> p.W + kept[n]]
    OBVIOUS
  <1>11. u \in Seq(p.W .. p.L - 1) /\ IsInjective(u)
    <2>1. \A n \in 1 .. t.d1 : n \in DOMAIN kept /\ kept[n] \in 0 .. p.P - 1
      <3>1. Len(kept) \in Nat /\ DOMAIN kept = 1 .. Len(kept)
        BY <1>9
      <3>2. \A n \in 1 .. t.d1 : n \in DOMAIN kept
        BY <1>2, <1>9, <3>1
      <3>. QED
        BY <1>9, <3>2, EntryOf
    <2>2. \A n \in 1 .. t.d1 : u[n] = p.W + kept[n] /\ u[n] \in p.W .. p.L - 1
      BY <1>3, <1>10, <2>1
    <2>3. DOMAIN u = 1 .. t.d1
      BY <1>10
    <2>4. u \in Seq(p.W .. p.L - 1)
      <3>1. u \in [1 .. t.d1 -> p.W .. p.L - 1]
        BY <1>10, <2>2
      <3>2. t.d1 \in Nat
        BY <1>2
      <3>. QED
        BY <3>1, <3>2, FunctionIsSeq
    <2>5. ASSUME NEW m \in 1 .. t.d1, NEW n \in 1 .. t.d1, u[m] = u[n]
          PROVE  m = n
      <3>1. kept[m] = kept[n]
        BY <1>3, <2>1, <2>2, <2>5
      <3>. QED
        BY <1>9, <2>1, <3>1 DEF IsInjective
    <2>6. IsInjective(u)
      BY <2>3, <2>5 DEF IsInjective
    <2>. QED
      BY <2>4, <2>6
  <1>12. Idxs(X, p) = s \o u
    BY <1>1, <1>4, <1>5, <1>7, <1>8, <1>10 DEF Idxs
  <1>13. s \o u \in Seq(Upto(p.L)) /\ IsInjective(s \o u)
    <2>1. p.L \in Nat /\ p.W <= p.L
      BY <1>3
    <2>. QED
      BY <1>3, <1>6, <1>11, <2>1, Joined
  <1>. QED
    BY <1>12, <1>13 DEF IsRow

LEMMA LdpcIs ==
    ASSUME NEW p, IsCode(p), NEW r \in Upto(p.S)
    PROVE  IsRow(Ldpc(p, r), p.L)
  <1>1. /\ p.W \in Nat /\ p.B \in Nat /\ p.S \in Nat /\ p.W = p.B + p.S
        /\ p.P \in Nat /\ p.P >= 3 /\ p.L = p.W + p.P
    BY DEF IsCode
  <1>2. r \in Nat /\ r < p.S
    BY <1>1 DEF Upto
  <1>3. PICK T : T = {col \in Upto(p.B) :
                      \E n \in 0 .. 2 : r = (col + n * (col \div p.S + 1)) % p.S}
    OBVIOUS
  <1>4. PICK s : s = Sorted(T)
    OBVIOUS
  <1>5. s \in Seq(0 .. p.B - 1) /\ IsInjective(s)
    <2>1. T \in SUBSET (0 .. p.B - 1)
      BY <1>3 DEF Upto
    <2>2. IsFiniteSet(T)
      <3>1. IsFiniteSet(0 .. p.B - 1)
        <4>1. 0 \in Int /\ p.B - 1 \in Int
          BY <1>1
        <4>. QED
          BY <4>1, FS_Interval
      <3>. QED
        BY <2>1, <3>1, FS_Subset
    <2>3. T \subseteq Nat
      BY <1>1, <2>1
    <2>4. Lists(s, T)
      BY <1>4, <2>2, <2>3, SortedLists
    <2>. QED
      BY <2>1, <2>4, ListIs
  <1>6. PICK m \in 0 .. p.P - 1, n \in 0 .. p.P - 1 :
            m = r % p.P /\ n = (r + 1) % p.P /\ m # n
    <2>1. p.P \in Nat \ {0} /\ r + 1 \in Nat
      BY <1>1, <1>2
    <2>2. PICK c \in Nat, m \in 0 .. p.P - 1 : m = r % p.P /\ r = p.P * c + m
      BY <1>2, <2>1, Quotient
    <2>3. PICK e \in Nat, n \in 0 .. p.P - 1 : n = (r + 1) % p.P /\ r + 1 = p.P * e + n
      BY <2>1, Quotient
    <2>4. m # n
      <3>1. SUFFICES ASSUME m = n
                     PROVE  FALSE
        OBVIOUS
      <3>2. p.P * e = p.P * c + 1 /\ p.P * c \in Nat /\ p.P * e \in Nat
        <4>1. PICK x \in Nat, y \in Nat : x = p.P * c /\ y = p.P * e
          BY <2>1
        <4>. QED
          BY <2>2, <2>3, <3>1, <4>1
      <3>3. CASE e <= c
        <4>1. PICK x \in Nat : c = e + x
          <5>1. c - e \in Nat /\ c = e + (c - e)
            BY <3>3
          <5>. QED
            BY <5>1
        <4>2. p.P * c = p.P * e + p.P * x /\ p.P * x \in Nat
          BY <1>1, <4>1
        <4>. QED
          BY <3>2, <4>2
      <3>4. CASE ~(e <= c)
        <4>1. PICK x \in Nat : e = c + 1 + x
          <5>1. e - (c + 1) \in Nat /\ e = c + 1 + (e - (c + 1))
            BY <3>4
          <5>. QED
            BY <5>1
        <4>2. p.P * e = p.P * c + p.P + p.P * x /\ p.P * x \in Nat
          BY <1>1, <4>1
        <4>. QED
          BY <1>1, <3>2, <4>2
      <3>. QED
        BY <3>3, <3>4
    <2>. QED
      BY <2>2, <2>3, <2>4
  <1>7. PICK t : t = <<p.B + r, p.W + m, p.W + n>>
    OBVIOUS
  <1>8. t \in Seq(p.B .. p.L - 1) /\ IsInjective(t)
    <2>1. /\ Len(t) = 3 /\ DOMAIN t = 1 .. 3
          /\ t[1] = p.B + r /\ t[2] = p.W + m /\ t[3] = p.W + n
      BY <1>7
    <2>2. /\ p.B + r \in p.B .. p.L - 1 /\ p.W + m \in p.B .. p.L - 1
          /\ p.W + n \in p.B .. p.L - 1
          /\ p.B + r # p.W + m /\ p.B + r # p.W + n /\ p.W + m # p.W + n
      BY <1>1, <1>2, <1>6
    <2>3. IsInjective(t)
      <3>1. ASSUME NEW k \in 1 .. 3, NEW l \in 1 .. 3, t[k] = t[l]
            PROVE  k = l
        <4>1. (k = 1 \/ k = 2 \/ k = 3) /\ (l = 1 \/ l = 2 \/ l = 3)
          OBVIOUS
        <4>. QED
          BY <2>1, <2>2, <3>1, <4>1
      <3>. QED
        BY <2>1, <3>1 DEF IsInjective
    <2>4. t \in Seq(p.B .. p.L - 1)
      BY <1>7, <2>2
    <2>. QED
      BY <2>3, <2>4
  <1>9. Ldpc(p, r) = s \o t
    BY <1>3, <1>4, <1>6, <1>7 DEF Ldpc
  <1>10. s \o t \in Seq(Upto(p.L)) /\ IsInjective(s \o t)
    <2>1. p.L \in Nat /\ p.B <= p.L
      BY <1>1
    <2>. QED
      BY <1>1, <1>5, <1>8, <2>1, Joined
  <1>. QED
    BY <1>9, <1>10 DEF IsRow

-----------------------------------------------------------------------------
\* Octets.

LEMMA NibblesIs ==
    ASSUME NEW a \in Nibble, NEW b \in Nibble
    PROVE  /\ XorOfNibbles[a][b] \in Nibble
           /\ XorOfNibbles[a][b] = ((a + b) % 2) + 2 * ((a \div 2 + b \div 2) % 2)
                                   + 4 * ((a \div 4 + b \div 4) % 2)
                                   + 8 * ((a \div 8 + b \div 8) % 2)
  <1>. DEFINE bit(k) == ((a \div k + b \div k) % 2) * k
  <1>1. XorOfNibbles[a][b] = bit(1) + bit(2) + bit(4) + bit(8)
    BY DEF XorOfNibbles, Nibble
  <1>2. a \in Nat /\ b \in Nat /\ a \div 1 = a /\ b \div 1 = b
    BY DEF Nibble
  <1>3. /\ bit(1) = ((a + b) % 2)
        /\ bit(2) = 2 * ((a \div 2 + b \div 2) % 2)
        /\ bit(4) = 4 * ((a \div 4 + b \div 4) % 2)
        /\ bit(8) = 8 * ((a \div 8 + b \div 8) % 2)
    BY <1>2
  <1>4. /\ (a + b) % 2 \in 0 .. 1 /\ (a \div 2 + b \div 2) % 2 \in 0 .. 1
        /\ (a \div 4 + b \div 4) % 2 \in 0 .. 1 /\ (a \div 8 + b \div 8) % 2 \in 0 .. 1
    BY <1>2
  <1>. HIDE DEF bit
  <1>. QED
    BY <1>1, <1>3, <1>4 DEF Nibble

LEMMA NibblesOf ==
    ASSUME NEW o \in Octet
    PROVE  /\ o \div 16 \in Nibble /\ o % 16 \in Nibble
           /\ o = 16 * (o \div 16) + (o % 16)
  BY DEF Octet, Nibble

LEMMA XorIs ==
    ASSUME NEW a \in Octet, NEW b \in Octet
    PROVE  /\ Xor[a][b] = 16 * XorOfNibbles[a \div 16][b \div 16] + XorOfNibbles[a % 16][b % 16]
           /\ Xor[a][b] \in Octet
  <1>1. Xor[a][b] = 16 * XorOfNibbles[a \div 16][b \div 16] + XorOfNibbles[a % 16][b % 16]
    BY DEF Xor
  <1>2. /\ XorOfNibbles[a \div 16][b \div 16] \in Nibble
        /\ XorOfNibbles[a % 16][b % 16] \in Nibble
    BY NibblesOf, NibblesIs
  <1>. QED
    BY <1>1, <1>2 DEF Nibble, Octet

LEMMA TwiceIs ==
    ASSUME NEW o \in Octet
    PROVE  Twice[o] = Doubled(o) /\ Doubled(o) \in Octet
  <1>1. CASE o < 128
    <2>1. Twice[o] = 2 * o
      <3>1. ~(o >= 128)
        BY <1>1 DEF Octet
      <3>. QED
        BY <3>1 DEF Twice
    <2>. QED
      BY <1>1, <2>1 DEF Doubled, Octet
  <1>2. CASE ~(o < 128)
    <2>1. PICK m \in Octet : m = 2 * o - 256
      BY <1>2 DEF Octet
    <2>2. PICK a \in Nibble, b \in Nibble : a = m \div 16 /\ b = m % 16
      BY NibblesOf
    <2>3. 29 \in Octet /\ Reduction = 29 /\ 29 \div 16 = 1 /\ 29 % 16 = 13
      BY DEF Octet, Reduction
    <2>4. Twice[o] = Xor[29][m]
      BY <1>2, <2>1, <2>3 DEF Twice, Octet
    <2>5. Xor[29][m] = 16 * XorOfNibbles[1][a] + XorOfNibbles[13][b] /\ Xor[29][m] \in Octet
      BY <2>2, <2>3, XorIs
    <2>6. XorOfNibbles[1][a] = a + 1 - 2 * (a % 2)
      <3>1. 1 \in Nibble /\ 1 \div 2 = 0 /\ 1 \div 4 = 0 /\ 1 \div 8 = 0
        BY DEF Nibble
      <3>2. XorOfNibbles[1][a] = ((1 + a) % 2) + 2 * ((0 + a \div 2) % 2)
                                   + 4 * ((0 + a \div 4) % 2)
                                   + 8 * ((0 + a \div 8) % 2)
        BY <3>1, NibblesIs
      <3>. QED
        BY <3>2 DEF Nibble
    <2>7. XorOfNibbles[13][b] = b + 13 - 2 * (b % 2) - 8 * ((b \div 4) % 2) - 16 * ((b \div 8) % 2)
      <3>1. 13 \in Nibble /\ 13 \div 2 = 6 /\ 13 \div 4 = 3 /\ 13 \div 8 = 1
        BY DEF Nibble
      <3>2. XorOfNibbles[13][b] = ((13 + b) % 2) + 2 * ((6 + b \div 2) % 2)
                                   + 4 * ((3 + b \div 4) % 2)
                                   + 8 * ((1 + b \div 8) % 2)
        BY <3>1, NibblesIs
      <3>. QED
        BY <3>2 DEF Nibble
    <2>8. /\ a % 2 = (o \div 8) % 2 /\ (b \div 4) % 2 = (o \div 2) % 2
          /\ (b \div 8) % 2 = (o \div 4) % 2 /\ b % 2 = 0 /\ m = 16 * a + b
      BY <1>2, <2>1, <2>2 DEF Octet, Nibble
    <2>9. Twice[o] = Doubled(o)
      BY <1>2, <2>1, <2>2, <2>4, <2>5, <2>6, <2>7, <2>8 DEF Octet, Nibble, Doubled
    <2>. QED
      BY <2>4, <2>5, <2>9
  <1>. QED
    BY <1>1, <1>2

LEMMA SetInduction ==
    ASSUME NEW Q, Q \subseteq Nat, 0 \in Q, \A n \in Q : n + 1 \in Q
    PROVE  Q = Nat
  <1>1. SUFFICES ASSUME Nat \ Q # {}
                 PROVE  FALSE
    OBVIOUS
  <1>2. PICK n \in Nat \ Q : \A m \in Nat \ Q : n <= m
    <2>. DEFINE T == Nat \ Q
    <2>1. T \subseteq Nat /\ T # {}
      BY <1>1
    <2>. HIDE DEF T
    <2>2. \E n \in T : \A m \in T : n <= m
      BY <2>1, LeastElement
    <2>. QED
      BY <2>2 DEF T
  <1>3. n # 0
    OBVIOUS
  <1>4. n - 1 \in Q
    BY <1>2, <1>3
  <1>5. (n - 1) + 1 \in Q
    BY <1>4
  <1>. QED
    BY <1>2, <1>5

LEMMA Recursion ==
    ASSUME NEW X, NEW F \in [X \X Nat -> X], NEW x \in X, NEW n \in Nat
    PROVE  \E g \in [0 .. n -> X] : Follows(g, F, x, n)
  <1>. DEFINE Q == {k \in Nat : \E g \in [0 .. k -> X] : Follows(g, F, x, k)}
  <1>1. 0 \in Q
    <2>1. PICK g : g = [i \in 0 .. 0 |-> x]
      OBVIOUS
    <2>2. g \in [0 .. 0 -> X] /\ g[0] = x
      BY <2>1
    <2>3. Follows(g, F, x, 0)
      BY <2>2 DEF Follows
    <2>. QED
      BY <2>2, <2>3
  <1>2. ASSUME NEW k \in Q
        PROVE  k + 1 \in Q
    <2>1. PICK g \in [0 .. k -> X] : Follows(g, F, x, k)
      OBVIOUS
    <2>2. k \in Nat /\ g[k] \in X
      OBVIOUS
    <2>3. PICK y \in X : y = F[<<g[k], k + 1>>]
      BY <2>2
    <2>4. PICK h : h = [i \in 0 .. k + 1 |-> IF i <= k THEN g[i] ELSE y]
      OBVIOUS
    <2>5. h \in [0 .. k + 1 -> X]
      BY <2>2, <2>4
    <2>6. h[0] = x
      BY <2>1, <2>2, <2>4 DEF Follows
    <2>7. ASSUME NEW i \in 1 .. k + 1
          PROVE  h[i] = F[<<h[i - 1], i>>]
      <3>1. CASE i <= k
        BY <2>1, <2>2, <2>4, <3>1 DEF Follows
      <3>2. CASE ~(i <= k)
        <4>1. i = k + 1 /\ h[i] = y /\ h[i - 1] = g[k]
          BY <2>2, <2>4, <3>2
        <4>. QED
          BY <2>3, <4>1
      <3>. QED
        BY <3>1, <3>2
    <2>8. Follows(h, F, x, k + 1)
      BY <2>6, <2>7 DEF Follows
    <2>. QED
      BY <2>2, <2>5, <2>8
  <1>3. Q = Nat
    <2>1. Q \subseteq Nat /\ 0 \in Q /\ \A k \in Q : k + 1 \in Q
      BY <1>1, <1>2
    <2>. HIDE DEF Q
    <2>. QED
      BY <2>1, SetInduction
  <1>4. n \in Q
    BY <1>3, Zenon
  <1>. QED
    BY <1>4

LEMMA PowerIs ==
    /\ Power \in [0 .. 254 -> Octet] /\ Power[0] = 1
    /\ \A i \in 1 .. 254 : Power[i] = Twice[Power[i - 1]]
  <1>. DEFINE F == [z \in Octet \X Nat |-> Twice[z[1]]]
              IsPower(g) == g = [i \in 0 .. 254 |-> IF i = 0 THEN 1 ELSE Twice[g[i - 1]]]
  <1>1. F \in [Octet \X Nat -> Octet] /\ 1 \in Octet
    <2>1. \A z \in Octet \X Nat : Twice[z[1]] \in Octet
      BY TwiceIs
    <2>. QED
      BY <2>1 DEF Octet
  <1>2. PICK g \in [0 .. 254 -> Octet] : Follows(g, F, 1, 254)
    <2>1. PICK X, x, n : X = Octet /\ x = 1 /\ n = 254
      OBVIOUS
    <2>. HIDE DEF F
    <2>2. F \in [X \X Nat -> X] /\ x \in X /\ n \in Nat
      BY <1>1, <2>1
    <2>3. \E g \in [0 .. n -> X] : Follows(g, F, x, n)
      BY <2>2, Recursion, Zenon
    <2>. QED
      BY <2>1, <2>3
  <1>3. g[0] = 1 /\ \A i \in 1 .. 254 : g[i] = Twice[g[i - 1]]
    <2>1. g[0] = 1 /\ \A i \in 1 .. 254 : g[i] = F[<<g[i - 1], i>>]
      BY <1>2, Zenon DEF Follows
    <2>2. ASSUME NEW i \in 1 .. 254
          PROVE  g[i] = Twice[g[i - 1]]
      <3>1. i - 1 \in 0 .. 254 /\ i \in Nat
        OBVIOUS
      <3>2. <<g[i - 1], i>> \in Octet \X Nat
        BY <1>2, <3>1
      <3>3. F[<<g[i - 1], i>>] = Twice[<<g[i - 1], i>>[1]]
        BY <3>2, SMTT(30)
      <3>. QED
        BY <2>1, <3>3, Zenon
    <2>. QED
      BY <2>1, <2>2, Zenon
  <1>4. IsPower(g)
    <2>1. \A i \in 0 .. 254 : g[i] = IF i = 0 THEN 1 ELSE Twice[g[i - 1]]
      BY <1>3, SMTT(30)
    <2>. QED
      BY <2>1, Zenon
  <1>5. Power = CHOOSE h : IsPower(h)
    BY DEF Power
  <1>6. IsPower(Power)
    <2>. HIDE DEF IsPower
    <2>. QED
      BY <1>4, <1>5, Zenon
  <1>7. DOMAIN Power = 0 .. 254 /\ Power[0] = 1 /\ \A i \in 1 .. 254 : Power[i] = Twice[Power[i - 1]]
    <2>1. DOMAIN Power = 0 .. 254
      BY <1>6, Zenon
    <2>2. \A i \in 0 .. 254 : Power[i] = IF i = 0 THEN 1 ELSE Twice[Power[i - 1]]
      BY <1>6, Zenon
    <2>3. 0 \in 0 .. 254 /\ \A i \in 1 .. 254 : i \in 0 .. 254 /\ i # 0
      OBVIOUS
    <2>. QED
      BY <2>1, <2>2, <2>3, ZenonT(30)
  <1>8. \A i \in 0 .. 254 : Power[i] \in Octet
    <2>. DEFINE Q == {i \in Nat : i <= 254 => Power[i] \in Octet}
    <2>1. 0 \in Q
      <3>1. Power[0] \in Octet
        BY <1>1, <1>7
      <3>. QED
        BY <3>1
    <2>2. ASSUME NEW i \in Q
          PROVE  i + 1 \in Q
      <3>1. CASE i + 1 <= 254
        <4>1. Power[i] \in Octet /\ Power[i + 1] = Twice[Power[(i + 1) - 1]] /\ (i + 1) - 1 = i
          BY <1>7, <3>1
        <4>. QED
          <5>1. Twice[Power[i]] \in Octet
            BY <4>1, TwiceIs
          <5>. QED
            BY <4>1, <5>1
      <3>. QED
        BY <3>1
    <2>3. Q = Nat
      <3>1. Q \subseteq Nat
        OBVIOUS
      <3>. HIDE DEF Q
      <3>. QED
        BY <2>1, <2>2, <3>1, SetInduction
    <2>. QED
      BY <2>3
  <1>9. Power \in [0 .. 254 -> Octet]
    <2>1. Power = [i \in 0 .. 254 |-> Power[i]]
      BY <1>6
    <2>. QED
      BY <1>8, <2>1
  <1>. QED
    BY <1>7, <1>9, Zenon

LEMMA Doubling ==
    ASSUME NEW i, NEW o, Goes(i, o), i < 254
    PROVE  Goes(i + 1, Doubled(o))
  <1>1. i \in 0 .. 254 /\ o \in Octet /\ Power[i] = o
    BY DEF Goes
  <1>2. i + 1 \in 1 .. 254 /\ (i + 1) - 1 = i
    BY <1>1
  <1>3. Power[i + 1] = Twice[Power[(i + 1) - 1]]
    BY <1>2, PowerIs, Zenon
  <1>4. Power[i + 1] = Doubled(o) /\ Doubled(o) \in Octet
    BY <1>1, <1>2, <1>3, TwiceIs
  <1>. QED
    BY <1>2, <1>4 DEF Goes

\* Each octet but 0 is a power of 2: they are gone through one after the other.
LEMMA EveryOctetIsPower ==
    /\ \A o \in 1 .. 255 : \E i : Goes(i, o)
    /\ Goes(0, 1) /\ Goes(1, 2) /\ Goes(2, 4) /\ Goes(3, 8) /\ Goes(4, 16) /\ Goes(5, 32)
    /\ Goes(6, 64) /\ Goes(7, 128) /\ Goes(254, 142)
  <1>1. Goes(0, 1)
    <2>1. 1 \in Octet /\ 0 \in 0 .. 254
      BY DEF Octet
    <2>2. Power[0] = 1
      BY PowerIs
    <2>. QED
      BY <2>1, <2>2 DEF Goes
  <1>2. /\ Goes(1, 2) /\ Goes(2, 4) /\ Goes(3, 8) /\ Goes(4, 16) /\ Goes(5, 32)
        /\ Goes(6, 64) /\ Goes(7, 128) /\ Goes(8, 29) /\ Goes(9, 58) /\ Goes(10, 116)
    BY <1>1, Doubling DEF Doubled
  <1>3. /\ Goes(11, 232) /\ Goes(12, 205) /\ Goes(13, 135) /\ Goes(14, 19) /\ Goes(15, 38)
        /\ Goes(16, 76) /\ Goes(17, 152) /\ Goes(18, 45) /\ Goes(19, 90) /\ Goes(20, 180)
    BY <1>2, Doubling DEF Doubled
  <1>4. /\ Goes(21, 117) /\ Goes(22, 234) /\ Goes(23, 201) /\ Goes(24, 143) /\ Goes(25, 3)
        /\ Goes(26, 6) /\ Goes(27, 12) /\ Goes(28, 24) /\ Goes(29, 48) /\ Goes(30, 96)
    BY <1>3, Doubling DEF Doubled
  <1>5. /\ Goes(31, 192) /\ Goes(32, 157) /\ Goes(33, 39) /\ Goes(34, 78) /\ Goes(35, 156)
        /\ Goes(36, 37) /\ Goes(37, 74) /\ Goes(38, 148) /\ Goes(39, 53) /\ Goes(40, 106)
    BY <1>4, Doubling DEF Doubled
  <1>6. /\ Goes(41, 212) /\ Goes(42, 181) /\ Goes(43, 119) /\ Goes(44, 238) /\ Goes(45, 193)
        /\ Goes(46, 159) /\ Goes(47, 35) /\ Goes(48, 70) /\ Goes(49, 140) /\ Goes(50, 5)
    BY <1>5, Doubling DEF Doubled
  <1>7. /\ Goes(51, 10) /\ Goes(52, 20) /\ Goes(53, 40) /\ Goes(54, 80) /\ Goes(55, 160)
        /\ Goes(56, 93) /\ Goes(57, 186) /\ Goes(58, 105) /\ Goes(59, 210) /\ Goes(60, 185)
    BY <1>6, Doubling DEF Doubled
  <1>8. /\ Goes(61, 111) /\ Goes(62, 222) /\ Goes(63, 161) /\ Goes(64, 95) /\ Goes(65, 190)
        /\ Goes(66, 97) /\ Goes(67, 194) /\ Goes(68, 153) /\ Goes(69, 47) /\ Goes(70, 94)
    BY <1>7, Doubling DEF Doubled
  <1>9. /\ Goes(71, 188) /\ Goes(72, 101) /\ Goes(73, 202) /\ Goes(74, 137) /\ Goes(75, 15)
        /\ Goes(76, 30) /\ Goes(77, 60) /\ Goes(78, 120) /\ Goes(79, 240) /\ Goes(80, 253)
    BY <1>8, Doubling DEF Doubled
  <1>10. /\ Goes(81, 231) /\ Goes(82, 211) /\ Goes(83, 187) /\ Goes(84, 107) /\ Goes(85, 214)
        /\ Goes(86, 177) /\ Goes(87, 127) /\ Goes(88, 254) /\ Goes(89, 225) /\ Goes(90, 223)
    BY <1>9, Doubling DEF Doubled
  <1>11. /\ Goes(91, 163) /\ Goes(92, 91) /\ Goes(93, 182) /\ Goes(94, 113) /\ Goes(95, 226)
        /\ Goes(96, 217) /\ Goes(97, 175) /\ Goes(98, 67) /\ Goes(99, 134) /\ Goes(100, 17)
    BY <1>10, Doubling DEF Doubled
  <1>12. /\ Goes(101, 34) /\ Goes(102, 68) /\ Goes(103, 136) /\ Goes(104, 13) /\ Goes(105, 26)
        /\ Goes(106, 52) /\ Goes(107, 104) /\ Goes(108, 208) /\ Goes(109, 189) /\ Goes(110, 103)
    BY <1>11, Doubling DEF Doubled
  <1>13. /\ Goes(111, 206) /\ Goes(112, 129) /\ Goes(113, 31) /\ Goes(114, 62) /\ Goes(115, 124)
        /\ Goes(116, 248) /\ Goes(117, 237) /\ Goes(118, 199) /\ Goes(119, 147) /\ Goes(120, 59)
    BY <1>12, Doubling DEF Doubled
  <1>14. /\ Goes(121, 118) /\ Goes(122, 236) /\ Goes(123, 197) /\ Goes(124, 151) /\ Goes(125, 51)
        /\ Goes(126, 102) /\ Goes(127, 204) /\ Goes(128, 133) /\ Goes(129, 23) /\ Goes(130, 46)
    BY <1>13, Doubling DEF Doubled
  <1>15. /\ Goes(131, 92) /\ Goes(132, 184) /\ Goes(133, 109) /\ Goes(134, 218) /\ Goes(135, 169)
        /\ Goes(136, 79) /\ Goes(137, 158) /\ Goes(138, 33) /\ Goes(139, 66) /\ Goes(140, 132)
    BY <1>14, Doubling DEF Doubled
  <1>16. /\ Goes(141, 21) /\ Goes(142, 42) /\ Goes(143, 84) /\ Goes(144, 168) /\ Goes(145, 77)
        /\ Goes(146, 154) /\ Goes(147, 41) /\ Goes(148, 82) /\ Goes(149, 164) /\ Goes(150, 85)
    BY <1>15, Doubling DEF Doubled
  <1>17. /\ Goes(151, 170) /\ Goes(152, 73) /\ Goes(153, 146) /\ Goes(154, 57) /\ Goes(155, 114)
        /\ Goes(156, 228) /\ Goes(157, 213) /\ Goes(158, 183) /\ Goes(159, 115) /\ Goes(160, 230)
    BY <1>16, Doubling DEF Doubled
  <1>18. /\ Goes(161, 209) /\ Goes(162, 191) /\ Goes(163, 99) /\ Goes(164, 198) /\ Goes(165, 145)
        /\ Goes(166, 63) /\ Goes(167, 126) /\ Goes(168, 252) /\ Goes(169, 229) /\ Goes(170, 215)
    BY <1>17, Doubling DEF Doubled
  <1>19. /\ Goes(171, 179) /\ Goes(172, 123) /\ Goes(173, 246) /\ Goes(174, 241) /\ Goes(175, 255)
        /\ Goes(176, 227) /\ Goes(177, 219) /\ Goes(178, 171) /\ Goes(179, 75) /\ Goes(180, 150)
    BY <1>18, Doubling DEF Doubled
  <1>20. /\ Goes(181, 49) /\ Goes(182, 98) /\ Goes(183, 196) /\ Goes(184, 149) /\ Goes(185, 55)
        /\ Goes(186, 110) /\ Goes(187, 220) /\ Goes(188, 165) /\ Goes(189, 87) /\ Goes(190, 174)
    BY <1>19, Doubling DEF Doubled
  <1>21. /\ Goes(191, 65) /\ Goes(192, 130) /\ Goes(193, 25) /\ Goes(194, 50) /\ Goes(195, 100)
        /\ Goes(196, 200) /\ Goes(197, 141) /\ Goes(198, 7) /\ Goes(199, 14) /\ Goes(200, 28)
    BY <1>20, Doubling DEF Doubled
  <1>22. /\ Goes(201, 56) /\ Goes(202, 112) /\ Goes(203, 224) /\ Goes(204, 221) /\ Goes(205, 167)
        /\ Goes(206, 83) /\ Goes(207, 166) /\ Goes(208, 81) /\ Goes(209, 162) /\ Goes(210, 89)
    BY <1>21, Doubling DEF Doubled
  <1>23. /\ Goes(211, 178) /\ Goes(212, 121) /\ Goes(213, 242) /\ Goes(214, 249) /\ Goes(215, 239)
        /\ Goes(216, 195) /\ Goes(217, 155) /\ Goes(218, 43) /\ Goes(219, 86) /\ Goes(220, 172)
    BY <1>22, Doubling DEF Doubled
  <1>24. /\ Goes(221, 69) /\ Goes(222, 138) /\ Goes(223, 9) /\ Goes(224, 18) /\ Goes(225, 36)
        /\ Goes(226, 72) /\ Goes(227, 144) /\ Goes(228, 61) /\ Goes(229, 122) /\ Goes(230, 244)
    BY <1>23, Doubling DEF Doubled
  <1>25. /\ Goes(231, 245) /\ Goes(232, 247) /\ Goes(233, 243) /\ Goes(234, 251) /\ Goes(235, 235)
        /\ Goes(236, 203) /\ Goes(237, 139) /\ Goes(238, 11) /\ Goes(239, 22) /\ Goes(240, 44)
    BY <1>24, Doubling DEF Doubled
  <1>26. /\ Goes(241, 88) /\ Goes(242, 176) /\ Goes(243, 125) /\ Goes(244, 250) /\ Goes(245, 233)
        /\ Goes(246, 207) /\ Goes(247, 131) /\ Goes(248, 27) /\ Goes(249, 54) /\ Goes(250, 108)
    BY <1>25, Doubling DEF Doubled
  <1>27. /\ Goes(251, 216) /\ Goes(252, 173) /\ Goes(253, 71) /\ Goes(254, 142)
    BY <1>26, Doubling DEF Doubled
  <1>28. \A o \in 1 .. 17 : \E i : Goes(i, o)
    BY <1>1, <1>2, <1>4, <1>6, <1>7, <1>9, <1>11, <1>12, <1>21, <1>24, <1>25
  <1>29. \A o \in 18 .. 34 : \E i : Goes(i, o)
    BY <1>2, <1>3, <1>4, <1>7, <1>9, <1>12, <1>13, <1>14, <1>15, <1>16, <1>21, <1>24, <1>25, <1>26
  <1>30. \A o \in 35 .. 51 : \E i : Goes(i, o)
    BY <1>3, <1>4, <1>5, <1>6, <1>7, <1>8, <1>14, <1>16, <1>20, <1>21, <1>23, <1>24, <1>25
  <1>31. \A o \in 52 .. 68 : \E i : Goes(i, o)
    BY <1>2, <1>5, <1>9, <1>11, <1>12, <1>13, <1>15, <1>17, <1>18, <1>20, <1>21, <1>22, <1>24, <1>26
  <1>32. \A o \in 69 .. 85 : \E i : Goes(i, o)
    BY <1>3, <1>5, <1>6, <1>7, <1>15, <1>16, <1>17, <1>19, <1>22, <1>24, <1>27
  <1>33. \A o \in 86 .. 102 : \E i : Goes(i, o)
    BY <1>3, <1>4, <1>7, <1>8, <1>9, <1>11, <1>14, <1>15, <1>18, <1>20, <1>21, <1>22, <1>23, <1>26
  <1>34. \A o \in 103 .. 119 : \E i : Goes(i, o)
    BY <1>2, <1>4, <1>5, <1>6, <1>7, <1>8, <1>10, <1>11, <1>12, <1>14, <1>15, <1>17, <1>20, <1>22, <1>26
  <1>35. \A o \in 120 .. 136 : \E i : Goes(i, o)
    BY <1>2, <1>3, <1>9, <1>10, <1>11, <1>12, <1>13, <1>14, <1>15, <1>18, <1>19, <1>21, <1>23, <1>24, <1>26
  <1>36. \A o \in 137 .. 153 : \E i : Goes(i, o)
    BY <1>3, <1>4, <1>5, <1>6, <1>8, <1>9, <1>13, <1>14, <1>17, <1>18, <1>19, <1>20, <1>21, <1>24, <1>25, <1>27
  <1>37. \A o \in 154 .. 170 : \E i : Goes(i, o)
    BY <1>5, <1>6, <1>7, <1>8, <1>11, <1>15, <1>16, <1>17, <1>20, <1>22, <1>23
  <1>38. \A o \in 171 .. 187 : \E i : Goes(i, o)
    BY <1>3, <1>6, <1>7, <1>10, <1>11, <1>15, <1>17, <1>19, <1>20, <1>23, <1>26, <1>27
  <1>39. \A o \in 188 .. 204 : \E i : Goes(i, o)
    BY <1>4, <1>5, <1>6, <1>8, <1>9, <1>12, <1>13, <1>14, <1>18, <1>20, <1>21, <1>23, <1>25
  <1>40. \A o \in 205 .. 221 : \E i : Goes(i, o)
    BY <1>3, <1>6, <1>7, <1>10, <1>11, <1>12, <1>13, <1>15, <1>17, <1>18, <1>19, <1>20, <1>22, <1>26, <1>27
  <1>41. \A o \in 222 .. 238 : \E i : Goes(i, o)
    BY <1>3, <1>4, <1>6, <1>8, <1>10, <1>11, <1>13, <1>14, <1>17, <1>18, <1>19, <1>22, <1>25, <1>26
  <1>42. \A o \in 239 .. 255 : \E i : Goes(i, o)
    BY <1>9, <1>10, <1>13, <1>18, <1>19, <1>23, <1>24, <1>25, <1>26
  <1>43. \A o \in 1 .. 255 : \E i : Goes(i, o)
    BY <1>28, <1>29, <1>30, <1>31, <1>32, <1>33, <1>34, <1>35, <1>36, <1>37, <1>38, <1>39, <1>40, <1>41, <1>42
  <1>. QED
    BY <1>1, <1>2, <1>27, <1>43

LEMMA ExpIs ==
    ASSUME NEW i \in 0 .. 509
    PROVE  OCT_EXP[i] = Power[i % 255] /\ OCT_EXP[i] \in Octet
  <1>1. i % 255 \in 0 .. 254
    OBVIOUS
  <1>2. OCT_EXP[i] = Power[i % 255]
    BY DEF OCT_EXP
  <1>. QED
    BY <1>1, <1>2, PowerIs, SMTT(30)

LEMMA LogIs ==
    ASSUME NEW o \in Octet
    PROVE  /\ OCT_LOG[o] \in 0 .. 255
           /\ o # 0 => OCT_LOG[o] \in 0 .. 254 /\ OCT_EXP[OCT_LOG[o]] = o
  <1>1. CASE o = 0
    <2>1. OCT_LOG[o] = 255
      BY <1>1 DEF OCT_LOG
    <2>. QED
      BY <1>1, <2>1
  <1>2. CASE o # 0
    <2>1. o \in 1 .. 255
      BY <1>2 DEF Octet
    <2>2. PICK i : Goes(i, o)
      BY <2>1, EveryOctetIsPower
    <2>3. i \in 0 .. 254 /\ Power[i] = o
      BY <2>2 DEF Goes
    <2>4. i % 255 = i /\ i \in 0 .. 509
      BY <2>3
    <2>5. OCT_EXP[i] = o
      BY <2>3, <2>4, ExpIs, SMTT(30)
    <2>6. OCT_LOG[o] = CHOOSE n \in 0 .. 254 : OCT_EXP[n] = o
      BY <1>2, Zenon DEF OCT_LOG
    <2>7. OCT_LOG[o] \in 0 .. 254 /\ OCT_EXP[OCT_LOG[o]] = o
      BY <2>3, <2>5, <2>6, Zenon
    <2>. QED
      BY <2>7
  <1>. QED
    BY <1>1, <1>2

LEMMA InverseIs ==
    ASSUME NEW o \in Octet
    PROVE  OCT_INV[o] \in Octet
  <1>1. CASE o < 2
    BY <1>1 DEF OCT_INV
  <1>2. CASE ~(o < 2)
    <2>1. o # 0
      BY <1>2
    <2>2. OCT_LOG[o] \in 0 .. 254
      BY <2>1, LogIs
    <2>3. 255 - OCT_LOG[o] \in 0 .. 509
      BY <2>2
    <2>4. OCT_INV[o] = OCT_EXP[255 - OCT_LOG[o]]
      BY <1>2 DEF OCT_INV
    <2>. QED
      BY <2>3, <2>4, ExpIs, ZenonT(30)
  <1>. QED
    BY <1>1, <1>2

LEMMA ProductEntryIs ==
    ASSUME NEW u \in Octet, NEW v \in Octet
    PROVE  ProductEntry(u, v) \in Octet
  <1>1. CASE u = 0 \/ v = 0
    BY <1>1 DEF ProductEntry, Octet
  <1>2. CASE ~(u = 0 \/ v = 0)
    <2>1. OCT_LOG[u] \in 0 .. 254 /\ OCT_LOG[v] \in 0 .. 254
      BY <1>2, LogIs
    <2>2. (OCT_LOG[u] + OCT_LOG[v]) % 255 \in 0 .. 509
      <3>1. PICK a \in 0 .. 254, b \in 0 .. 254 : a = OCT_LOG[u] /\ b = OCT_LOG[v]
        BY <2>1, Zenon
      <3>2. (a + b) % 255 \in 0 .. 509
        OBVIOUS
      <3>. QED
        BY <3>1, <3>2
    <2>3. ProductEntry(u, v) = OCT_EXP[(OCT_LOG[u] + OCT_LOG[v]) % 255]
      BY <1>2 DEF ProductEntry
    <2>. QED
      BY <2>2, <2>3, ExpIs, SMTT(30)
  <1>. QED
    BY <1>1, <1>2

LEMMA MulIs ==
    ASSUME NEW u \in Octet, NEW o \in Octet
    PROVE  Mul(u, o) \in Octet
  <1>1. PICK a \in Nibble, b \in Nibble : a = o \div 16 /\ b = o % 16
    BY NibblesOf
  <1>2. a \in 0 .. 15 /\ b \in 0 .. 15 /\ 16 * a \in Octet /\ b \in Octet
    BY DEF Nibble, Octet
  <1>3. OCT_MUL_HI[u][a] = ProductEntry(u, 16 * a) /\ OCT_MUL_LO[u][b] = ProductEntry(u, b)
    BY <1>2 DEF OCT_MUL_HI, OCT_MUL_LO
  <1>4. Mul(u, o) = Xor[OCT_MUL_HI[u][a]][OCT_MUL_LO[u][b]]
    BY <1>1 DEF Mul
  <1>5. OCT_MUL_HI[u][a] \in Octet /\ OCT_MUL_LO[u][b] \in Octet
    BY <1>2, <1>3, ProductEntryIs
  <1>. QED
    BY <1>4, <1>5, XorIs

LEMMA AddRowIs ==
    ASSUME NEW C, NEW x \in [C -> Octet], NEW y, \A k \in C : y[k] \in Octet,
           NEW u \in Octet
    PROVE  AddRow(x, y, u) \in [C -> Octet]
  <1>1. \A k \in C : Xor[x[k]][Mul(u, y[k])] \in Octet
    BY MulIs, XorIs
  <1>. QED
    BY <1>1 DEF AddRow

LEMMA ScaleRowIs ==
    ASSUME NEW C, NEW x \in [C -> Octet], NEW u \in Octet
    PROVE  ScaleRow(x, u) \in [C -> Octet]
  <1>1. \A k \in C : Mul(u, x[k]) \in Octet
    BY MulIs
  <1>. QED
    BY <1>1 DEF ScaleRow

LEMMA NextPowerIs ==
    ASSUME NEW o \in Octet
    PROVE  NextPower[o] \in Octet
  <1>1. CASE o = 0
    BY <1>1 DEF NextPower, Octet
  <1>2. CASE o # 0
    <2>1. OCT_LOG[o] \in 0 .. 254
      BY <1>2, LogIs
    <2>2. OCT_LOG[o] + 1 \in 0 .. 509
      BY <2>1
    <2>3. NextPower[o] = OCT_EXP[OCT_LOG[o] + 1]
      BY <1>2 DEF NextPower
    <2>. QED
      BY <2>2, <2>3, ExpIs
  <1>. QED
    BY <1>1, <1>2

\* What each value of a recursion hands on to the next, all of them have.
LEMMA StaysIn ==
    ASSUME NEW X, NEW n \in Nat, NEW f, f[0] \in X,
           \A i \in 1 .. n : f[i - 1] \in X => f[i] \in X
    PROVE  \A i \in 0 .. n : f[i] \in X
  <1>. DEFINE Q == {i \in Nat : i <= n => f[i] \in X}
  <1>1. 0 \in Q
    OBVIOUS
  <1>2. ASSUME NEW i \in Q
        PROVE  i + 1 \in Q
    <2>1. SUFFICES ASSUME i + 1 <= n
                   PROVE  f[i + 1] \in X
      OBVIOUS
    <2>2. f[(i + 1) - 1] \in X /\ i + 1 \in 1 .. n
      <3>1. f[i] \in X /\ i + 1 \in 1 .. n /\ (i + 1) - 1 = i
        BY <2>1
      <3>. QED
        BY <3>1
    <2>. QED
      BY <2>2
  <1>3. Q = Nat
    <2>1. Q \subseteq Nat
      OBVIOUS
    <2>. HIDE DEF Q
    <2>. QED
      BY <1>1, <1>2, <2>1, SetInduction
  <1>. QED
    BY <1>3

LEMMA HdpcColumnIs ==
    ASSUME NEW p, IsCode(p), NEW col \in Upto(p.Kprime + p.S)
    PROVE  HdpcColumn(p, col) \in [Upto(p.H) -> Octet]
  <1>1. PICK n \in Nat : n = p.Kprime + p.S
    BY DEF IsCode
  <1>2. p.H \in 2 .. 255
    BY DEF IsCode
  <1>3. PICK k \in Nat : k = n - 1 - col
    BY <1>1 DEF Upto
  <1>4. ASSUME NEW row \in Upto(p.H)
        PROVE  HdpcColumn(p, col)[row] \in Octet
    <2>. DEFINE bit(m) == IF row \in Toggled(p, n - 1 - m) THEN 1 ELSE 0
                F == [z \in Octet \X Nat |-> Xor[NextPower[z[1]]][bit(z[2])]]
                Entry(g) == g = [m \in 0 .. k |-> IF m = 0 THEN OCT_EXP[row]
                                                  ELSE Xor[NextPower[g[m - 1]]][bit(m)]]
    <2>1. PICK f : f = CHOOSE g : Entry(g)
      OBVIOUS
    <2>2. HdpcColumn(p, col)[row] = f[k]
      BY <1>1, <1>3, <2>1 DEF HdpcColumn
    <2>3. OCT_EXP[row] \in Octet
      <3>1. row \in 0 .. 509
        BY <1>2 DEF Upto
      <3>. QED
        BY <3>1, ExpIs
    <2>4. ASSUME NEW o \in Octet, NEW m
          PROVE  Xor[NextPower[o]][bit(m)] \in Octet
      <3>1. bit(m) \in Octet
        BY DEF Octet
      <3>2. NextPower[o] \in Octet
        BY NextPowerIs
      <3>. HIDE DEF bit
      <3>. QED
        BY <3>1, <3>2, XorIs
    <2>5. F \in [Octet \X Nat -> Octet]
      <3>1. \A z \in Octet \X Nat : Xor[NextPower[z[1]]][bit(z[2])] \in Octet
        BY <2>4
      <3>. HIDE DEF bit
      <3>. QED
        BY <3>1
    <2>. HIDE DEF bit
    <2>6. \A z \in Octet \X Nat : F[z] = Xor[NextPower[z[1]]][bit(z[2])]
      OBVIOUS
    <2>. HIDE DEF F
    <2>7. PICK g \in [0 .. k -> Octet] : Follows(g, F, OCT_EXP[row], k)
      BY <2>3, <2>5, Recursion
    <2>8. ASSUME NEW m \in 1 .. k
          PROVE  g[m] = Xor[NextPower[g[m - 1]]][bit(m)]
      <3>1. <<g[m - 1], m>> \in Octet \X Nat
        <4>1. m - 1 \in 0 .. k
          OBVIOUS
        <4>. QED
          BY <4>1
      <3>2. g[m] = F[<<g[m - 1], m>>]
        BY <2>7 DEF Follows
      <3>. QED
        BY <2>6, <3>1, <3>2
    <2>9. Entry(g)
      <3>1. \A m \in 0 .. k : g[m] = IF m = 0 THEN OCT_EXP[row]
                                     ELSE Xor[NextPower[g[m - 1]]][bit(m)]
        <4>1. g[0] = OCT_EXP[row]
          BY <2>7 DEF Follows
        <4>2. \A m \in 0 .. k : m # 0 => m \in 1 .. k
          OBVIOUS
        <4>. QED
          BY <2>8, <4>1, <4>2
      <3>. QED
        BY <3>1
    <2>10. Entry(f)
      <3>. HIDE DEF Entry
      <3>. QED
        BY <2>1, <2>9, ZenonT(30)
    <2>11. f[0] = OCT_EXP[row] /\ \A m \in 1 .. k : f[m] = Xor[NextPower[f[m - 1]]][bit(m)]
      <3>. HIDE DEF bit
      <3>1. \A m \in 0 .. k : f[m] = IF m = 0 THEN OCT_EXP[row]
                                     ELSE Xor[NextPower[f[m - 1]]][bit(m)]
        BY <2>10, Zenon
      <3>2. 0 \in 0 .. k /\ \A m \in 1 .. k : m \in 0 .. k /\ m # 0
        OBVIOUS
      <3>. QED
        BY <3>1, <3>2, Zenon
    <2>12. \A m \in 0 .. k : f[m] \in Octet
      <3>1. f[0] \in Octet
        BY <2>3, <2>11
      <3>2. \A m \in 1 .. k : f[m - 1] \in Octet => f[m] \in Octet
        BY <2>4, <2>11
      <3>. QED
        BY <3>1, <3>2, StaysIn
    <2>. QED
      BY <2>2, <2>12
  <1>5. HdpcColumn(p, col) = [row \in Upto(p.H) |-> HdpcColumn(p, col)[row]]
    BY DEF HdpcColumn
  <1>. QED
    BY <1>4, <1>5

LEMMA DecodeRowIs ==
    ASSUME NEW p, IsCode(p), NEW X, TupleInRange(X, p),
           NEW symbols, \A r \in Upto(p.L) : symbols[r] \in Symbol
    PROVE  DecodeRow(p, symbols, X) \in Symbol
  <1>1. PICK rows : rows = Idxs(X, p)
    OBVIOUS
  <1>2. PICK k \in Nat : k = Len(rows) /\ \A n \in 1 .. k : rows[n] \in Upto(p.L)
    <2>1. rows \in Seq(Upto(p.L))
      BY <1>1, IdxsIs DEF IsRow
    <2>. QED
      BY <2>1
  <1>. DEFINE zero == ZeroRow(1 .. SymbolSize)
              other(n) == symbols[rows[n]]
              F == [z \in Symbol \X Nat |->
                       IF z[2] \in 1 .. k THEN AddRow(z[1], other(z[2]), 1) ELSE zero]
              Sum(g) == g = [n \in 0 .. k |-> IF n = 0 THEN zero
                                              ELSE AddRow(g[n - 1], other(n), 1)]
  <1>3. PICK f : f = CHOOSE g : Sum(g)
    OBVIOUS
  <1>4. DecodeRow(p, symbols, X) = f[k]
    BY <1>1, <1>2, <1>3 DEF DecodeRow
  <1>5. zero \in Symbol
    BY DEF ZeroRow, Symbol, Octet
  <1>6. ASSUME NEW x \in Symbol, NEW n \in 1 .. k
        PROVE  AddRow(x, other(n), 1) \in Symbol
    <2>1. other(n) \in Symbol
      BY <1>2
    <2>. HIDE DEF other
    <2>2. \A i \in 1 .. SymbolSize : other(n)[i] \in Octet
      BY <2>1 DEF Symbol
    <2>3. 1 \in Octet /\ x \in [1 .. SymbolSize -> Octet]
      BY DEF Symbol, Octet
    <2>. QED
      BY <2>2, <2>3, AddRowIs DEF Symbol
  <1>. HIDE DEF zero, other
  <1>7. F \in [Symbol \X Nat -> Symbol]
    <2>1. \A z \in Symbol \X Nat :
             (IF z[2] \in 1 .. k THEN AddRow(z[1], other(z[2]), 1) ELSE zero) \in Symbol
      BY <1>5, <1>6
    <2>. QED
      BY <2>1
  <1>8. \A z \in Symbol \X Nat : z[2] \in 1 .. k => F[z] = AddRow(z[1], other(z[2]), 1)
    OBVIOUS
  <1>. HIDE DEF F
  <1>9. PICK g \in [0 .. k -> Symbol] : Follows(g, F, zero, k)
    BY <1>5, <1>7, Recursion
  <1>10. ASSUME NEW m \in 1 .. k
         PROVE  g[m] = AddRow(g[m - 1], other(m), 1)
    <2>1. <<g[m - 1], m>> \in Symbol \X Nat
      <3>1. m - 1 \in 0 .. k
        OBVIOUS
      <3>. QED
        BY <3>1
    <2>2. g[m] = F[<<g[m - 1], m>>]
      BY <1>9 DEF Follows
    <2>. QED
      BY <1>8, <2>1, <2>2
  <1>11. Sum(g)
    <2>1. g[0] = zero
      BY <1>9 DEF Follows
    <2>2. \A m \in 0 .. k : m # 0 => m \in 1 .. k
      OBVIOUS
    <2>3. \A m \in 0 .. k : g[m] = IF m = 0 THEN zero ELSE AddRow(g[m - 1], other(m), 1)
      BY <1>10, <2>1, <2>2
    <2>. QED
      BY <2>3
  <1>12. Sum(f)
    <2>. HIDE DEF Sum
    <2>. QED
      BY <1>3, <1>11
  <1>13. f[0] = zero /\ \A m \in 1 .. k : f[m] = AddRow(f[m - 1], other(m), 1)
    BY <1>12
  <1>14. \A m \in 0 .. k : f[m] \in Symbol
    <2>1. f[0] \in Symbol
      BY <1>5, <1>13
    <2>2. \A m \in 1 .. k : f[m - 1] \in Symbol => f[m] \in Symbol
      BY <1>6, <1>13
    <2>. QED
      BY <2>1, <2>2, StaysIn
  <1>. QED
    BY <1>4, <1>14

-----------------------------------------------------------------------------
\* The object.

\* The long parts of a partition are not shorter than the others.
LEMMA LongFirst ==
    ASSUME NEW I \in Nat, NEW J \in Nat \ {0}, NEW p, p = Partition(I, J)
    PROVE  p.JL > 0 => p.IS <= p.IL
  <1>1. PICK q \in Nat, r \in 0 .. J - 1 : q = I \div J /\ r = I % J /\ I = J * q + r
    BY Quotient
  <1>2. DivCeil(I, J) = IF r # 0 THEN q + 1 ELSE q
    BY <1>1 DEF DivCeil
  <1>3. I - (I \div J) * J = r
    BY <1>1
  <1>4. p.JL = r /\ p.IS = q /\ p.IL = IF r = 0 THEN 0 ELSE q + 1
    BY <1>1, <1>2, <1>3 DEF Partition
  <1>. QED
    BY <1>4

LEMMA DivisionIs ==
    ASSUME NEW F, NEW T, IsCase(F, T), NEW rq, rq = EncoderNew(F, T, 1)
    PROVE  Divided(rq)
  <1>2. PICK Kt \in Nat \ {0}, Z \in 1 .. 256 :
            Kt = DivCeil(F, T) /\ Z = SchemeZ(Kt) /\ Z <= Kt /\ DivCeil(Kt, Z) <= KMax
    BY CaseScheme, ZenonT(30)
  <1>3. PICK p : p = rq.src
    OBVIOUS
  <1>4. rq.Z = Z /\ p = Partition(Kt, Z)
    BY <1>2, <1>3 DEF EncoderNew, Nanorq
  <1>5. Kt \in Nat /\ Z \in Nat \ {0}
    BY <1>2
  <1>6. IsPartition(p, Kt, Z) /\ SizesFit(p, DivCeil(Kt, Z)) /\ (p.JL > 0 => p.IS <= p.IL)
    BY <1>2, <1>4, <1>5, PartitionAddsUp, PartitionFits, LongFirst
  <1>7. PICK most \in Nat : most = DivCeil(Kt, Z) /\ most <= KMax
    <2>1. DivCeil(Kt, Z) \in Nat
      BY <1>5, Covers
    <2>. QED
      BY <1>2, <2>1
  <1>8. KMax \in Nat
    BY LayoutAssumption
  <1>9. NumBlocks(rq) = Z
    BY <1>3, <1>6 DEF NumBlocks, IsPartition
  <1>10. \A b \in 0 .. Z - 1 : BlockSymbols(rq, b) \in 1 .. KMax
    BY <1>3, <1>6, <1>7, <1>8 DEF BlockSymbols, IsPartition, SizesFit
  <1>11. \A b \in 0 .. Z - 1 : BlockSymbols(rq, b) <= BlockSymbols(rq, 0)
    BY <1>3, <1>6 DEF BlockSymbols, IsPartition
  <1>. QED
    BY <1>4, <1>9, <1>10, <1>11 DEF Divided

LEMMA ObjectIs ==
    /\ Divided(Encoder) /\ IsCode(EncoderParams)
    /\ BlockSymbols(Encoder, 0) <= EncoderParams.Kprime
    /\ MaxEsi \in Nat /\ SymbolSize \in Nat \ {0}
    /\ \A X \in 0 .. EncoderParams.Kprime + MaxEsi : TupleInRange(X, EncoderParams)
  <1>1. IsCase(Cardinality(DOMAIN File), SymbolSize)
    BY ObjectAssumption, SMT DEF IsCase
  <1>2. Divided(Encoder)
    BY <1>1, DivisionIs DEF Encoder
  <1>3. BlockSymbols(Encoder, 0) \in Nat
    BY <1>2, LayoutAssumption DEF Divided
  <1>4. IsCode(EncoderParams) /\ BlockSymbols(Encoder, 0) <= EncoderParams.Kprime
    BY <1>3, CodeAssumption, CodeIs DEF EncoderParams
  <1>5. MaxEsi \in Nat /\ SymbolSize \in Nat \ {0}
    BY ObjectAssumption, SMT
  <1>6. \A X \in 0 .. EncoderParams.Kprime + MaxEsi : TupleInRange(X, EncoderParams)
    BY CodeAssumption
  <1>. QED
    BY <1>2, <1>4, <1>5, <1>6, SMT

\* The tag has two octets for the number of a symbol.
LEMMA EsiFits ==
    ASSUME NEW esi \in 0 .. MaxEsi
    PROVE  esi \in Nat /\ esi < 65536
  BY ObjectAssumption, SMT

LEMMA BlockIs ==
    ASSUME Followed
    PROVE  /\ sbn \in 0 .. 255 /\ K \in Nat /\ K >= 1 /\ K <= EncoderParams.Kprime
  <1>1. NumBlocks(Encoder) \in 1 .. 256 /\ KMax \in Nat
    BY ObjectIs, LayoutAssumption, SMT DEF Divided
  <1>2. sbn \in 0 .. NumBlocks(Encoder) - 1
    BY DEF Followed, Upto
  <1>3. K \in 1 .. KMax /\ K <= BlockSymbols(Encoder, 0)
    BY <1>2, ObjectIs, SMT DEF Divided, K
  <1>4. BlockSymbols(Encoder, 0) \in Nat
    <2>1. 0 \in 0 .. NumBlocks(Encoder) - 1
      BY <1>1
    <2>. QED
      BY <1>1, <2>1, ObjectIs, SMT DEF Divided
  <1>5. BlockSymbols(Encoder, 0) <= EncoderParams.Kprime /\ EncoderParams.Kprime \in Nat
    BY ObjectIs, SMT DEF IsCode
  <1>. QED
    BY <1>1, <1>2, <1>3, <1>4, <1>5

-----------------------------------------------------------------------------
\* The frame.

LEMMA Crc6ShiftIs ==
    ASSUME NEW o \in Octet
    PROVE  Crc6Shift[o] \in Octet
  <1>1. CASE o >= 128
    <2>1. 2 * o - 256 \in Octet /\ 188 \in Octet
      BY <1>1 DEF Octet
    <2>2. Crc6Shift[o] = Xor[2 * o - 256][188]
      BY <1>1 DEF Crc6Shift
    <2>. QED
      BY <2>1, <2>2, XorIs
  <1>2. CASE ~(o >= 128)
    <2>1. Crc6Shift[o] = 2 * o
      BY <1>2 DEF Crc6Shift
    <2>. QED
      BY <1>2, <2>1 DEF Octet
  <1>. QED
    BY <1>1, <1>2

LEMMA Crc6TableIs ==
    ASSUME NEW o \in Octet
    PROVE  Crc6Table[o] = EightTimes(o) \div 4 /\ EightTimes(o) \in Octet
  <1>. DEFINE X == [Octet -> Octet]
              id == [x \in Octet |-> x]
              F == [z \in X \X Nat |-> [x \in Octet |-> Crc6Shift[z[1][x]]]]
              IsIt(g) == g = [n \in 0 .. 8 |-> IF n = 0 THEN id
                                               ELSE [x \in Octet |-> Crc6Shift[g[n - 1][x]]]]
  <1>1. PICK f : f = CHOOSE g : IsIt(g)
    BY ZenonT(30)
  <1>2. Crc6Table[o] = f[8][o] \div 4
    BY <1>1, Zenon DEF Crc6Table
  <1>3. id \in X
    OBVIOUS
  <1>4. F \in [X \X Nat -> X]
    <2>1. \A z \in X \X Nat : [x \in Octet |-> Crc6Shift[z[1][x]]] \in X
      <3>1. ASSUME NEW z \in X \X Nat
            PROVE  [x \in Octet |-> Crc6Shift[z[1][x]]] \in X
        <4>1. \A x \in Octet : z[1][x] \in Octet
          OBVIOUS
        <4>2. \A x \in Octet : Crc6Shift[z[1][x]] \in Octet
          BY <4>1, Crc6ShiftIs
        <4>. QED
          BY <4>2
      <3>. QED
        BY <3>1
    <2>. QED
      BY <2>1
  <1>5. \A z \in X \X Nat : F[z] = [x \in Octet |-> Crc6Shift[z[1][x]]]
    OBVIOUS
  <1>. HIDE DEF F, id
  <1>6. PICK g \in [0 .. 8 -> X] : Follows(g, F, id, 8)
    <2>. HIDE DEF X
    <2>. QED
      BY <1>3, <1>4, Recursion
  <1>7. ASSUME NEW n \in 1 .. 8
        PROVE  g[n] = [x \in Octet |-> Crc6Shift[g[n - 1][x]]]
    <2>1. <<g[n - 1], n>> \in X \X Nat
      <3>1. n - 1 \in 0 .. 8
        OBVIOUS
      <3>. HIDE DEF X
      <3>. QED
        BY <3>1
    <2>2. g[n] = F[<<g[n - 1], n>>]
      BY <1>6 DEF Follows
    <2>. HIDE DEF X
    <2>. QED
      BY <1>5, <2>1, <2>2
  <1>8. IsIt(g)
    <2>1. g[0] = id
      BY <1>6 DEF Follows
    <2>2. \A n \in 0 .. 8 : n # 0 => n \in 1 .. 8
      OBVIOUS
    <2>3. \A n \in 0 .. 8 : g[n] = IF n = 0 THEN id ELSE [x \in Octet |-> Crc6Shift[g[n - 1][x]]]
      BY <1>7, <2>1, <2>2
    <2>. HIDE DEF X
    <2>. QED
      BY <2>3
  <1>9. IsIt(f)
    <2>. HIDE DEF IsIt
    <2>. QED
      BY <1>1, <1>8
  <1>10. f[0] = id /\ \A n \in 1 .. 8 : f[n] = [x \in Octet |-> Crc6Shift[f[n - 1][x]]]
    BY <1>9
  <1>11. f[0][o] = o
    BY <1>10 DEF id
  <1>12. \A n \in 1 .. 8 : f[n][o] = Crc6Shift[f[n - 1][o]]
    BY <1>10
  <1>13. /\ f[1][o] = Crc6Shift[f[0][o]] /\ f[2][o] = Crc6Shift[f[1][o]]
         /\ f[3][o] = Crc6Shift[f[2][o]] /\ f[4][o] = Crc6Shift[f[3][o]]
         /\ f[5][o] = Crc6Shift[f[4][o]] /\ f[6][o] = Crc6Shift[f[5][o]]
         /\ f[7][o] = Crc6Shift[f[6][o]] /\ f[8][o] = Crc6Shift[f[7][o]]
    BY <1>12
  <1>14. f[8][o] = EightTimes(o)
    BY <1>11, <1>13 DEF EightTimes
  <1>15. EightTimes(o) \in Octet
    BY Crc6ShiftIs DEF EightTimes
  <1>. QED
    BY <1>2, <1>14, <1>15

LEMMA Crc6StepIs ==
    ASSUME NEW c \in Remainder, NEW o \in Octet
    PROVE  Crc6Step(c, o) \in Remainder /\ Xor[4 * c][o] \in Octet
  <1>1. 4 * c \in Octet
    BY DEF Remainder, Octet
  <1>2. PICK x \in Octet : x = Xor[4 * c][o]
    BY <1>1, XorIs
  <1>3. Crc6Table[x] = EightTimes(x) \div 4 /\ EightTimes(x) \in Octet
    BY Crc6TableIs
  <1>4. Crc6Table[x] \in Remainder
    BY <1>3 DEF Octet, Remainder
  <1>. QED
    BY <1>2, <1>4 DEF Crc6Step

LEMMA Crc6Is ==
    ASSUME NEW data \in Seq(Octet)
    PROVE  \E crc : IsCrc6(crc, data) /\ Crc6(data) = crc[Len(data)]
  <1>1. PICK k \in Nat : k = Len(data) /\ \A n \in 1 .. k : data[n] \in Octet
    OBVIOUS
  <1>. DEFINE F == [z \in Remainder \X Nat |->
                       IF z[2] \in 1 .. k THEN Crc6Step(z[1], data[z[2]]) ELSE 1]
              IsIt(g) == g = [n \in 0 .. k |-> IF n = 0 THEN 1
                                               ELSE Crc6Table[Xor[4 * g[n - 1]][data[n]]]]
  <1>2. PICK f : f = CHOOSE g : IsIt(g)
    OBVIOUS
  <1>3. Crc6(data) = f[k]
    BY <1>1, <1>2 DEF Crc6
  <1>4. 1 \in Remainder
    BY DEF Remainder
  <1>5. F \in [Remainder \X Nat -> Remainder]
    <2>1. \A z \in Remainder \X Nat :
             (IF z[2] \in 1 .. k THEN Crc6Step(z[1], data[z[2]]) ELSE 1) \in Remainder
      BY <1>1, <1>4, Crc6StepIs
    <2>. QED
      BY <2>1
  <1>6. \A z \in Remainder \X Nat : z[2] \in 1 .. k => F[z] = Crc6Step(z[1], data[z[2]])
    OBVIOUS
  <1>. HIDE DEF F
  <1>7. PICK g \in [0 .. k -> Remainder] : Follows(g, F, 1, k)
    BY <1>4, <1>5, Recursion
  <1>8. ASSUME NEW n \in 1 .. k
        PROVE  g[n] = Crc6Table[Xor[4 * g[n - 1]][data[n]]]
    <2>1. <<g[n - 1], n>> \in Remainder \X Nat
      <3>1. n - 1 \in 0 .. k
        OBVIOUS
      <3>. QED
        BY <3>1
    <2>2. g[n] = F[<<g[n - 1], n>>]
      BY <1>7 DEF Follows
    <2>. QED
      BY <1>6, <2>1, <2>2 DEF Crc6Step
  <1>9. IsIt(g)
    <2>1. g[0] = 1
      BY <1>7 DEF Follows
    <2>2. \A n \in 0 .. k : n # 0 => n \in 1 .. k
      OBVIOUS
    <2>3. \A n \in 0 .. k : g[n] = IF n = 0 THEN 1 ELSE Crc6Table[Xor[4 * g[n - 1]][data[n]]]
      BY <1>8, <2>1, <2>2
    <2>. QED
      BY <2>3
  <1>10. IsIt(f)
    <2>. HIDE DEF IsIt
    <2>. QED
      BY <1>2, <1>9
  <1>11. f[0] = 1 /\ \A n \in 1 .. k : f[n] = Crc6Step(f[n - 1], data[n])
    <2>1. \A n \in 0 .. k : f[n] = IF n = 0 THEN 1 ELSE Crc6Table[Xor[4 * f[n - 1]][data[n]]]
      BY <1>10, Zenon
    <2>2. \A n \in 1 .. k : n \in 0 .. k /\ n # 0
      OBVIOUS
    <2>3. 0 \in 0 .. k
      OBVIOUS
    <2>. QED
      BY <2>1, <2>2, <2>3, Zenon DEF Crc6Step
  <1>12. \A n \in 0 .. k : f[n] \in Remainder
    <2>1. f[0] \in Remainder
      BY <1>4, <1>11
    <2>2. \A n \in 1 .. k : f[n - 1] \in Remainder => f[n] \in Remainder
      BY <1>1, <1>11, Crc6StepIs
    <2>. QED
      BY <2>1, <2>2, StaysIn
  <1>13. f = [n \in 0 .. k |-> f[n]]
    BY <1>10
  <1>14. f \in [0 .. k -> Remainder]
    BY <1>12, <1>13
  <1>15. IsCrc6(f, data)
    BY <1>1, <1>11, <1>14 DEF IsCrc6
  <1>. QED
    BY <1>1, <1>3, <1>15

LEMMA OctetOfIs ==
    ASSUME NEW n \in Nat
    PROVE  OctetOf(n, 1) \in Octet /\ OctetOf(n, 256) \in Octet /\ OctetOf(n, 65536) \in Octet
  BY SMT DEF OctetOf, Octet

LEMMA Concat ==
    ASSUME NEW X, NEW s \in Seq(X), NEW t \in Seq(X)
    PROVE  IsConcat(s \o t, s, t, X)
  <1>1. /\ Len(s) \in Nat /\ Len(t) \in Nat
        /\ s \o t \in Seq(X) /\ Len(s \o t) = Len(s) + Len(t)
    OBVIOUS
  <1>2. \A n \in 1 .. Len(s) + Len(t) :
            (s \o t)[n] = IF n <= Len(s) THEN s[n] ELSE t[n - Len(s)]
    OBVIOUS
  <1>3. ASSUME NEW n \in 1 .. Len(t)
        PROVE  (s \o t)[Len(s) + n] = t[n]
    <2>1. Len(s) + n \in 1 .. Len(s) + Len(t) /\ ~(Len(s) + n <= Len(s)) /\ (Len(s) + n) - Len(s) = n
      BY <1>1
    <2>. QED
      BY <1>2, <2>1
  <1>4. ASSUME NEW n \in 1 .. Len(s)
        PROVE  (s \o t)[n] = s[n]
    BY <1>1, <1>2
  <1>. QED
    BY <1>1, <1>3, <1>4 DEF IsConcat

LEMMA FrameIs ==
    ASSUME NEW oti \in Seq(Octet), Len(oti) = 8, NEW b \in 0 .. 255, NEW esi \in 0 .. MaxEsi,
           NEW symbol \in Symbol, NEW f, f = MakeFrame(oti, b, esi, symbol)
    PROVE  IsFrame(f, oti, b, esi, symbol)
  <1>1. PICK tag : tag = Tag(b, esi)
    OBVIOUS
  <1>2. /\ tag \in Seq(Octet) /\ Len(tag) = 3
        /\ tag[1] = b /\ tag[2] + 256 * tag[3] = esi
    <2>1. esi \in Nat /\ OctetOf(esi, 1) + 256 * OctetOf(esi, 256) = esi
      BY EsiFits, TwoOctets, SMT
    <2>2. OctetOf(b, 1) = b /\ b \in Octet
      BY OneOctet DEF Octet
    <2>3. OctetOf(esi, 1) \in Octet /\ OctetOf(esi, 256) \in Octet
      BY <2>1, OctetOfIs
    <2>4. tag = <<b, OctetOf(esi, 1), OctetOf(esi, 256)>>
      BY <1>1, <2>2 DEF Tag
    <2>. QED
      BY <2>1, <2>2, <2>3, <2>4
  <1>3. symbol \in Seq(Octet) /\ Len(symbol) = SymbolSize /\ SymbolSize \in Nat
    <2>1. SymbolSize \in Nat
      BY ObjectIs
    <2>. QED
      BY <2>1, FunctionIsSeq DEF Symbol
  <1>4. PICK body : body = oti \o tag \o symbol
    OBVIOUS
  <1>5. /\ body \in Seq(Octet) /\ Len(body) = 11 + SymbolSize
        /\ \A n \in 1 .. 8 : body[n] = oti[n]
        /\ \A n \in 1 .. 3 : body[8 + n] = tag[n]
        /\ \A n \in 1 .. SymbolSize : body[11 + n] = symbol[n]
    <2>1. PICK head : head = oti \o tag
      OBVIOUS
    <2>2. /\ head \in Seq(Octet) /\ Len(head) = 11
          /\ \A n \in 1 .. 8 : head[n] = oti[n]
          /\ \A n \in 1 .. 3 : head[8 + n] = tag[n]
      <3>1. IsConcat(head, oti, tag, Octet)
        BY <1>2, <2>1, Concat
      <3>. QED
        BY <1>2, <3>1 DEF IsConcat
    <2>3. body = head \o symbol
      BY <1>4, <2>1
    <2>4. /\ body \in Seq(Octet) /\ Len(body) = 11 + SymbolSize
          /\ \A n \in 1 .. 11 : body[n] = head[n]
          /\ \A n \in 1 .. SymbolSize : body[11 + n] = symbol[n]
      <3>1. IsConcat(body, head, symbol, Octet)
        BY <1>3, <2>2, <2>3, Concat
      <3>. QED
        BY <1>3, <2>2, <3>1 DEF IsConcat
    <2>5. \A n \in 1 .. 3 : 8 + n \in 1 .. 11
      OBVIOUS
    <2>6. \A n \in 1 .. 8 : n \in 1 .. 11
      OBVIOUS
    <2>. QED
      BY <2>2, <2>4, <2>5, <2>6
  <1>6. PICK c : c = 128 + Crc6(body) /\ c \in Octet
    <2>1. PICK crc : IsCrc6(crc, body) /\ Crc6(body) = crc[Len(body)]
      BY <1>5, Crc6Is
    <2>2. Crc6(body) \in Remainder
      <3>1. Len(body) \in 0 .. Len(body)
        BY <1>3, <1>5
      <3>. QED
        BY <2>1, <3>1 DEF IsCrc6
    <2>3. PICK r \in Remainder : r = Crc6(body)
      BY <2>2
    <2>4. 128 + r \in Octet
      BY DEF Remainder, Octet
    <2>. QED
      BY <2>3, <2>4
  <1>7. f = <<c>> \o body
    BY <1>1, <1>4, <1>6 DEF MakeFrame, PACKET_RQ_CONFIG
  <1>8. /\ f \in Seq(Octet) /\ Len(f) = 12 + SymbolSize /\ f[1] = c
        /\ \A n \in 1 .. 11 + SymbolSize : f[1 + n] = body[n]
    <2>1. <<c>> \in Seq(Octet) /\ Len(<<c>>) = 1 /\ <<c>>[1] = c
      BY <1>6
    <2>2. IsConcat(f, <<c>>, body, Octet)
      BY <1>5, <1>7, <2>1, Concat
    <2>. QED
      BY <1>3, <1>5, <2>1, <2>2 DEF IsConcat
  <1>9. Tail(f) = body
    <2>1. Tail(f) \in Seq(Octet) /\ Len(Tail(f)) = 11 + SymbolSize
      BY <1>3, <1>8
    <2>2. \A n \in 1 .. 11 + SymbolSize : Tail(f)[n] = body[n]
      BY <1>3, <1>8
    <2>. QED
      BY <1>5, <2>1, <2>2, SMTT(30)
  <1>10. OtiOf(f) = oti
    <2>1. OtiOf(f) \in Seq(Octet) /\ Len(OtiOf(f)) = 8
      BY <1>3, <1>8 DEF OtiOf
    <2>2. ASSUME NEW n \in 1 .. 8
          PROVE  OtiOf(f)[n] = oti[n]
      <3>1. n \in 1 .. 11 + SymbolSize /\ 2 + n - 1 = 1 + n
        BY <1>3
      <3>2. OtiOf(f)[n] = f[2 + n - 1]
        BY <1>3, <1>8 DEF OtiOf
      <3>3. f[1 + n] = body[n]
        BY <1>8, <3>1
      <3>. QED
        BY <1>5, <3>1, <3>2, <3>3
    <2>. QED
      BY <2>1, <2>2
  <1>11. TagSbn(TagOf(f)) = b /\ TagEsi(TagOf(f)) = esi
    <2>1. TagOf(f)[1] = tag[1] /\ TagOf(f)[2] = tag[2] /\ TagOf(f)[3] = tag[3]
      BY <1>3, <1>5, <1>8 DEF TagOf
    <2>. QED
      BY <1>2, <2>1 DEF TagSbn, TagEsi
  <1>12. SymbolOf(f) = symbol
    <2>1. SymbolOf(f) \in Seq(Octet) /\ Len(SymbolOf(f)) = SymbolSize
      BY <1>3, <1>8 DEF SymbolOf
    <2>2. \A n \in 1 .. SymbolSize : SymbolOf(f)[n] = symbol[n]
      BY <1>3, <1>5, <1>8, SMTT(30) DEF SymbolOf
    <2>. QED
      BY <1>3, <2>1, <2>2
  <1>. QED
    BY <1>6, <1>8, <1>9, <1>10, <1>11, <1>12 DEF IsFrame

-----------------------------------------------------------------------------
\* The CRC, bit by bit.

LEMMA NibbleBits ==
    ASSUME NEW n \in Nibble
    PROVE  \E b3, b2, b1, b0 \in Bit : n = 8 * b3 + 4 * b2 + 2 * b1 + b0
  <1>1. PICK b0 \in Bit : b0 = n % 2
    BY DEF Nibble, Bit
  <1>2. PICK b1 \in Bit : b1 = (n \div 2) % 2
    BY DEF Nibble, Bit
  <1>3. PICK b2 \in Bit : b2 = (n \div 4) % 2
    BY DEF Nibble, Bit
  <1>4. PICK b3 \in Bit : b3 = n \div 8
    BY DEF Nibble, Bit
  <1>5. n = 8 * b3 + 4 * b2 + 2 * b1 + b0
    BY <1>1, <1>2, <1>3, <1>4 DEF Nibble, Bit
  <1>. QED
    BY <1>5

LEMMA OctetBits ==
    ASSUME NEW o \in Octet
    PROVE  \E b7, b6, b5, b4, b3, b2, b1, b0 : HasBits(o, b7, b6, b5, b4, b3, b2, b1, b0)
  <1>1. PICK a \in Nibble, b \in Nibble : o = 16 * a + b
    BY NibblesOf
  <1>2. PICK b7 \in Bit, b6 \in Bit, b5 \in Bit, b4 \in Bit : a = 8 * b7 + 4 * b6 + 2 * b5 + b4
    BY NibbleBits
  <1>3. PICK b3 \in Bit, b2 \in Bit, b1 \in Bit, b0 \in Bit : b = 8 * b3 + 4 * b2 + 2 * b1 + b0
    BY NibbleBits
  <1>4. HasBits(o, b7, b6, b5, b4, b3, b2, b1, b0)
    BY <1>1, <1>2, <1>3 DEF HasBits, Bit
  <1>. QED
    BY <1>4

\* The sum of two nibbles, bit by bit
LEMMA NibbleSum ==
    ASSUME NEW m, NEW a3, NEW a2, NEW a1, NEW a0, NibbleHas(m, a3, a2, a1, a0),
           NEW n, NEW b3, NEW b2, NEW b1, NEW b0, NibbleHas(n, b3, b2, b1, b0)
    PROVE  /\ m \in Nibble /\ n \in Nibble
           /\ NibbleHas(XorOfNibbles[m][n], (a3 + b3) % 2, (a2 + b2) % 2,
                                            (a1 + b1) % 2, (a0 + b0) % 2)
  <1>0. /\ a3 \in Bit /\ a2 \in Bit /\ a1 \in Bit /\ a0 \in Bit
        /\ b3 \in Bit /\ b2 \in Bit /\ b1 \in Bit /\ b0 \in Bit
        /\ m = 8 * a3 + 4 * a2 + 2 * a1 + a0 /\ n = 8 * b3 + 4 * b2 + 2 * b1 + b0
    BY DEF NibbleHas
  <1>1. m \in Nibble /\ n \in Nibble
    BY <1>0 DEF Bit, Nibble
  <1>2. XorOfNibbles[m][n] = ((m + n) % 2) + 2 * ((m \div 2 + n \div 2) % 2)
                             + 4 * ((m \div 4 + n \div 4) % 2) + 8 * ((m \div 8 + n \div 8) % 2)
    BY <1>1, NibblesIs
  <1>3. /\ m \div 2 = 4 * a3 + 2 * a2 + a1 /\ m \div 4 = 2 * a3 + a2 /\ m \div 8 = a3
        /\ n \div 2 = 4 * b3 + 2 * b2 + b1 /\ n \div 4 = 2 * b3 + b2 /\ n \div 8 = b3
    BY <1>0 DEF Bit
  <1>4. /\ (m + n) % 2 = (a0 + b0) % 2 /\ (m \div 2 + n \div 2) % 2 = (a1 + b1) % 2
        /\ (m \div 4 + n \div 4) % 2 = (a2 + b2) % 2 /\ (m \div 8 + n \div 8) % 2 = (a3 + b3) % 2
    BY <1>0, <1>3 DEF Bit
  <1>5. PICK c3 \in Bit, c2 \in Bit, c1 \in Bit, c0 \in Bit :
            /\ c3 = (a3 + b3) % 2 /\ c2 = (a2 + b2) % 2
            /\ c1 = (a1 + b1) % 2 /\ c0 = (a0 + b0) % 2
    BY <1>0 DEF Bit
  <1>6. XorOfNibbles[m][n] = c0 + 2 * c1 + 4 * c2 + 8 * c3
    BY <1>2, <1>4, <1>5
  <1>7. NibbleHas(XorOfNibbles[m][n], c3, c2, c1, c0)
    BY <1>5, <1>6 DEF Bit, NibbleHas
  <1>. QED
    BY <1>1, <1>5, <1>7

\* The sum of two octets, bit by bit
LEMMA XorBits ==
    ASSUME NEW a, NEW a7, NEW a6, NEW a5, NEW a4, NEW a3, NEW a2, NEW a1, NEW a0,
           NEW b, NEW b7, NEW b6, NEW b5, NEW b4, NEW b3, NEW b2, NEW b1, NEW b0,
           HasBits(a, a7, a6, a5, a4, a3, a2, a1, a0), HasBits(b, b7, b6, b5, b4, b3, b2, b1, b0)
    PROVE  /\ a \in Octet /\ b \in Octet
           /\ HasBits(Xor[a][b], (a7 + b7) % 2, (a6 + b6) % 2, (a5 + b5) % 2, (a4 + b4) % 2,
                                 (a3 + b3) % 2, (a2 + b2) % 2, (a1 + b1) % 2, (a0 + b0) % 2)
  <1>1. /\ a7 \in Bit /\ a6 \in Bit /\ a5 \in Bit /\ a4 \in Bit
        /\ a3 \in Bit /\ a2 \in Bit /\ a1 \in Bit /\ a0 \in Bit
        /\ b7 \in Bit /\ b6 \in Bit /\ b5 \in Bit /\ b4 \in Bit
        /\ b3 \in Bit /\ b2 \in Bit /\ b1 \in Bit /\ b0 \in Bit
    BY DEF HasBits
  <1>2. PICK m : m = 8 * a7 + 4 * a6 + 2 * a5 + a4
    OBVIOUS
  <1>3. PICK n : n = 8 * a3 + 4 * a2 + 2 * a1 + a0
    OBVIOUS
  <1>4. PICK k : k = 8 * b7 + 4 * b6 + 2 * b5 + b4
    OBVIOUS
  <1>5. PICK l : l = 8 * b3 + 4 * b2 + 2 * b1 + b0
    OBVIOUS
  <1>6. PICK c7 \in Bit, c6 \in Bit, c5 \in Bit, c4 \in Bit :
            /\ c7 = (a7 + b7) % 2 /\ c6 = (a6 + b6) % 2 /\ c5 = (a5 + b5) % 2 /\ c4 = (a4 + b4) % 2
    BY <1>1 DEF Bit
  <1>7. PICK c3 \in Bit, c2 \in Bit, c1 \in Bit, c0 \in Bit :
            /\ c3 = (a3 + b3) % 2 /\ c2 = (a2 + b2) % 2 /\ c1 = (a1 + b1) % 2 /\ c0 = (a0 + b0) % 2
    BY <1>1 DEF Bit
  <1>8. /\ m \in Nibble /\ k \in Nibble
        /\ XorOfNibbles[m][k] = 8 * c7 + 4 * c6 + 2 * c5 + c4
    <2>1. NibbleHas(m, a7, a6, a5, a4) /\ NibbleHas(k, b7, b6, b5, b4)
      BY <1>1, <1>2, <1>4 DEF NibbleHas
    <2>2. /\ m \in Nibble /\ k \in Nibble
          /\ NibbleHas(XorOfNibbles[m][k], c7, c6, c5, c4)
      BY <1>6, <2>1, NibbleSum
    <2>. QED
      BY <2>2 DEF NibbleHas
  <1>9. /\ n \in Nibble /\ l \in Nibble
        /\ XorOfNibbles[n][l] = 8 * c3 + 4 * c2 + 2 * c1 + c0
    <2>1. NibbleHas(n, a3, a2, a1, a0) /\ NibbleHas(l, b3, b2, b1, b0)
      BY <1>1, <1>3, <1>5 DEF NibbleHas
    <2>2. /\ n \in Nibble /\ l \in Nibble
          /\ NibbleHas(XorOfNibbles[n][l], c3, c2, c1, c0)
      BY <1>7, <2>1, NibbleSum
    <2>. QED
      BY <2>2 DEF NibbleHas
  <1>10. a = 16 * m + n /\ b = 16 * k + l
    BY <1>1, <1>2, <1>3, <1>4, <1>5 DEF HasBits, Bit
  <1>11. a \in Octet /\ b \in Octet
    BY <1>8, <1>9, <1>10 DEF Octet, Nibble
  <1>12. a \div 16 = m /\ a % 16 = n /\ b \div 16 = k /\ b % 16 = l
    BY <1>8, <1>9, <1>10 DEF Nibble
  <1>13. Xor[a][b] = 16 * XorOfNibbles[m][k] + XorOfNibbles[n][l]
    BY <1>11, <1>12, XorIs
  <1>14. HasBits(Xor[a][b], c7, c6, c5, c4, c3, c2, c1, c0)
    BY <1>8, <1>9, <1>13 DEF HasBits, Bit
  <1>. QED
    BY <1>6, <1>7, <1>11, <1>14

\* 188 has the bits 7, 5, 4, 3 and 2.
LEMMA ShiftBits ==
    ASSUME NEW o, NEW b7, NEW b6, NEW b5, NEW b4, NEW b3, NEW b2, NEW b1, NEW b0,
           HasBits(o, b7, b6, b5, b4, b3, b2, b1, b0)
    PROVE  HasBits(Crc6Shift[o], (b6 + b7) % 2, b5, (b4 + b7) % 2, (b3 + b7) % 2,
                                 (b2 + b7) % 2, (b1 + b7) % 2, b0, 0)
  <1>1. /\ b7 \in Bit /\ b6 \in Bit /\ b5 \in Bit /\ b4 \in Bit
        /\ b3 \in Bit /\ b2 \in Bit /\ b1 \in Bit /\ b0 \in Bit
        /\ o = 128 * b7 + 64 * b6 + 32 * b5 + 16 * b4 + 8 * b3 + 4 * b2 + 2 * b1 + b0
    BY DEF HasBits
  <1>2. o \in Octet
    BY <1>1 DEF Bit, Octet
  <1>3. CASE b7 = 0
    <2>1. Crc6Shift[o] = 2 * o
      <3>1. ~(o >= 128)
        BY <1>1, <1>3 DEF Bit
      <3>. QED
        BY <1>2, <3>1 DEF Crc6Shift
    <2>2. HasBits(2 * o, b6, b5, b4, b3, b2, b1, b0, 0)
      BY <1>1, <1>3 DEF HasBits, Bit
    <2>3. /\ (b6 + b7) % 2 = b6 /\ (b4 + b7) % 2 = b4 /\ (b3 + b7) % 2 = b3
          /\ (b2 + b7) % 2 = b2 /\ (b1 + b7) % 2 = b1
      BY <1>1, <1>3 DEF Bit
    <2>. QED
      BY <2>1, <2>2, <2>3
  <1>4. CASE b7 = 1
    <2>1. PICK m : m = 2 * o - 256
      OBVIOUS
    <2>2. Crc6Shift[o] = Xor[m][188]
      <3>1. o >= 128
        BY <1>1, <1>4 DEF Bit
      <3>. QED
        BY <1>2, <2>1, <3>1 DEF Crc6Shift
    <2>3. HasBits(m, b6, b5, b4, b3, b2, b1, b0, 0)
      BY <1>1, <1>4, <2>1 DEF HasBits, Bit
    <2>4. HasBits(188, 1, 0, 1, 1, 1, 1, 0, 0)
      BY DEF HasBits, Bit
    <2>5. HasBits(Xor[m][188], (b6 + 1) % 2, (b5 + 0) % 2, (b4 + 1) % 2, (b3 + 1) % 2,
                               (b2 + 1) % 2, (b1 + 1) % 2, (b0 + 0) % 2, (0 + 0) % 2)
      BY <2>3, <2>4, XorBits
    <2>6. (b5 + 0) % 2 = b5 /\ (b0 + 0) % 2 = b0 /\ (0 + 0) % 2 = 0
      BY <1>1 DEF Bit
    <2>. QED
      BY <1>4, <2>2, <2>5, <2>6
  <1>. QED
    BY <1>1, <1>3, <1>4 DEF Bit

LEMMA TableBits ==
    ASSUME NEW o, NEW b7, NEW b6, NEW b5, NEW b4, NEW b3, NEW b2, NEW b1, NEW b0,
           HasBits(o, b7, b6, b5, b4, b3, b2, b1, b0)
    PROVE  TableEntry(o, b7, b6, b5, b4, b3, b2, b1, b0)
  <1>1. /\ b7 \in Bit /\ b6 \in Bit /\ b5 \in Bit /\ b4 \in Bit
        /\ b3 \in Bit /\ b2 \in Bit /\ b1 \in Bit /\ b0 \in Bit
    BY DEF HasBits
  <1>2. PICK x1, x2, x3, x4, x5, x6, x7, x8 :
            /\ x1 = Crc6Shift[o] /\ x2 = Crc6Shift[x1] /\ x3 = Crc6Shift[x2] /\ x4 = Crc6Shift[x3]
            /\ x5 = Crc6Shift[x4] /\ x6 = Crc6Shift[x5] /\ x7 = Crc6Shift[x6] /\ x8 = Crc6Shift[x7]
    OBVIOUS
  <1>3. HasBits(x1, (b6 + b7) % 2, b5, (b4 + b7) % 2, (b3 + b7) % 2, (b2 + b7) % 2,
                (b1 + b7) % 2, b0, 0)
    BY <1>2, ShiftBits
  <1>4. HasBits(x2, (b5 + b6 + b7) % 2, (b4 + b7) % 2, (b3 + b6) % 2, (b2 + b6) % 2,
                (b1 + b6) % 2, (b0 + b6 + b7) % 2, 0, 0)
    <2>1. HasBits(x2, (b5 + ((b6 + b7) % 2)) % 2, (b4 + b7) % 2,
                  (((b3 + b7) % 2) + ((b6 + b7) % 2)) % 2,
                  (((b2 + b7) % 2) + ((b6 + b7) % 2)) % 2,
                  (((b1 + b7) % 2) + ((b6 + b7) % 2)) % 2, (b0 + ((b6 + b7) % 2)) % 2, 0, 0)
      BY <1>3, <1>2, ShiftBits
    <2>2. /\ (b0 + ((b6 + b7) % 2)) % 2 = (b0 + b6 + b7) % 2
          /\ (((b1 + b7) % 2) + ((b6 + b7) % 2)) % 2 = (b1 + b6) % 2
          /\ (((b2 + b7) % 2) + ((b6 + b7) % 2)) % 2 = (b2 + b6) % 2
          /\ (((b3 + b7) % 2) + ((b6 + b7) % 2)) % 2 = (b3 + b6) % 2
          /\ (b5 + ((b6 + b7) % 2)) % 2 = (b5 + b6 + b7) % 2
      BY <1>1, SMT DEF Bit
    <2>. QED
      BY <2>1, <2>2
  <1>5. HasBits(x3, (b4 + b5 + b6) % 2, (b3 + b6) % 2, (b2 + b5 + b7) % 2, (b1 + b5 + b7) % 2,
                (b0 + b5) % 2, (b5 + b6 + b7) % 2, 0, 0)
    <2>1. HasBits(x3, (((b4 + b7) % 2) + ((b5 + b6 + b7) % 2)) % 2, (b3 + b6) % 2,
                  (((b2 + b6) % 2) + ((b5 + b6 + b7) % 2)) % 2,
                  (((b1 + b6) % 2) + ((b5 + b6 + b7) % 2)) % 2,
                  (((b0 + b6 + b7) % 2) + ((b5 + b6 + b7) % 2)) % 2,
                  (0 + ((b5 + b6 + b7) % 2)) % 2, 0, 0)
      BY <1>4, <1>2, ShiftBits
    <2>2. /\ (0 + ((b5 + b6 + b7) % 2)) % 2 = (b5 + b6 + b7) % 2
          /\ (((b0 + b6 + b7) % 2) + ((b5 + b6 + b7) % 2)) % 2 = (b0 + b5) % 2
          /\ (((b1 + b6) % 2) + ((b5 + b6 + b7) % 2)) % 2 = (b1 + b5 + b7) % 2
          /\ (((b2 + b6) % 2) + ((b5 + b6 + b7) % 2)) % 2 = (b2 + b5 + b7) % 2
          /\ (((b4 + b7) % 2) + ((b5 + b6 + b7) % 2)) % 2 = (b4 + b5 + b6) % 2
      BY <1>1, SMT DEF Bit
    <2>. QED
      BY <2>1, <2>2
  <1>6. HasBits(x4, (b3 + b4 + b5) % 2, (b2 + b5 + b7) % 2, (b1 + b4 + b6 + b7) % 2,
                (b0 + b4 + b6) % 2, (b4 + b7) % 2, (b4 + b5 + b6) % 2, 0, 0)
    <2>1. HasBits(x4, (((b3 + b6) % 2) + ((b4 + b5 + b6) % 2)) % 2, (b2 + b5 + b7) % 2,
                  (((b1 + b5 + b7) % 2) + ((b4 + b5 + b6) % 2)) % 2,
                  (((b0 + b5) % 2) + ((b4 + b5 + b6) % 2)) % 2,
                  (((b5 + b6 + b7) % 2) + ((b4 + b5 + b6) % 2)) % 2,
                  (0 + ((b4 + b5 + b6) % 2)) % 2, 0, 0)
      BY <1>5, <1>2, ShiftBits
    <2>2. /\ (0 + ((b4 + b5 + b6) % 2)) % 2 = (b4 + b5 + b6) % 2
          /\ (((b5 + b6 + b7) % 2) + ((b4 + b5 + b6) % 2)) % 2 = (b4 + b7) % 2
          /\ (((b0 + b5) % 2) + ((b4 + b5 + b6) % 2)) % 2 = (b0 + b4 + b6) % 2
          /\ (((b1 + b5 + b7) % 2) + ((b4 + b5 + b6) % 2)) % 2 = (b1 + b4 + b6 + b7) % 2
          /\ (((b3 + b6) % 2) + ((b4 + b5 + b6) % 2)) % 2 = (b3 + b4 + b5) % 2
      BY <1>1, SMT DEF Bit
    <2>. QED
      BY <2>1, <2>2
  <1>7. HasBits(x5, (b2 + b3 + b4 + b7) % 2, (b1 + b4 + b6 + b7) % 2, (b0 + b3 + b5 + b6) % 2,
                (b3 + b5 + b7) % 2, (b3 + b6) % 2, (b3 + b4 + b5) % 2, 0, 0)
    <2>1. HasBits(x5, (((b2 + b5 + b7) % 2) + ((b3 + b4 + b5) % 2)) % 2,
                  (b1 + b4 + b6 + b7) % 2, (((b0 + b4 + b6) % 2) + ((b3 + b4 + b5) % 2)) % 2,
                  (((b4 + b7) % 2) + ((b3 + b4 + b5) % 2)) % 2,
                  (((b4 + b5 + b6) % 2) + ((b3 + b4 + b5) % 2)) % 2,
                  (0 + ((b3 + b4 + b5) % 2)) % 2, 0, 0)
      BY <1>6, <1>2, ShiftBits
    <2>2. /\ (0 + ((b3 + b4 + b5) % 2)) % 2 = (b3 + b4 + b5) % 2
          /\ (((b4 + b5 + b6) % 2) + ((b3 + b4 + b5) % 2)) % 2 = (b3 + b6) % 2
          /\ (((b4 + b7) % 2) + ((b3 + b4 + b5) % 2)) % 2 = (b3 + b5 + b7) % 2
          /\ (((b0 + b4 + b6) % 2) + ((b3 + b4 + b5) % 2)) % 2 = (b0 + b3 + b5 + b6) % 2
          /\ (((b2 + b5 + b7) % 2) + ((b3 + b4 + b5) % 2)) % 2 = (b2 + b3 + b4 + b7) % 2
      BY <1>1, SMT DEF Bit
    <2>. QED
      BY <2>1, <2>2
  <1>8. HasBits(x6, (b1 + b2 + b3 + b6) % 2, (b0 + b3 + b5 + b6) % 2, (b2 + b4 + b5) % 2,
                (b2 + b4 + b6 + b7) % 2, (b2 + b5 + b7) % 2, (b2 + b3 + b4 + b7) % 2, 0, 0)
    <2>1. HasBits(x6, (((b1 + b4 + b6 + b7) % 2) + ((b2 + b3 + b4 + b7) % 2)) % 2,
                  (b0 + b3 + b5 + b6) % 2,
                  (((b3 + b5 + b7) % 2) + ((b2 + b3 + b4 + b7) % 2)) % 2,
                  (((b3 + b6) % 2) + ((b2 + b3 + b4 + b7) % 2)) % 2,
                  (((b3 + b4 + b5) % 2) + ((b2 + b3 + b4 + b7) % 2)) % 2,
                  (0 + ((b2 + b3 + b4 + b7) % 2)) % 2, 0, 0)
      BY <1>7, <1>2, ShiftBits
    <2>2. /\ (0 + ((b2 + b3 + b4 + b7) % 2)) % 2 = (b2 + b3 + b4 + b7) % 2
          /\ (((b3 + b4 + b5) % 2) + ((b2 + b3 + b4 + b7) % 2)) % 2 = (b2 + b5 + b7) % 2
          /\ (((b3 + b6) % 2) + ((b2 + b3 + b4 + b7) % 2)) % 2 = (b2 + b4 + b6 + b7) % 2
          /\ (((b3 + b5 + b7) % 2) + ((b2 + b3 + b4 + b7) % 2)) % 2 = (b2 + b4 + b5) % 2
          /\ (((b1 + b4 + b6 + b7) % 2) + ((b2 + b3 + b4 + b7) % 2)) % 2 = (b1 + b2 + b3 + b6) % 2
      BY <1>1, SMT DEF Bit
    <2>. QED
      BY <2>1, <2>2
  <1>9. HasBits(x7, (b0 + b1 + b2 + b5) % 2, (b2 + b4 + b5) % 2, (b1 + b3 + b4 + b7) % 2,
                (b1 + b3 + b5 + b6 + b7) % 2, (b1 + b4 + b6 + b7) % 2,
                (b1 + b2 + b3 + b6) % 2, 0, 0)
    <2>1. HasBits(x7, (((b0 + b3 + b5 + b6) % 2) + ((b1 + b2 + b3 + b6) % 2)) % 2,
                  (b2 + b4 + b5) % 2,
                  (((b2 + b4 + b6 + b7) % 2) + ((b1 + b2 + b3 + b6) % 2)) % 2,
                  (((b2 + b5 + b7) % 2) + ((b1 + b2 + b3 + b6) % 2)) % 2,
                  (((b2 + b3 + b4 + b7) % 2) + ((b1 + b2 + b3 + b6) % 2)) % 2,
                  (0 + ((b1 + b2 + b3 + b6) % 2)) % 2, 0, 0)
      BY <1>8, <1>2, ShiftBits
    <2>2. /\ (0 + ((b1 + b2 + b3 + b6) % 2)) % 2 = (b1 + b2 + b3 + b6) % 2
          /\ (((b2 + b3 + b4 + b7) % 2) + ((b1 + b2 + b3 + b6) % 2)) % 2 = (b1 + b4 + b6 + b7) % 2
          /\ (((b2 + b5 + b7) % 2) + ((b1 + b2 + b3 + b6) % 2)) % 2 = (b1 + b3 + b5 + b6 + b7) % 2
          /\ (((b2 + b4 + b6 + b7) % 2) + ((b1 + b2 + b3 + b6) % 2)) % 2 = (b1 + b3 + b4 + b7) % 2
          /\ (((b0 + b3 + b5 + b6) % 2) + ((b1 + b2 + b3 + b6) % 2)) % 2 = (b0 + b1 + b2 + b5) % 2
      BY <1>1, SMT DEF Bit
    <2>. QED
      BY <2>1, <2>2
  <1>10. HasBits(x8, (b0 + b1 + b4) % 2, (b1 + b3 + b4 + b7) % 2, (b0 + b2 + b3 + b6 + b7) % 2,
                (b0 + b2 + b4 + b5 + b6 + b7) % 2, (b0 + b3 + b5 + b6) % 2,
                (b0 + b1 + b2 + b5) % 2, 0, 0)
    <2>1. HasBits(x8, (((b2 + b4 + b5) % 2) + ((b0 + b1 + b2 + b5) % 2)) % 2,
                  (b1 + b3 + b4 + b7) % 2,
                  (((b1 + b3 + b5 + b6 + b7) % 2) + ((b0 + b1 + b2 + b5) % 2)) % 2,
                  (((b1 + b4 + b6 + b7) % 2) + ((b0 + b1 + b2 + b5) % 2)) % 2,
                  (((b1 + b2 + b3 + b6) % 2) + ((b0 + b1 + b2 + b5) % 2)) % 2,
                  (0 + ((b0 + b1 + b2 + b5) % 2)) % 2, 0, 0)
      BY <1>9, <1>2, ShiftBits
    <2>2. /\ (0 + ((b0 + b1 + b2 + b5) % 2)) % 2 = (b0 + b1 + b2 + b5) % 2
          /\ (((b1 + b2 + b3 + b6) % 2) + ((b0 + b1 + b2 + b5) % 2)) % 2 = (b0 + b3 + b5 + b6) % 2
          /\ (((b1 + b4 + b6 + b7) % 2) + ((b0 + b1 + b2 + b5) % 2)) % 2 = (b0 + b2 + b4 + b5 + b6 + b7) % 2
          /\ (((b1 + b3 + b5 + b6 + b7) % 2) + ((b0 + b1 + b2 + b5) % 2)) % 2 = (b0 + b2 + b3 + b6 + b7) % 2
          /\ (((b2 + b4 + b5) % 2) + ((b0 + b1 + b2 + b5) % 2)) % 2 = (b0 + b1 + b4) % 2
      BY <1>1, SMT DEF Bit
    <2>. QED
      BY <2>1, <2>2, SMTT(30)
  <1>11. EightTimes(o) = x8
    BY <1>2 DEF EightTimes
  <1>12. o \in Octet
    BY <1>1 DEF HasBits, Bit, Octet
  <1>13. Crc6Table[o] = x8 \div 4
    BY <1>11, <1>12, Crc6TableIs
  <1>. QED
    <2>. DEFINE c7 == (b0 + b1 + b4) % 2
                c6 == (b1 + b3 + b4 + b7) % 2
                c5 == (b0 + b2 + b3 + b6 + b7) % 2
                c4 == (b0 + b2 + b4 + b5 + b6 + b7) % 2
                c3 == (b0 + b3 + b5 + b6) % 2
                c2 == (b0 + b1 + b2 + b5) % 2
    <2>1. /\ x8 = 128 * c7 + 64 * c6 + 32 * c5 + 16 * c4 + 8 * c3 + 4 * c2
          /\ c7 \in Bit /\ c6 \in Bit /\ c5 \in Bit /\ c4 \in Bit /\ c3 \in Bit /\ c2 \in Bit
      BY <1>10, SMT DEF HasBits, Bit
    <2>2. TableEntry(o, b7, b6, b5, b4, b3, b2, b1, b0) <=>
              Crc6Table[o] = 32 * c7 + 16 * c6 + 8 * c5 + 4 * c4 + 2 * c3 + c2
      BY DEF TableEntry
    <2>. HIDE DEF c7, c6, c5, c4, c3, c2
    <2>. QED
      BY <1>13, <2>1, <2>2 DEF Bit

-----------------------------------------------------------------------------
\* Octets under XOR are a group, and the CRC's table respects it.

LEMMA BitSums ==
    ASSUME NEW a \in Bit, NEW b \in Bit, NEW c \in Bit
    PROVE  /\ (a + b) % 2 \in Bit /\ (a + b) % 2 = (b + a) % 2
           /\ (a + a) % 2 = 0 /\ (a + 0) % 2 = a
           /\ (((a + b) % 2) + c) % 2 = (a + ((b + c) % 2)) % 2
  BY DEF Bit

LEMMA XorLaws ==
    ASSUME NEW a \in Octet, NEW b \in Octet, NEW c \in Octet
    PROVE  /\ Xor[a][b] \in Octet /\ Xor[a][b] = Xor[b][a]
           /\ Xor[a][a] = 0 /\ Xor[a][0] = a
           /\ Xor[Xor[a][b]][c] = Xor[a][Xor[b][c]]
  <1>1. PICK a7, a6, a5, a4, a3, a2, a1, a0 : HasBits(a, a7, a6, a5, a4, a3, a2, a1, a0)
    BY OctetBits
  <1>2. PICK b7, b6, b5, b4, b3, b2, b1, b0 : HasBits(b, b7, b6, b5, b4, b3, b2, b1, b0)
    BY OctetBits
  <1>3. PICK c7, c6, c5, c4, c3, c2, c1, c0 : HasBits(c, c7, c6, c5, c4, c3, c2, c1, c0)
    BY OctetBits
  <1>4. /\ a7 \in Bit /\ a6 \in Bit /\ a5 \in Bit /\ a4 \in Bit
        /\ a3 \in Bit /\ a2 \in Bit /\ a1 \in Bit /\ a0 \in Bit
        /\ b7 \in Bit /\ b6 \in Bit /\ b5 \in Bit /\ b4 \in Bit
        /\ b3 \in Bit /\ b2 \in Bit /\ b1 \in Bit /\ b0 \in Bit
        /\ c7 \in Bit /\ c6 \in Bit /\ c5 \in Bit /\ c4 \in Bit
        /\ c3 \in Bit /\ c2 \in Bit /\ c1 \in Bit /\ c0 \in Bit
    BY <1>1, <1>2, <1>3 DEF HasBits
  <1>. DEFINE Plus(x, y) == (x + y) % 2
  <1>5. \A x, y, z \in Bit : /\ Plus(x, y) \in Bit /\ Plus(x, y) = Plus(y, x)
                             /\ Plus(x, x) = 0 /\ Plus(x, 0) = x
                             /\ Plus(Plus(x, y), z) = Plus(x, Plus(y, z))
    BY BitSums
  <1>6. \A o, p, o7, o6, o5, o4, o3, o2, o1, o0, p7, p6, p5, p4, p3, p2, p1, p0 :
            HasBits(o, o7, o6, o5, o4, o3, o2, o1, o0) /\ HasBits(p, p7, p6, p5, p4, p3, p2, p1, p0)
            => HasBits(Xor[o][p], Plus(o7, p7), Plus(o6, p6), Plus(o5, p5), Plus(o4, p4),
                                  Plus(o3, p3), Plus(o2, p2), Plus(o1, p1), Plus(o0, p0))
    BY XorBits
  <1>. HIDE DEF Plus
  <1>7. \A o, p, o7, o6, o5, o4, o3, o2, o1, o0 :
            HasBits(o, o7, o6, o5, o4, o3, o2, o1, o0) /\ HasBits(p, o7, o6, o5, o4, o3, o2, o1, o0)
            => o = p
    BY DEF HasBits
  <1>8. Xor[a][b] \in Octet
    BY XorIs
  <1>9. Xor[a][b] = Xor[b][a]
    <2>1. HasBits(Xor[a][b], Plus(a7, b7), Plus(a6, b6), Plus(a5, b5), Plus(a4, b4),
                             Plus(a3, b3), Plus(a2, b2), Plus(a1, b1), Plus(a0, b0))
      BY <1>1, <1>2, <1>6
    <2>2. HasBits(Xor[b][a], Plus(b7, a7), Plus(b6, a6), Plus(b5, a5), Plus(b4, a4),
                             Plus(b3, a3), Plus(b2, a2), Plus(b1, a1), Plus(b0, a0))
      BY <1>1, <1>2, <1>6
    <2>3. /\ Plus(a7, b7) = Plus(b7, a7) /\ Plus(a6, b6) = Plus(b6, a6)
          /\ Plus(a5, b5) = Plus(b5, a5) /\ Plus(a4, b4) = Plus(b4, a4)
          /\ Plus(a3, b3) = Plus(b3, a3) /\ Plus(a2, b2) = Plus(b2, a2)
          /\ Plus(a1, b1) = Plus(b1, a1) /\ Plus(a0, b0) = Plus(b0, a0)
      BY <1>4, <1>5
    <2>. QED
      BY <1>7, <2>1, <2>2, <2>3
  <1>10. HasBits(0, 0, 0, 0, 0, 0, 0, 0, 0)
    BY DEF HasBits, Bit
  <1>11. Xor[a][a] = 0
    <2>1. HasBits(Xor[a][a], Plus(a7, a7), Plus(a6, a6), Plus(a5, a5), Plus(a4, a4),
                             Plus(a3, a3), Plus(a2, a2), Plus(a1, a1), Plus(a0, a0))
      BY <1>1, <1>6
    <2>2. /\ Plus(a7, a7) = 0 /\ Plus(a6, a6) = 0 /\ Plus(a5, a5) = 0 /\ Plus(a4, a4) = 0
          /\ Plus(a3, a3) = 0 /\ Plus(a2, a2) = 0 /\ Plus(a1, a1) = 0 /\ Plus(a0, a0) = 0
      BY <1>4, <1>5
    <2>. QED
      BY <1>7, <1>10, <2>1, <2>2
  <1>12. Xor[a][0] = a
    <2>1. HasBits(Xor[a][0], Plus(a7, 0), Plus(a6, 0), Plus(a5, 0), Plus(a4, 0),
                             Plus(a3, 0), Plus(a2, 0), Plus(a1, 0), Plus(a0, 0))
      BY <1>1, <1>6, <1>10
    <2>2. /\ Plus(a7, 0) = a7 /\ Plus(a6, 0) = a6 /\ Plus(a5, 0) = a5 /\ Plus(a4, 0) = a4
          /\ Plus(a3, 0) = a3 /\ Plus(a2, 0) = a2 /\ Plus(a1, 0) = a1 /\ Plus(a0, 0) = a0
      BY <1>4, <1>5
    <2>. QED
      BY <1>1, <1>7, <2>1, <2>2
  <1>13. Xor[Xor[a][b]][c] = Xor[a][Xor[b][c]]
    <2>1. HasBits(Xor[a][b], Plus(a7, b7), Plus(a6, b6), Plus(a5, b5), Plus(a4, b4),
                             Plus(a3, b3), Plus(a2, b2), Plus(a1, b1), Plus(a0, b0))
      BY <1>1, <1>2, <1>6
    <2>2. HasBits(Xor[b][c], Plus(b7, c7), Plus(b6, c6), Plus(b5, c5), Plus(b4, c4),
                             Plus(b3, c3), Plus(b2, c2), Plus(b1, c1), Plus(b0, c0))
      BY <1>2, <1>3, <1>6
    <2>3. HasBits(Xor[Xor[a][b]][c],
                  Plus(Plus(a7, b7), c7), Plus(Plus(a6, b6), c6), Plus(Plus(a5, b5), c5),
                  Plus(Plus(a4, b4), c4), Plus(Plus(a3, b3), c3), Plus(Plus(a2, b2), c2),
                  Plus(Plus(a1, b1), c1), Plus(Plus(a0, b0), c0))
      BY <1>3, <1>6, <2>1
    <2>4. HasBits(Xor[a][Xor[b][c]],
                  Plus(a7, Plus(b7, c7)), Plus(a6, Plus(b6, c6)), Plus(a5, Plus(b5, c5)),
                  Plus(a4, Plus(b4, c4)), Plus(a3, Plus(b3, c3)), Plus(a2, Plus(b2, c2)),
                  Plus(a1, Plus(b1, c1)), Plus(a0, Plus(b0, c0)))
      BY <1>1, <1>6, <2>2
    <2>. DEFINE Same(x, y, z) == Plus(Plus(x, y), z) = Plus(x, Plus(y, z))
    <2>5. \A x, y, z \in Bit : Same(x, y, z)
      BY <1>5
    <2>6. /\ Same(a7, b7, c7) /\ Same(a6, b6, c6) /\ Same(a5, b5, c5)
          /\ Same(a4, b4, c4) /\ Same(a3, b3, c3) /\ Same(a2, b2, c2)
          /\ Same(a1, b1, c1) /\ Same(a0, b0, c0)
      <3>. HIDE DEF Same
      <3>. QED
        BY <1>4, <2>5
    <2>. QED
      BY <1>7, <2>3, <2>4, <2>6
  <1>. QED
    BY <1>8, <1>9, <1>11, <1>12, <1>13

LEMMA EntryIs ==
    ASSUME NEW o, NEW b7, NEW b6, NEW b5, NEW b4, NEW b3, NEW b2, NEW b1, NEW b0,
           HasBits(o, b7, b6, b5, b4, b3, b2, b1, b0)
    PROVE  /\ o \in Octet /\ Crc6Table[o] \in Remainder
           /\ EntryBits(o, b7, b6, b5, b4, b3, b2, b1, b0)
  <1>1. /\ b7 \in Bit /\ b6 \in Bit /\ b5 \in Bit /\ b4 \in Bit
        /\ b3 \in Bit /\ b2 \in Bit /\ b1 \in Bit /\ b0 \in Bit
    BY DEF HasBits
  <1>2. TableEntry(o, b7, b6, b5, b4, b3, b2, b1, b0)
    BY TableBits
  <1>3. PICK c5 \in Bit, c4 \in Bit, c3 \in Bit, c2 \in Bit, c1 \in Bit, c0 \in Bit :
            /\ c5 = (b0 + b1 + b4) % 2 /\ c4 = (b1 + b3 + b4 + b7) % 2
            /\ c3 = (b0 + b2 + b3 + b6 + b7) % 2 /\ c2 = (b0 + b2 + b4 + b5 + b6 + b7) % 2
            /\ c1 = (b0 + b3 + b5 + b6) % 2 /\ c0 = (b0 + b1 + b2 + b5) % 2
    BY <1>1 DEF Bit
  <1>4. Crc6Table[o] = 32 * c5 + 16 * c4 + 8 * c3 + 4 * c2 + 2 * c1 + c0
    BY <1>2, <1>3 DEF TableEntry
  <1>5. HasBits(Crc6Table[o], 0, 0, c5, c4, c3, c2, c1, c0)
    BY <1>4 DEF HasBits, Bit
  <1>6. o \in Octet
    BY <1>1 DEF HasBits, Bit, Octet
  <1>7. Crc6Table[o] \in Remainder
    BY <1>4 DEF Bit, Remainder
  <1>. QED
    BY <1>3, <1>5, <1>6, <1>7 DEF EntryBits

\* The octets that leave no remainder: the polynomial, its double, and their sum
LEMMA NoRemainder ==
    ASSUME NEW o \in Octet, Crc6Table[o] = 0
    PROVE  o \in {0, 111, 177, 222}
  <1>1. PICK b7, b6, b5, b4, b3, b2, b1, b0 : HasBits(o, b7, b6, b5, b4, b3, b2, b1, b0)
    BY OctetBits
  <1>2. /\ b7 \in Bit /\ b6 \in Bit /\ b5 \in Bit /\ b4 \in Bit
        /\ b3 \in Bit /\ b2 \in Bit /\ b1 \in Bit /\ b0 \in Bit
        /\ o = 128 * b7 + 64 * b6 + 32 * b5 + 16 * b4 + 8 * b3 + 4 * b2 + 2 * b1 + b0
    BY <1>1 DEF HasBits
  <1>3. EntryBits(o, b7, b6, b5, b4, b3, b2, b1, b0)
    BY <1>1, EntryIs
  <1>4. PICK c5 \in Bit, c4 \in Bit, c3 \in Bit, c2 \in Bit, c1 \in Bit, c0 \in Bit :
            /\ c5 = (b0 + b1 + b4) % 2 /\ c4 = (b1 + b3 + b4 + b7) % 2
            /\ c3 = (b0 + b2 + b3 + b6 + b7) % 2 /\ c2 = (b0 + b2 + b4 + b5 + b6 + b7) % 2
            /\ c1 = (b0 + b3 + b5 + b6) % 2 /\ c0 = (b0 + b1 + b2 + b5) % 2
    BY <1>2 DEF Bit
  <1>5. HasBits(0, 0, 0, c5, c4, c3, c2, c1, c0)
    BY <1>3, <1>4 DEF EntryBits
  <1>6. c5 = 0 /\ c4 = 0 /\ c3 = 0 /\ c2 = 0 /\ c1 = 0 /\ c0 = 0
    BY <1>5 DEF HasBits, Bit
  <1>7. /\ (b0 + b1 + b4) % 2 = 0 /\ (b1 + b3 + b4 + b7) % 2 = 0
        /\ (b0 + b2 + b3 + b6 + b7) % 2 = 0 /\ (b0 + b2 + b4 + b5 + b6 + b7) % 2 = 0
        /\ (b0 + b3 + b5 + b6) % 2 = 0 /\ (b0 + b1 + b2 + b5) % 2 = 0
    BY <1>4, <1>6
  <1>. QED
    BY <1>2, <1>7, SMTT(60) DEF Bit

\* The table of a sum is the sum of the table's entries.
LEMMA EntrySum ==
    ASSUME NEW a \in Octet, NEW b \in Octet
    PROVE  Crc6Table[Xor[a][b]] = Xor[Crc6Table[a]][Crc6Table[b]]
  <1>1. PICK a7, a6, a5, a4, a3, a2, a1, a0 : HasBits(a, a7, a6, a5, a4, a3, a2, a1, a0)
    BY OctetBits
  <1>2. PICK b7, b6, b5, b4, b3, b2, b1, b0 : HasBits(b, b7, b6, b5, b4, b3, b2, b1, b0)
    BY OctetBits
  <1>3. /\ a7 \in Bit /\ a6 \in Bit /\ a5 \in Bit /\ a4 \in Bit
        /\ a3 \in Bit /\ a2 \in Bit /\ a1 \in Bit /\ a0 \in Bit
        /\ b7 \in Bit /\ b6 \in Bit /\ b5 \in Bit /\ b4 \in Bit
        /\ b3 \in Bit /\ b2 \in Bit /\ b1 \in Bit /\ b0 \in Bit
    BY <1>1, <1>2 DEF HasBits
  <1>4. PICK s7 \in Bit, s6 \in Bit, s5 \in Bit, s4 \in Bit :
            /\ s7 = (a7 + b7) % 2 /\ s6 = (a6 + b6) % 2
            /\ s5 = (a5 + b5) % 2 /\ s4 = (a4 + b4) % 2
    BY <1>3 DEF Bit
  <1>5. PICK s3 \in Bit, s2 \in Bit, s1 \in Bit, s0 \in Bit :
            /\ s3 = (a3 + b3) % 2 /\ s2 = (a2 + b2) % 2
            /\ s1 = (a1 + b1) % 2 /\ s0 = (a0 + b0) % 2
    BY <1>3 DEF Bit
  <1>6. HasBits(Xor[a][b], s7, s6, s5, s4, s3, s2, s1, s0)
    BY <1>1, <1>2, <1>4, <1>5, XorBits
  <1>7. /\ EntryBits(a, a7, a6, a5, a4, a3, a2, a1, a0)
        /\ EntryBits(b, b7, b6, b5, b4, b3, b2, b1, b0)
        /\ EntryBits(Xor[a][b], s7, s6, s5, s4, s3, s2, s1, s0)
    BY <1>1, <1>2, <1>6, EntryIs
  <1>8. PICK c5 \in Bit, c4 \in Bit, c3 \in Bit, c2 \in Bit, c1 \in Bit, c0 \in Bit :
            /\ c5 = (a0 + a1 + a4) % 2
            /\ c4 = (a1 + a3 + a4 + a7) % 2
            /\ c3 = (a0 + a2 + a3 + a6 + a7) % 2
            /\ c2 = (a0 + a2 + a4 + a5 + a6 + a7) % 2
            /\ c1 = (a0 + a3 + a5 + a6) % 2
            /\ c0 = (a0 + a1 + a2 + a5) % 2
    BY <1>3, <1>4, <1>5 DEF Bit
  <1>9. HasBits(Crc6Table[a], 0, 0, c5, c4, c3, c2, c1, c0)
    BY <1>7, <1>8 DEF EntryBits
  <1>10. PICK d5 \in Bit, d4 \in Bit, d3 \in Bit, d2 \in Bit, d1 \in Bit, d0 \in Bit :
            /\ d5 = (b0 + b1 + b4) % 2
            /\ d4 = (b1 + b3 + b4 + b7) % 2
            /\ d3 = (b0 + b2 + b3 + b6 + b7) % 2
            /\ d2 = (b0 + b2 + b4 + b5 + b6 + b7) % 2
            /\ d1 = (b0 + b3 + b5 + b6) % 2
            /\ d0 = (b0 + b1 + b2 + b5) % 2
    BY <1>3, <1>4, <1>5 DEF Bit
  <1>11. HasBits(Crc6Table[b], 0, 0, d5, d4, d3, d2, d1, d0)
    BY <1>7, <1>10 DEF EntryBits
  <1>12. PICK e5 \in Bit, e4 \in Bit, e3 \in Bit, e2 \in Bit, e1 \in Bit, e0 \in Bit :
            /\ e5 = (s0 + s1 + s4) % 2
            /\ e4 = (s1 + s3 + s4 + s7) % 2
            /\ e3 = (s0 + s2 + s3 + s6 + s7) % 2
            /\ e2 = (s0 + s2 + s4 + s5 + s6 + s7) % 2
            /\ e1 = (s0 + s3 + s5 + s6) % 2
            /\ e0 = (s0 + s1 + s2 + s5) % 2
    BY <1>3, <1>4, <1>5 DEF Bit
  <1>13. HasBits(Crc6Table[Xor[a][b]], 0, 0, e5, e4, e3, e2, e1, e0)
    BY <1>7, <1>12 DEF EntryBits
  <1>14. HasBits(Xor[Crc6Table[a]][Crc6Table[b]], (0 + 0) % 2, (0 + 0) % 2, (c5 + d5) % 2, (c4 + d4) % 2, (c3 + d3) % 2, (c2 + d2) % 2, (c1 + d1) % 2, (c0 + d0) % 2)
    BY <1>9, <1>11, XorBits
  <1>15. (0 + 0) % 2 = 0
    OBVIOUS
  <1>16. (c5 + d5) % 2 = e5
    <2>1. e5 = (((a0 + b0) % 2) + ((a1 + b1) % 2) + ((a4 + b4) % 2)) % 2
      BY <1>4, <1>5, <1>12
    <2>. QED
      BY <1>3, <1>8, <1>10, <2>1, SMTT(60) DEF Bit
  <1>17. (c4 + d4) % 2 = e4
    <2>1. e4 = (((a1 + b1) % 2) + ((a3 + b3) % 2) + ((a4 + b4) % 2) + ((a7 + b7) % 2)) % 2
      BY <1>4, <1>5, <1>12
    <2>. QED
      BY <1>3, <1>8, <1>10, <2>1, SMTT(60) DEF Bit
  <1>18. (c3 + d3) % 2 = e3
    <2>1. e3 = (((a0 + b0) % 2) + ((a2 + b2) % 2) + ((a3 + b3) % 2) + ((a6 + b6) % 2) + ((a7 + b7) % 2)) % 2
      BY <1>4, <1>5, <1>12
    <2>. QED
      BY <1>3, <1>8, <1>10, <2>1, SMTT(60) DEF Bit
  <1>19. (c2 + d2) % 2 = e2
    <2>1. e2 = (((a0 + b0) % 2) + ((a2 + b2) % 2) + ((a4 + b4) % 2) + ((a5 + b5) % 2) + ((a6 + b6) % 2) + ((a7 + b7) % 2)) % 2
      BY <1>4, <1>5, <1>12
    <2>. QED
      BY <1>3, <1>8, <1>10, <2>1, SMTT(60) DEF Bit
  <1>20. (c1 + d1) % 2 = e1
    <2>1. e1 = (((a0 + b0) % 2) + ((a3 + b3) % 2) + ((a5 + b5) % 2) + ((a6 + b6) % 2)) % 2
      BY <1>4, <1>5, <1>12
    <2>. QED
      BY <1>3, <1>8, <1>10, <2>1, SMTT(60) DEF Bit
  <1>21. (c0 + d0) % 2 = e0
    <2>1. e0 = (((a0 + b0) % 2) + ((a1 + b1) % 2) + ((a2 + b2) % 2) + ((a5 + b5) % 2)) % 2
      BY <1>4, <1>5, <1>12
    <2>. QED
      BY <1>3, <1>8, <1>10, <2>1, SMTT(60) DEF Bit
  <1>22. HasBits(Xor[Crc6Table[a]][Crc6Table[b]], 0, 0, e5, e4, e3, e2, e1, e0)
    BY <1>14, <1>15, <1>16, <1>17, <1>18, <1>19, <1>20, <1>21
  <1>. QED
    BY <1>13, <1>22 DEF HasBits

LEMMA RemainderBits ==
    ASSUME NEW c \in Remainder
    PROVE  /\ c \in Octet /\ 4 * c \in Octet
           /\ \E b5, b4, b3, b2, b1, b0 : /\ HasBits(c, 0, 0, b5, b4, b3, b2, b1, b0)
                                         /\ HasBits(4 * c, b5, b4, b3, b2, b1, b0, 0, 0)
  <1>1. c \in Octet /\ 4 * c \in Octet
    BY DEF Remainder, Octet
  <1>2. PICK b7, b6, b5, b4, b3, b2, b1, b0 : HasBits(c, b7, b6, b5, b4, b3, b2, b1, b0)
    BY <1>1, OctetBits
  <1>3. /\ b7 \in Bit /\ b6 \in Bit /\ b5 \in Bit /\ b4 \in Bit
        /\ b3 \in Bit /\ b2 \in Bit /\ b1 \in Bit /\ b0 \in Bit
        /\ c = 128 * b7 + 64 * b6 + 32 * b5 + 16 * b4 + 8 * b3 + 4 * b2 + 2 * b1 + b0
    BY <1>2 DEF HasBits
  <1>4. b7 = 0 /\ b6 = 0
    BY <1>3 DEF Bit, Remainder
  <1>5. HasBits(4 * c, b5, b4, b3, b2, b1, b0, 0, 0)
    BY <1>3, <1>4 DEF HasBits, Bit
  <1>. QED
    BY <1>1, <1>2, <1>4, <1>5

LEMMA Quadruple ==
    ASSUME NEW c \in Remainder, NEW d \in Remainder
    PROVE  /\ 4 * c \in Octet /\ 4 * d \in Octet
           /\ Xor[c][d] \in Remainder /\ 4 * Xor[c][d] = Xor[4 * c][4 * d]
  <1>1. PICK a5, a4, a3, a2, a1, a0 :
            /\ HasBits(c, 0, 0, a5, a4, a3, a2, a1, a0)
            /\ HasBits(4 * c, a5, a4, a3, a2, a1, a0, 0, 0)
    BY RemainderBits
  <1>2. PICK b5, b4, b3, b2, b1, b0 :
            /\ HasBits(d, 0, 0, b5, b4, b3, b2, b1, b0)
            /\ HasBits(4 * d, b5, b4, b3, b2, b1, b0, 0, 0)
    BY RemainderBits
  <1>3. /\ a5 \in Bit /\ a4 \in Bit /\ a3 \in Bit /\ a2 \in Bit /\ a1 \in Bit /\ a0 \in Bit
        /\ b5 \in Bit /\ b4 \in Bit /\ b3 \in Bit /\ b2 \in Bit /\ b1 \in Bit /\ b0 \in Bit
    BY <1>1, <1>2 DEF HasBits
  <1>4. PICK s5 \in Bit, s4 \in Bit, s3 \in Bit, s2 \in Bit, s1 \in Bit, s0 \in Bit :
            /\ s5 = (a5 + b5) % 2 /\ s4 = (a4 + b4) % 2 /\ s3 = (a3 + b3) % 2
            /\ s2 = (a2 + b2) % 2 /\ s1 = (a1 + b1) % 2 /\ s0 = (a0 + b0) % 2
    BY <1>3 DEF Bit
  <1>5. (0 + 0) % 2 = 0
    OBVIOUS
  <1>6. HasBits(Xor[c][d], 0, 0, s5, s4, s3, s2, s1, s0)
    <2>1. HasBits(Xor[c][d], (0 + 0) % 2, (0 + 0) % 2, (a5 + b5) % 2, (a4 + b4) % 2,
                  (a3 + b3) % 2, (a2 + b2) % 2, (a1 + b1) % 2, (a0 + b0) % 2)
      BY <1>1, <1>2, XorBits
    <2>. QED
      BY <1>4, <1>5, <2>1
  <1>7. HasBits(Xor[4 * c][4 * d], s5, s4, s3, s2, s1, s0, 0, 0)
    <2>1. HasBits(Xor[4 * c][4 * d], (a5 + b5) % 2, (a4 + b4) % 2, (a3 + b3) % 2,
                  (a2 + b2) % 2, (a1 + b1) % 2, (a0 + b0) % 2, (0 + 0) % 2, (0 + 0) % 2)
      BY <1>1, <1>2, XorBits
    <2>. QED
      BY <1>4, <1>5, <2>1
  <1>8. 4 * c \in Octet /\ 4 * d \in Octet
    BY DEF Remainder, Octet
  <1>9. Xor[c][d] \in Remainder
    <2>1. Xor[c][d] = 32 * s5 + 16 * s4 + 8 * s3 + 4 * s2 + 2 * s1 + s0
      BY <1>4, <1>6 DEF HasBits, Bit
    <2>2. PICK n : n = Xor[c][d]
      OBVIOUS
    <2>3. n \in Remainder
      BY <2>1, <2>2 DEF Bit, Remainder
    <2>. QED
      BY <2>2, <2>3
  <1>10. 4 * Xor[c][d] = Xor[4 * c][4 * d]
    BY <1>4, <1>6, <1>7 DEF HasBits, Bit
  <1>. QED
    BY <1>8, <1>9, <1>10

\* Octets with the same sum with another one are the same.
LEMMA XorCancels ==
    ASSUME NEW a \in Octet, NEW b \in Octet
    PROVE  /\ Xor[Xor[a][b]][b] = a /\ Xor[Xor[a][b]][a] = b
           /\ Xor[a][b] = 0 => a = b
  <1>1. /\ Xor[a][b] \in Octet /\ 0 \in Octet
    <2>1. 0 \in Octet
      BY DEF Octet
    <2>. QED
      BY <2>1, XorIs
  <1>2. Xor[Xor[a][b]][b] = a
    <2>1. Xor[Xor[a][b]][b] = Xor[a][Xor[b][b]]
      BY XorLaws
    <2>. QED
      BY <2>1, XorLaws
  <1>3. Xor[Xor[a][b]][a] = b
    <2>1. Xor[a][b] = Xor[b][a]
      BY XorLaws
    <2>2. Xor[Xor[b][a]][a] = Xor[b][Xor[a][a]]
      BY XorLaws
    <2>3. Xor[b][Xor[a][a]] = b
      BY XorLaws
    <2>. QED
      BY <2>1, <2>2, <2>3
  <1>4. ASSUME Xor[a][b] = 0 PROVE a = b
    <2>1. Xor[0][b] = Xor[b][0]
      BY <1>1, XorLaws
    <2>2. Xor[b][0] = b
      BY XorLaws
    <2>. QED
      BY <1>2, <1>4, <2>1, <2>2
  <1>. QED
    BY <1>2, <1>3, <1>4, Zenon

\* Octets whose table entries are the same differ by what leaves no remainder.
LEMMA SameEntry ==
    ASSUME NEW a \in Octet, NEW b \in Octet, Crc6Table[a] = Crc6Table[b]
    PROVE  Xor[a][b] \in {0, 111, 177, 222}
  <1>1. Xor[a][b] \in Octet
    BY XorLaws
  <1>2. Crc6Table[a] \in Octet
    <2>1. Crc6Table[a] = EightTimes(a) \div 4 /\ EightTimes(a) \in Octet
      BY Crc6TableIs
    <2>. QED
      BY <2>1 DEF Octet
  <1>3. Crc6Table[Xor[a][b]] = Xor[Crc6Table[a]][Crc6Table[a]]
    BY EntrySum
  <1>4. Crc6Table[Xor[a][b]] = 0
    BY <1>2, <1>3, XorLaws
  <1>. QED
    BY <1>1, <1>4, NoRemainder

\* Remainders that differ keep differing.
LEMMA StaysApart ==
    ASSUME NEW c \in Remainder, NEW d \in Remainder, c # d, NEW o \in Octet
    PROVE  Crc6Step(c, o) # Crc6Step(d, o)
  <1>1. SUFFICES ASSUME Crc6Step(c, o) = Crc6Step(d, o) PROVE FALSE
    OBVIOUS
  <1>2. /\ 4 * c \in Octet /\ 4 * d \in Octet
        /\ Xor[c][d] \in Remainder /\ 4 * Xor[c][d] = Xor[4 * c][4 * d]
    BY Quadruple
  <1>3. PICK e \in Remainder : e = Xor[c][d]
    BY <1>2
  <1>4. PICK x \in Octet : x = Xor[4 * c][o]
    BY <1>2, XorLaws
  <1>5. PICK y \in Octet : y = Xor[4 * d][o]
    BY <1>2, XorLaws
  <1>6. Xor[x][y] \in {0, 111, 177, 222}
    BY <1>1, <1>4, <1>5, SameEntry DEF Crc6Step
  <1>7. Xor[x][y] = Xor[4 * c][4 * d]
    <2>1. y = Xor[o][4 * d]
      BY <1>2, <1>5, XorLaws
    <2>2. Xor[x][y] = Xor[Xor[x][o]][4 * d]
      BY <1>2, <2>1, XorLaws
    <2>3. Xor[x][o] = 4 * c
      BY <1>2, <1>4, XorCancels
    <2>. QED
      BY <2>2, <2>3
  <1>8. e = 0
    <2>1. 4 * e \in {0, 111, 177, 222}
      BY <1>2, <1>3, <1>6, <1>7
    <2>. QED
      BY <2>1 DEF Remainder
  <1>9. c \in Octet /\ d \in Octet
    BY DEF Remainder, Octet
  <1>10. Xor[c][d] = 0 => c = d
    BY <1>9, XorCancels
  <1>. QED
    BY <1>3, <1>8, <1>10

-----------------------------------------------------------------------------
\* A burst of damage.

LEMMA FewBits ==
    ASSUME NEW e \in 1 .. 31
    PROVE  /\ e < 2 => (4 * Crc6Table[e]) % 8 # 0
           /\ e < 4 => (4 * Crc6Table[e]) % 16 # 0
           /\ e < 8 => (4 * Crc6Table[e]) % 32 # 0
           /\ e < 16 => (4 * Crc6Table[e]) % 64 # 0
           /\ (4 * Crc6Table[e]) % 128 # 0
  <1>1. e \in Octet
    BY DEF Octet
  <1>2. PICK b7, b6, b5, b4, b3, b2, b1, b0 : HasBits(e, b7, b6, b5, b4, b3, b2, b1, b0)
    BY <1>1, OctetBits
  <1>3. /\ b7 \in Bit /\ b6 \in Bit /\ b5 \in Bit /\ b4 \in Bit
        /\ b3 \in Bit /\ b2 \in Bit /\ b1 \in Bit /\ b0 \in Bit
        /\ e = 128 * b7 + 64 * b6 + 32 * b5 + 16 * b4 + 8 * b3 + 4 * b2 + 2 * b1 + b0
    BY <1>2 DEF HasBits
  <1>4. b7 = 0 /\ b6 = 0 /\ b5 = 0 /\ e = 16 * b4 + 8 * b3 + 4 * b2 + 2 * b1 + b0
    BY <1>3 DEF Bit
  <1>5. EntryBits(e, 0, 0, 0, b4, b3, b2, b1, b0)
    BY <1>2, <1>4, EntryIs
  <1>6. PICK c5 \in Bit, c4 \in Bit, c3 \in Bit, c2 \in Bit, c1 \in Bit, c0 \in Bit :
            /\ c5 = (b0 + b1 + b4) % 2 /\ c4 = (b1 + b3 + b4 + 0) % 2
            /\ c3 = (b0 + b2 + b3 + 0 + 0) % 2 /\ c2 = (b0 + b2 + b4 + 0 + 0 + 0) % 2
            /\ c1 = (b0 + b3 + 0 + 0) % 2 /\ c0 = (b0 + b1 + b2 + 0) % 2
    BY <1>3 DEF Bit
  <1>7. HasBits(Crc6Table[e], 0, 0, c5, c4, c3, c2, c1, c0)
    BY <1>5, <1>6 DEF EntryBits
  <1>8. PICK q : q = 4 * Crc6Table[e]
    OBVIOUS
  <1>9. q = 128 * c5 + 64 * c4 + 32 * c3 + 16 * c2 + 8 * c1 + 4 * c0
    BY <1>7, <1>8 DEF HasBits, Bit
  <1>10. /\ q % 8 = 0 => c0 = 0
         /\ q % 16 = 0 => c0 = 0 /\ c1 = 0
         /\ q % 32 = 0 => c0 = 0 /\ c1 = 0 /\ c2 = 0
         /\ q % 64 = 0 => c0 = 0 /\ c1 = 0 /\ c2 = 0 /\ c3 = 0
         /\ q % 128 = 0 => c0 = 0 /\ c1 = 0 /\ c2 = 0 /\ c3 = 0 /\ c4 = 0
    BY <1>9 DEF Bit
  <1>11. e < 2 => c0 # 0
    BY <1>3, <1>4, <1>6 DEF Bit
  <1>12. e < 4 => c0 # 0 \/ c1 # 0
    BY <1>3, <1>4, <1>6 DEF Bit
  <1>13. e < 8 => c0 # 0 \/ c1 # 0 \/ c2 # 0
    BY <1>3, <1>4, <1>6 DEF Bit
  <1>14. e < 16 => c0 # 0 \/ c1 # 0 \/ c2 # 0 \/ c3 # 0
    BY <1>3, <1>4, <1>6 DEF Bit
  <1>15. c0 # 0 \/ c1 # 0 \/ c2 # 0 \/ c3 # 0 \/ c4 # 0
    BY <1>3, <1>4, <1>6 DEF Bit
  <1>. QED
    BY <1>8, <1>10, <1>11, <1>12, <1>13, <1>14, <1>15

LEMMA NothingLeavesNothing == Crc6Table[0] = 0
  <1>1. HasBits(0, 0, 0, 0, 0, 0, 0, 0, 0)
    BY DEF HasBits, Bit
  <1>2. TableEntry(0, 0, 0, 0, 0, 0, 0, 0, 0)
    BY <1>1, TableBits
  <1>. QED
    BY <1>2 DEF TableEntry

\* What a burst leaves behind: the remainder of its first part, carried on
\* into its second, has a remainder.
LEMMA BurstLeaves ==
    ASSUME NEW e1, NEW e2, IsBurst(e1, e2)
    PROVE  /\ e1 \in Octet /\ e2 \in Octet
           /\ 4 * Crc6Table[e1] \in Octet
           /\ Xor[4 * Crc6Table[e1]][e2] \notin {0, 111, 177, 222}
  <1>1. PICK unit \in Units, bits \in 1 .. 63 :
            e1 = (bits * unit) \div 256 /\ e2 = (bits * unit) % 256
    BY DEF IsBurst
  <1>2. PICK damage : damage = bits * unit
    OBVIOUS
  <1>3. damage \in Nat /\ damage > 0
    <2>1. unit \in Nat /\ unit > 0
      BY DEF Units
    <2>. QED
      BY <1>2, <2>1
  <1>4. \/ damage <= 63
        \/ damage <= 126 /\ damage % 2 = 0
        \/ damage <= 252 /\ damage % 4 = 0
        \/ damage <= 504 /\ damage % 8 = 0
        \/ damage <= 1008 /\ damage % 16 = 0
        \/ damage <= 2016 /\ damage % 32 = 0
        \/ damage <= 4032 /\ damage % 64 = 0
        \/ damage <= 8064 /\ damage % 128 = 0
    BY <1>2 DEF Units
  <1>5. e1 \in 0 .. 31 /\ e2 \in Octet /\ damage = 256 * e1 + e2
    <2>1. damage <= 8064
      BY <1>3, <1>4
    <2>2. e1 = damage \div 256 /\ e2 = damage % 256
      BY <1>1, <1>2
    <2>3. e1 \in Nat /\ e2 \in Octet /\ damage = 256 * e1 + e2
      BY <1>3, <2>2, SMT DEF Octet
    <2>4. e1 <= 31
      BY <2>1, <2>3, SMT DEF Octet
    <2>. QED
      BY <2>3, <2>4
  <1>6. e1 \in Octet
    BY <1>5 DEF Octet
  <1>7. PICK r \in Remainder : r = Crc6Table[e1]
    <2>1. PICK b7, b6, b5, b4, b3, b2, b1, b0 : HasBits(e1, b7, b6, b5, b4, b3, b2, b1, b0)
      BY <1>6, OctetBits
    <2>. QED
      BY <2>1, EntryIs
  <1>8. PICK q \in Octet : q = 4 * r
    BY DEF Remainder, Octet
  <1>9. Xor[q][e2] \notin {0, 111, 177, 222}
    <2>1. CASE e1 = 0
      <3>1. q = 0
        BY <1>7, <1>8, <2>1, NothingLeavesNothing
      <3>2. Xor[0][e2] = e2
        <4>1. 0 \in Octet
          BY DEF Octet
        <4>2. Xor[0][e2] = Xor[e2][0]
          BY <1>5, <4>1, XorLaws
        <4>. QED
          BY <1>5, <4>2, XorLaws
      <3>3. damage = e2
        BY <1>5, <2>1 DEF Octet
      <3>4. e2 \notin {0, 111, 177, 222}
        BY <1>3, <1>4, <3>3
      <3>. QED
        BY <3>1, <3>2, <3>4
    <2>2. CASE e1 # 0
      <3>1. e1 \in 1 .. 31
        BY <1>5, <2>2
      <3>2. /\ e1 < 2 => q % 8 # 0
            /\ e1 < 4 => q % 16 # 0
            /\ e1 < 8 => q % 32 # 0
            /\ e1 < 16 => q % 64 # 0
            /\ q % 128 # 0
        BY <1>7, <1>8, <3>1, FewBits
      <3>3. \/ e1 < 2 /\ e2 % 8 = 0
            \/ e1 < 4 /\ e2 % 16 = 0
            \/ e1 < 8 /\ e2 % 32 = 0
            \/ e1 < 16 /\ e2 % 64 = 0
            \/ e2 % 128 = 0
        BY <1>3, <1>4, <1>5, <3>1 DEF Octet
      <3>4. q # e2
        BY <3>2, <3>3
      <3>5. PICK h \in Remainder : e2 = 4 * h
        <4>1. e2 % 4 = 0
          BY <1>5, <3>3 DEF Octet
        <4>2. e2 \div 4 \in Remainder /\ e2 = 4 * (e2 \div 4)
          BY <1>5, <4>1 DEF Octet, Remainder
        <4>. QED
          BY <4>2
      <3>6. Xor[r][h] \in Remainder /\ 4 * Xor[r][h] = Xor[4 * r][4 * h]
        BY Quadruple
      <3>7. PICK s \in Remainder : s = Xor[r][h]
        BY <3>6
      <3>8. Xor[q][e2] = 4 * s
        BY <1>8, <3>5, <3>6, <3>7
      <3>9. 4 * s \notin {111, 177, 222}
        BY DEF Remainder
      <3>10. Xor[q][e2] # 0
        BY <1>5, <3>4, XorCancels
      <3>. QED
        BY <3>8, <3>9, <3>10
    <2>. QED
      BY <2>1, <2>2
  <1>. QED
    BY <1>5, <1>6, <1>7, <1>8, <1>9

LEMMA XorAssociates ==
    ASSUME NEW a \in Octet, NEW b \in Octet, NEW c \in Octet
    PROVE  Associate(a, b, c)
  BY XorLaws DEF Associate

\* One step further, of a remainder and an octet that are both damaged
LEMMA StepSum ==
    ASSUME NEW t \in Remainder, NEW s \in Remainder, NEW o \in Octet, NEW e \in Octet
    PROVE  /\ Xor[t][s] \in Remainder /\ Xor[4 * s][e] \in Octet
           /\ Xor[4 * Xor[t][s]][Xor[o][e]] = Xor[Xor[4 * t][o]][Xor[4 * s][e]]
  <1>1. /\ 4 * t \in Octet /\ 4 * s \in Octet
        /\ Xor[t][s] \in Remainder /\ 4 * Xor[t][s] = Xor[4 * t][4 * s]
    BY Quadruple
  <1>2. PICK x \in Octet, y \in Octet : x = 4 * t /\ y = 4 * s
    BY <1>1
  <1>3. Xor[y][e] \in Octet /\ Xor[o][e] \in Octet /\ Xor[x][o] \in Octet
    BY XorLaws
  <1>4. Xor[Xor[x][y]][Xor[o][e]] = Xor[x][Xor[y][Xor[o][e]]]
    <2>1. Associate(x, y, Xor[o][e])
      BY <1>3, XorAssociates
    <2>. QED
      BY <2>1 DEF Associate
  <1>5. Xor[y][Xor[o][e]] = Xor[o][Xor[y][e]]
    <2>1. Xor[y][Xor[o][e]] = Xor[Xor[y][o]][e]
      BY XorLaws
    <2>2. Xor[y][o] = Xor[o][y]
      BY XorLaws
    <2>3. Xor[Xor[o][y]][e] = Xor[o][Xor[y][e]]
      BY XorLaws
    <2>. QED
      BY <2>1, <2>2, <2>3
  <1>6. Xor[x][Xor[o][Xor[y][e]]] = Xor[Xor[x][o]][Xor[y][e]]
    <2>1. Associate(x, o, Xor[y][e])
      BY <1>3, XorAssociates
    <2>. QED
      BY <2>1 DEF Associate
  <1>. QED
    BY <1>1, <1>2, <1>3, <1>4, <1>5, <1>6

\* An octet that is damaged changes the remainder by the damage's own.
LEMMA StepHit ==
    ASSUME NEW c \in Remainder, NEW o \in Octet, NEW e \in Octet
    PROVE  Crc6Step(c, Xor[o][e]) = Xor[Crc6Step(c, o)][Crc6Table[e]]
  <1>1. 4 * c \in Octet
    BY DEF Remainder, Octet
  <1>2. PICK x \in Octet : x = 4 * c
    BY <1>1
  <1>3. Xor[x][o] \in Octet
    BY XorLaws
  <1>4. Xor[x][Xor[o][e]] = Xor[Xor[x][o]][e]
    BY XorLaws
  <1>5. Crc6Table[Xor[Xor[x][o]][e]] = Xor[Crc6Table[Xor[x][o]]][Crc6Table[e]]
    BY <1>3, EntrySum
  <1>. QED
    BY <1>2, <1>4, <1>5 DEF Crc6Step

LEMMA StepApart ==
    ASSUME NEW t \in Remainder, NEW s \in Remainder, NEW o \in Octet, NEW e \in Octet,
           Xor[4 * s][e] \notin {0, 111, 177, 222}
    PROVE  Crc6Step(Xor[t][s], Xor[o][e]) # Crc6Step(t, o)
  <1>1. SUFFICES ASSUME Crc6Step(Xor[t][s], Xor[o][e]) = Crc6Step(t, o)
                 PROVE  FALSE
    OBVIOUS
  <1>2. PICK x \in Octet : x = Xor[4 * t][o]
    BY Crc6StepIs
  <1>3. /\ Xor[4 * s][e] \in Octet
        /\ Xor[4 * Xor[t][s]][Xor[o][e]] = Xor[x][Xor[4 * s][e]]
    BY <1>2, StepSum
  <1>4. PICK y \in Octet : y = Xor[4 * s][e]
    BY <1>3
  <1>5. PICK z \in Octet : z = Xor[x][y]
    BY XorLaws
  <1>6. Crc6Table[x] = Crc6Table[z]
    BY <1>1, <1>2, <1>3, <1>4, <1>5 DEF Crc6Step
  <1>7. Xor[z][x] \in {0, 111, 177, 222}
    BY <1>6, SameEntry
  <1>8. Xor[z][x] = y
    BY <1>5, XorCancels
  <1>. QED
    BY <1>4, <1>7, <1>8

LEMMA CrcSeesHit ==
    ASSUME NEW data, NEW hit, NEW m, IsHit(hit, data, m)
    PROVE  Crc6(hit) # Crc6(data)
  <1>1. PICK k \in Nat : k = Len(data) /\ k = Len(hit) /\ m \in 1 .. k
    BY DEF IsHit
  <1>2. \A n \in 1 .. k : data[n] \in Octet /\ hit[n] \in Octet
    BY <1>1 DEF IsHit
  <1>3. PICK c : IsCrc6(c, data) /\ Crc6(data) = c[k]
    BY <1>1, Crc6Is DEF IsHit
  <1>4. PICK d : IsCrc6(d, hit) /\ Crc6(hit) = d[k]
    BY <1>1, Crc6Is DEF IsHit
  <1>5. /\ \A n \in 0 .. k : c[n] \in Remainder /\ d[n] \in Remainder
        /\ c[0] = 1 /\ d[0] = 1
        /\ \A n \in 1 .. k : c[n] = Crc6Step(c[n - 1], data[n]) /\ d[n] = Crc6Step(d[n - 1], hit[n])
    BY <1>1, <1>3, <1>4 DEF IsCrc6
  <1>6. PICK e1, e2 : /\ IsBurst(e1, e2)
                      /\ hit[m] = Xor[data[m]][e2]
                      /\ IF m = 1 THEN e1 = 0 ELSE hit[m - 1] = Xor[data[m - 1]][e1]
    BY DEF IsHit
  <1>7. /\ e1 \in Octet /\ e2 \in Octet
        /\ Xor[4 * Crc6Table[e1]][e2] \notin {0, 111, 177, 222}
    BY <1>6, BurstLeaves
  <1>8. PICK s \in Remainder : s = Crc6Table[e1]
    <2>1. Crc6Table[e1] = EightTimes(e1) \div 4 /\ EightTimes(e1) \in Octet
      BY <1>7, Crc6TableIs
    <2>. QED
      BY <2>1 DEF Octet, Remainder
  <1>9. \A n \in Nat : n < m - 1 => d[n] = c[n]
    <2>. DEFINE Q == {n \in Nat : n < m - 1 => d[n] = c[n]}
    <2>1. 0 \in Q
      BY <1>5
    <2>2. ASSUME NEW n \in Q
          PROVE  n + 1 \in Q
      <3>1. SUFFICES ASSUME n + 1 < m - 1 PROVE d[n + 1] = c[n + 1]
        OBVIOUS
      <3>2. n + 1 \in 1 .. k /\ n + 1 # m /\ n + 1 # m - 1 /\ (n + 1) - 1 = n /\ n < m - 1
        BY <1>1, <3>1
      <3>3. d[n] = c[n]
        BY <3>2
      <3>4. hit[n + 1] = data[n + 1]
        BY <1>1, <3>2 DEF IsHit
      <3>. QED
        BY <1>5, <3>2, <3>3, <3>4
    <2>3. Q \subseteq Nat
      OBVIOUS
    <2>. HIDE DEF Q
    <2>4. Q = Nat
      BY <2>1, <2>2, <2>3, SetInduction
    <2>. QED
      BY <2>4 DEF Q
  <1>10. d[m - 1] = Xor[c[m - 1]][s]
    <2>1. CASE m = 1
      <3>1. s = 0
        BY <1>6, <1>8, <2>1, NothingLeavesNothing
      <3>2. 1 \in Octet /\ m - 1 = 0
        BY <2>1 DEF Octet
      <3>3. Xor[1][0] = 1
        BY <3>2, XorLaws
      <3>. QED
        BY <1>5, <3>1, <3>2, <3>3
    <2>2. CASE m # 1
      <3>1. /\ m - 1 \in 1 .. k /\ (m - 1) - 1 \in 0 .. k
            /\ (m - 1) - 1 \in Nat /\ (m - 1) - 1 < m - 1
        BY <1>1, <2>2
      <3>2. PICK l : l = m - 1
        OBVIOUS
      <3>3. d[l - 1] = c[l - 1] /\ c[l - 1] \in Remainder
        BY <1>5, <1>9, <3>1, <3>2
      <3>4. d[l] = Crc6Step(c[l - 1], Xor[data[l]][e1])
        BY <1>5, <1>6, <2>2, <3>1, <3>2, <3>3
      <3>5. c[l] = Crc6Step(c[l - 1], data[l]) /\ data[l] \in Octet
        BY <1>2, <1>5, <3>1, <3>2
      <3>6. d[l] = Xor[c[l]][s]
        BY <1>7, <1>8, <3>3, <3>4, <3>5, StepHit
      <3>. QED
        BY <3>2, <3>6
    <2>. QED
      BY <2>1, <2>2
  <1>11. d[m] # c[m]
    <2>1. PICK t \in Remainder : t = c[m - 1]
      BY <1>1, <1>5
    <2>2. d[m] = Crc6Step(Xor[t][s], Xor[data[m]][e2])
      BY <1>1, <1>5, <1>6, <1>10, <2>1
    <2>3. c[m] = Crc6Step(t, data[m]) /\ data[m] \in Octet
      BY <1>1, <1>2, <1>5, <2>1
    <2>. QED
      BY <1>7, <1>8, <2>2, <2>3, StepApart
  <1>12. \A n \in Nat : m + n <= k => d[m + n] # c[m + n]
    <2>. DEFINE Q == {n \in Nat : m + n <= k => d[m + n] # c[m + n]}
    <2>1. 0 \in Q
      BY <1>1, <1>11
    <2>2. ASSUME NEW n \in Q
          PROVE  n + 1 \in Q
      <3>1. SUFFICES ASSUME m + (n + 1) <= k PROVE d[m + (n + 1)] # c[m + (n + 1)]
        OBVIOUS
      <3>2. PICK l : l = m + (n + 1)
        OBVIOUS
      <3>3. l \in 1 .. k /\ l # m /\ l # m - 1 /\ l - 1 = m + n /\ m + n <= k /\ l - 1 \in 0 .. k
        BY <1>1, <3>1, <3>2
      <3>4. d[l - 1] # c[l - 1]
        BY <3>3
      <3>5. hit[l] = data[l] /\ data[l] \in Octet
        BY <1>1, <1>2, <3>3 DEF IsHit
      <3>6. c[l - 1] \in Remainder /\ d[l - 1] \in Remainder
        BY <1>5, <3>3
      <3>7. d[l] = Crc6Step(d[l - 1], data[l]) /\ c[l] = Crc6Step(c[l - 1], data[l])
        BY <1>5, <3>3, <3>5
      <3>. QED
        BY <3>2, <3>4, <3>5, <3>6, <3>7, StaysApart
    <2>3. Q \subseteq Nat
      OBVIOUS
    <2>. HIDE DEF Q
    <2>4. Q = Nat
      BY <2>1, <2>2, <2>3, SetInduction
    <2>. QED
      BY <2>4 DEF Q
  <1>13. k - m \in Nat /\ m + (k - m) = k
    BY <1>1
  <1>14. d[k] # c[k]
    BY <1>12, <1>13
  <1>. QED
    BY <1>3, <1>4, <1>14

\* Tail, octet by octet
LEMMA TailIs ==
    ASSUME NEW f \in Seq(Octet), Len(f) > 0
    PROVE  /\ Tail(f) \in Seq(Octet) /\ Len(Tail(f)) = Len(f) - 1
           /\ \A n \in 1 .. Len(f) - 1 : Tail(f)[n] = f[n + 1]
  <1>1. f # << >>
    OBVIOUS
  <1>2. Tail(f) \in Seq(Octet) /\ Len(Tail(f)) = Len(f) - 1
    BY <1>1
  <1>. QED
    BY <1>1, <1>2

LEMMA BurstSeen ==
    ASSUME NEW f \in Seq(Octet), f[1] = 128 + Crc6(Tail(f)), NEW n \in 2 .. Len(f),
           NEW e1, NEW e2, IsBurst(e1, e2), n = 2 => e1 = 0,
           NEW g, g = [f EXCEPT ![n] = Xor[@][e2], ![n - 1] = Xor[@][e1]]
    PROVE  ~IsValid(g)
  <1>1. PICK k \in Nat : k = Len(f) /\ k >= 2 /\ n \in 2 .. k /\ n - 1 \in 1 .. k /\ n # n - 1
    OBVIOUS
  <1>2. f \in [1 .. k -> Octet] /\ DOMAIN f = 1 .. k
    BY <1>1
  <1>3. e1 \in Octet /\ e2 \in Octet
    BY BurstLeaves
  <1>4. /\ g[n] = Xor[f[n]][e2] /\ g[n - 1] = Xor[f[n - 1]][e1]
        /\ \A l \in 1 .. k : l # n /\ l # n - 1 => g[l] = f[l]
        /\ DOMAIN g = 1 .. k
    BY <1>1, <1>2
  <1>5. g \in [1 .. k -> Octet]
    <2>1. Xor[f[n]][e2] \in Octet /\ Xor[f[n - 1]][e1] \in Octet
      <3>1. f[n] \in Octet /\ f[n - 1] \in Octet
        BY <1>1, <1>2
      <3>. QED
        BY <1>3, <3>1, XorLaws
    <2>. QED
      BY <1>1, <1>2, <2>1
  <1>6. g \in Seq(Octet) /\ Len(g) = k
    BY <1>5, FunctionIsSeq
  <1>7. /\ Tail(f) \in Seq(Octet) /\ Len(Tail(f)) = k - 1
        /\ \A l \in 1 .. k - 1 : Tail(f)[l] = f[l + 1]
    BY <1>1, TailIs
  <1>8. /\ Tail(g) \in Seq(Octet) /\ Len(Tail(g)) = k - 1
        /\ \A l \in 1 .. k - 1 : Tail(g)[l] = g[l + 1]
    BY <1>1, <1>6, TailIs
  <1>9. PICK m : m = n - 1
    OBVIOUS
  <1>10. m \in 1 .. k - 1 /\ m + 1 = n
    BY <1>1, <1>9
  <1>11. IsHit(Tail(g), Tail(f), m)
    <2>1. \A l \in 1 .. k - 1 : l # m /\ l # m - 1 => Tail(g)[l] = Tail(f)[l]
      <3>1. ASSUME NEW l \in 1 .. k - 1, l # m, l # m - 1
            PROVE  Tail(g)[l] = Tail(f)[l]
        <4>1. l + 1 \in 1 .. k /\ l + 1 # n /\ l + 1 # n - 1
          BY <1>1, <1>9, <3>1
        <4>2. g[l + 1] = f[l + 1]
          BY <1>4, <4>1
        <4>. QED
          BY <1>7, <1>8, <4>2
      <3>. QED
        BY <3>1
    <2>2. Tail(g)[m] = Xor[Tail(f)[m]][e2]
      BY <1>4, <1>7, <1>8, <1>10
    <2>3. IF m = 1 THEN e1 = 0 ELSE Tail(g)[m - 1] = Xor[Tail(f)[m - 1]][e1]
      <3>1. CASE m = 1
        BY <1>10, <3>1
      <3>2. CASE m # 1
        <4>1. m - 1 \in 1 .. k - 1 /\ (m - 1) + 1 = n - 1
          BY <1>9, <1>10, <3>2
        <4>. QED
          BY <1>4, <1>7, <1>8, <3>2, <4>1
      <3>. QED
        BY <3>1, <3>2
    <2>. QED
      BY <1>7, <1>8, <1>10, <2>1, <2>2, <2>3 DEF IsHit
  <1>12. Crc6(Tail(g)) # Crc6(Tail(f))
    BY <1>11, CrcSeesHit
  <1>13. g[1] = f[1]
    <2>1. CASE n = 2
      <3>1. e1 = 0 /\ n - 1 = 1
        BY <2>1
      <3>2. f[1] \in Octet
        BY <1>1, <1>2
      <3>3. Xor[f[1]][0] = f[1]
        BY <3>2, XorLaws
      <3>. QED
        BY <1>4, <3>1, <3>3
    <2>2. CASE n # 2
      BY <1>1, <1>4, <2>2
    <2>. QED
      BY <2>1, <2>2
  <1>14. PICK r \in Remainder : r = Crc6(Tail(f))
    <2>1. PICK c : IsCrc6(c, Tail(f)) /\ Crc6(Tail(f)) = c[Len(Tail(f))]
      BY <1>7, Crc6Is
    <2>2. Len(Tail(f)) \in 0 .. Len(Tail(f))
      BY <1>1, <1>7
    <2>3. c \in [0 .. Len(Tail(f)) -> Remainder]
      BY <2>1 DEF IsCrc6
    <2>4. c[Len(Tail(f))] \in Remainder
      BY <2>2, <2>3
    <2>. QED
      BY <2>1, <2>4
  <1>15. (128 + r) % 64 = r
    <2>1. \A x \in 0 .. 63 : (128 + x) % 64 = x
      OBVIOUS
    <2>. QED
      BY <2>1, Zenon DEF Remainder
  <1>. QED
    BY <1>12, <1>13, <1>14, <1>15 DEF IsValid

\* A frame whose first octet holds the remainder of the others
LEMMA BurstsSeen ==
    ASSUME NEW f \in Seq(Octet), f[1] = 128 + Crc6(Tail(f))
    PROVE  BurstsAreSeen(f)
  <1>1. ASSUME NEW n \in 2 .. Len(f), NEW unit \in Units, NEW bits \in 1 .. 63,
               n > 2 \/ bits * unit < 256
        PROVE  ~IsValid([f EXCEPT ![n] = Xor[@][(bits * unit) % 256],
                                  ![n - 1] = Xor[@][(bits * unit) \div 256]])
    <2>1. PICK e1, e2 : e1 = (bits * unit) \div 256 /\ e2 = (bits * unit) % 256
      OBVIOUS
    <2>2. IsBurst(e1, e2)
      BY <2>1 DEF IsBurst
    <2>3. n = 2 => e1 = 0
      <3>1. PICK damage : damage = bits * unit
        OBVIOUS
      <3>2. damage \in Nat
        BY <3>1 DEF Units
      <3>3. damage < 256 => damage \div 256 = 0
        BY <3>2
      <3>. QED
        BY <1>1, <2>1, <3>1, <3>3
    <2>. QED
      BY <2>1, <2>2, <2>3, BurstSeen
  <1>. QED
    BY <1>1, Zenon DEF BurstsAreSeen, Units

-----------------------------------------------------------------------------
\* Permutations.

LEMMA ExchangeOf ==
    ASSUME NEW X, NEW f \in [X -> X], NEW m \in X, NEW k \in X,
           NEW h, h = Exchange(f, m, k)
    PROVE  Exchanged(h, f, m, k, X)
  <1>1. /\ h = [[f EXCEPT ![m] = f[k]] EXCEPT ![k] = f[m]]
        /\ DOMAIN f = X
    BY DEF Exchange
  <1>2. h \in [X -> X]
    BY <1>1
  <1>3. h[k] = f[m]
    BY <1>1
  <1>4. h[m] = f[k]
    <2>1. CASE m = k
      BY <1>3, <2>1
    <2>2. CASE m # k
      BY <1>1, <2>2
    <2>. QED
      BY <2>1, <2>2
  <1>5. \A x \in X : x # m /\ x # k => h[x] = f[x]
    BY <1>1
  <1>. QED
    BY <1>2, <1>3, <1>4, <1>5 DEF Exchanged

\* Two values of f change places: so do the places of these values.
LEMMA SwapInverses ==
    ASSUME NEW X, NEW f, NEW g, Inverses(f, g, X), NEW m \in X, NEW k \in X
    PROVE  Inverses(Exchange(f, m, k), Exchange(g, f[m], f[k]), X)
  <1>1. f \in [X -> X] /\ g \in [X -> X] /\ f[m] \in X /\ f[k] \in X
    BY DEF Inverses
  <1>2. \A x \in X : f[g[x]] = x /\ g[f[x]] = x
    BY DEF Inverses
  <1>3. PICK h : h = Exchange(f, m, k)
    OBVIOUS
  <1>4. PICK e : e = Exchange(g, f[m], f[k])
    OBVIOUS
  <1>5. /\ h \in [X -> X] /\ h[m] = f[k] /\ h[k] = f[m]
        /\ \A x \in X : x # m /\ x # k => h[x] = f[x]
    <2>1. Exchanged(h, f, m, k, X)
      BY <1>1, <1>3, ExchangeOf
    <2>. QED
      BY <2>1 DEF Exchanged
  <1>6. /\ e \in [X -> X] /\ e[f[m]] = g[f[k]] /\ e[f[k]] = g[f[m]]
        /\ \A x \in X : x # f[m] /\ x # f[k] => e[x] = g[x]
    <2>1. PICK a \in X, b \in X : a = f[m] /\ b = f[k]
      BY <1>1
    <2>2. e = Exchange(g, a, b)
      BY <1>4, <2>1
    <2>3. Exchanged(e, g, a, b, X)
      BY <1>1, <2>1, <2>2, ExchangeOf
    <2>. QED
      BY <2>1, <2>3 DEF Exchanged
  <1>7. e[f[m]] = k /\ e[f[k]] = m
    BY <1>2, <1>6
  <1>8. ASSUME NEW x \in X
        PROVE  h[e[x]] = x
    <2>1. CASE x = f[m] \/ x = f[k]
      BY <1>5, <1>7, <2>1
    <2>2. CASE x # f[m] /\ x # f[k]
      <3>1. e[x] = g[x] /\ f[g[x]] = x
        BY <1>2, <1>6, <2>2
      <3>2. g[x] \in X /\ g[x] # m /\ g[x] # k
        BY <1>1, <2>2, <3>1
      <3>. QED
        BY <1>5, <3>1, <3>2
    <2>. QED
      BY <2>1, <2>2
  <1>9. ASSUME NEW x \in X
        PROVE  e[h[x]] = x
    <2>1. CASE x = m \/ x = k
      BY <1>5, <1>7, <2>1
    <2>2. CASE x # m /\ x # k
      <3>1. h[x] = f[x] /\ g[f[x]] = x /\ f[x] \in X
        BY <1>1, <1>2, <1>5, <2>2
      <3>2. f[x] # f[m] /\ f[x] # f[k]
        BY <1>2, <2>2
      <3>. QED
        BY <1>6, <3>1, <3>2
    <2>. QED
      BY <2>1, <2>2
  <1>10. Inverses(h, e, X)
    BY <1>5, <1>6, <1>8, <1>9 DEF Inverses
  <1>. QED
    BY <1>3, <1>4, <1>10

\* A permutation has one inverse, the one that is found by search.
LEMMA FoundInverse ==
    ASSUME NEW X, NEW f, NEW g, Inverses(f, g, X)
    PROVE  Inverses(f, [x \in X |-> CHOOSE m \in X : f[m] = x], X)
  <1>1. f \in [X -> X] /\ g \in [X -> X]
    BY DEF Inverses
  <1>2. \A x \in X : f[g[x]] = x /\ g[f[x]] = x
    BY DEF Inverses
  <1>3. ASSUME NEW x \in X
        PROVE  (CHOOSE m \in X : f[m] = x) = g[x]
    <2>1. g[x] \in X /\ f[g[x]] = x
      BY <1>1, <1>2
    <2>2. PICK m : m = CHOOSE l \in X : f[l] = x
      OBVIOUS
    <2>3. m \in X /\ f[m] = x
      BY <2>1, <2>2
    <2>. QED
      BY <1>2, <2>2, <2>3
  <1>4. [x \in X |-> CHOOSE m \in X : f[m] = x] = g
    BY <1>1, <1>3
  <1>. QED
    BY <1>4

\* A permutation that keeps numbers from k on keeps those below k together.
LEMMA RestKept ==
    ASSUME NEW n \in Nat, NEW k \in 0 .. n, NEW f, NEW g, Inverses(f, g, Upto(n)),
           \A q \in k .. n - 1 : f[q] = q, NEW j \in k .. n, NEW q \in Upto(j)
    PROVE  f[q] \in Upto(j)
  <1>1. q \in Upto(n)
    BY DEF Upto
  <1>2. f[q] \in Upto(n) /\ g[f[q]] = q
    BY <1>1 DEF Inverses
  <1>3. SUFFICES ASSUME f[q] \notin Upto(j) PROVE FALSE
    OBVIOUS
  <1>4. PICK x \in Upto(n) : x = f[q]
    BY <1>2
  <1>5. x \in k .. n - 1 /\ x \in j .. n - 1
    BY <1>3, <1>4 DEF Upto
  <1>6. f[x] = x
    BY <1>5
  <1>7. g[f[x]] = x
    BY <1>4 DEF Inverses
  <1>8. g[x] = q
    BY <1>2, <1>4
  <1>9. x = q
    BY <1>6, <1>7, <1>8
  <1>. QED
    BY <1>5, <1>9 DEF Upto

LEMMA UptoCard ==
    ASSUME NEW n \in Nat
    PROVE  IsFiniteSet(Upto(n)) /\ Cardinality(Upto(n)) = n
  <1>1. 0 \in Int /\ n - 1 \in Int
    OBVIOUS
  <1>2. /\ IsFiniteSet(0 .. n - 1)
        /\ Cardinality(0 .. n - 1) = IF 0 > n - 1 THEN 0 ELSE (n - 1) - 0 + 1
    BY <1>1, FS_Interval
  <1>. QED
    BY <1>2 DEF Upto

LEMMA SameCount ==
    ASSUME NEW X, NEW Y, IsFiniteSet(X), NEW f \in [X -> Y],
           \A x, z \in X : f[x] = f[z] => x = z, \A y \in Y : \E x \in X : f[x] = y
    PROVE  IsFiniteSet(Y) /\ Cardinality(Y) = Cardinality(X)
  <1>1. f \in Injection(X, Y)
    BY DEF Injection, IsInjective
  <1>2. f \in Surjection(X, Y)
    BY DEF Surjection
  <1>3. ExistsBijection(X, Y)
    BY <1>1, <1>2 DEF ExistsBijection, Bijection
  <1>. QED
    BY <1>3, FS_Bijection

LEMMA CountOfRow ==
    ASSUME NEW L, NEW row, IsRow(row, L), NEW T
    PROVE  /\ IsFiniteSet(EntriesIn(row, T)) /\ IsFiniteSet(RowIn(row, T))
           /\ Cardinality(EntriesIn(row, T)) = Cardinality(RowIn(row, T))
           /\ Cardinality(RowIn(row, T)) \in Nat
  <1>1. /\ row \in Seq(Upto(L)) /\ DOMAIN row = 1 .. Len(row) /\ Len(row) \in Nat
        /\ \A k, l \in DOMAIN row : row[k] = row[l] => k = l
    BY DEF IsRow, IsInjective
  <1>2. IsFiniteSet(EntriesIn(row, T))
    <2>1. EntriesIn(row, T) \in SUBSET (1 .. Len(row))
      BY <1>1 DEF EntriesIn
    <2>2. IsFiniteSet(1 .. Len(row))
      BY <1>1, FS_Interval
    <2>. QED
      BY <2>1, <2>2, FS_Subset
  <1>. DEFINE X == EntriesIn(row, T)
              Y == RowIn(row, T)
  <1>3. PICK f : f = [k \in X |-> row[k]]
    OBVIOUS
  <1>4. f \in [X -> Y]
    BY <1>3 DEF EntriesIn, RowIn, HasCol
  <1>5. \A k, l \in X : f[k] = f[l] => k = l
    BY <1>1, <1>3 DEF EntriesIn
  <1>6. \A y \in Y : \E k \in X : f[k] = y
    BY <1>3 DEF EntriesIn, RowIn, HasCol
  <1>7. IsFiniteSet(X)
    BY <1>2
  <1>. HIDE DEF X, Y
  <1>8. IsFiniteSet(Y) /\ Cardinality(Y) = Cardinality(X)
    BY <1>4, <1>5, <1>6, <1>7, SameCount
  <1>9. Cardinality(Y) \in Nat
    BY <1>8, FS_CardinalityType
  <1>. QED
    BY <1>2, <1>8, <1>9 DEF X, Y

-----------------------------------------------------------------------------
\* The matrix and its schedule.

LEMMA MatrixIs ==
    ASSUME NEW p, IsCode(p), NEW m \in Nat, m >= p.Kprime,
           NEW isis, DOMAIN isis = Upto(m), \A x \in Upto(m) : TupleInRange(isis[x], p),
           NEW a, a = PrecodeMatrix(p, isis)
    PROVE  IsMatrix(a, p.S + p.H + m, p)
  <1>1. Cardinality(DOMAIN isis) = m
    BY UptoCard
  <1>2. PICK n : n = p.S + p.H + m
    OBVIOUS
  <1>3. /\ n \in Nat /\ n >= p.L /\ p.S \in Nat /\ p.H \in Nat /\ p.L \in Nat
    BY <1>2 DEF IsCode
  <1>4. a = [r \in Upto(n) |->
                IF r < p.S THEN Ldpc(p, r)
                ELSE IF r < p.S + p.H THEN << >> ELSE Idxs(isis[r - p.S - p.H], p)]
    BY <1>1, <1>2 DEF PrecodeMatrix
  <1>5. DOMAIN a = Upto(n)
    BY <1>4
  <1>6. ASSUME NEW r \in Upto(n)
        PROVE  IsRow(a[r], p.L)
    <2>1. r \in Nat /\ r < n
      BY <1>3 DEF Upto
    <2>2. CASE r < p.S
      <3>1. r \in Upto(p.S)
        BY <1>3, <2>1, <2>2 DEF Upto
      <3>2. IsRow(Ldpc(p, r), p.L)
        BY <3>1, LdpcIs
      <3>. QED
        BY <1>4, <2>2, <3>2
    <2>3. CASE ~(r < p.S) /\ r < p.S + p.H
      <3>1. a[r] = << >>
        BY <1>4, <2>3
      <3>2. IsRow(<< >>, p.L)
        BY DEF IsRow, IsInjective
      <3>. QED
        BY <3>1, <3>2
    <2>4. CASE ~(r < p.S) /\ ~(r < p.S + p.H)
      <3>1. PICK x : x = r - p.S - p.H
        OBVIOUS
      <3>2. x \in Upto(m)
        BY <1>2, <1>3, <2>1, <2>4, <3>1, SMTT(30) DEF Upto
      <3>3. IsRow(Idxs(isis[x], p), p.L)
        BY <3>2, IdxsIs
      <3>4. a[r] = Idxs(isis[x], p)
        BY <1>4, <2>4, <3>1
      <3>. QED
        BY <3>3, <3>4
    <2>. QED
      BY <2>2, <2>3, <2>4
  <1>. QED
    BY <1>2, <1>3, <1>5, <1>6 DEF IsMatrix

LEMMA Rotation ==
    ASSUME NEW n \in Nat, NEW k \in Nat, k < n,
           NEW d, d = [r \in Upto(n) |-> (r + k) % n]
    PROVE  \E di : Inverses(d, di, Upto(n))
  <1>1. ASSUME NEW r \in Upto(n)
        PROVE  d[r] = IF r + k < n THEN r + k ELSE r + k - n
    <2>1. r \in Nat /\ r < n /\ d[r] = (r + k) % n
      BY DEF Upto
    <2>2. CASE r + k < n
      <3>1. PICK x \in Nat : x = r + k
        BY <2>1
      <3>2. x % n = x
        BY <2>2, <3>1
      <3>. QED
        BY <2>1, <2>2, <3>1, <3>2
    <2>3. CASE ~(r + k < n)
      <3>1. PICK x \in Nat : x = r + k - n
        BY <2>1, <2>3
      <3>2. x < n /\ r + k = x + n
        BY <2>1, <3>1
      <3>3. (x + n) % n = x
        BY <3>2
      <3>. QED
        BY <2>1, <2>3, <3>1, <3>2, <3>3
    <2>. QED
      BY <2>2, <2>3
  <1>2. PICK di : di = [r \in Upto(n) |-> IF r < k THEN r + n - k ELSE r - k]
    OBVIOUS
  <1>3. d \in [Upto(n) -> Upto(n)]
    <2>1. \A r \in Upto(n) : d[r] \in Upto(n)
      BY <1>1 DEF Upto
    <2>. QED
      BY <2>1
  <1>4. di \in [Upto(n) -> Upto(n)]
    BY <1>2 DEF Upto
  <1>5. ASSUME NEW r \in Upto(n)
        PROVE  d[di[r]] = r /\ di[d[r]] = r
    <2>1. PICK x \in Upto(n), y \in Upto(n) : x = d[r] /\ y = di[r]
      BY <1>3, <1>4
    <2>2. d[y] = IF y + k < n THEN y + k ELSE y + k - n
      BY <1>1
    <2>3. x = IF r + k < n THEN r + k ELSE r + k - n
      BY <1>1, <2>1
    <2>4. di[x] = IF x < k THEN x + n - k ELSE x - k
      BY <1>2
    <2>5. y = IF r < k THEN r + n - k ELSE r - k
      BY <1>2, <2>1
    <2>6. d[y] = r
      BY <2>2, <2>5 DEF Upto
    <2>7. di[x] = r
      BY <2>3, <2>4 DEF Upto
    <2>. QED
      BY <2>1, <2>6, <2>7
  <1>. QED
    BY <1>3, <1>4, <1>5 DEF Inverses

LEMMA ScheduleIs ==
    ASSUME NEW p, IsCode(p), NEW a, NEW n, IsMatrix(a, n, p),
           NEW s, s = NewSchedule(p, a)
    PROVE  /\ IsSchedule(s, n, p) /\ s.i = 0 /\ s.u = p.P
           /\ CountersTrue(a, s, p, n) /\ TriangleTrue(a, s, p)
  <1>1. n \in Nat /\ n >= p.L /\ DOMAIN a = Upto(n) /\ Cardinality(DOMAIN a) = n
    BY UptoCard DEF IsMatrix
  <1>2. PICK d : d = [r \in Upto(n) |-> (r + p.S + p.H) % n]
    OBVIOUS
  <1>3. PICK di : di = [r \in Upto(n) |-> CHOOSE m \in Upto(n) : d[m] = r]
    OBVIOUS
  <1>4. PICK c : c = [m \in Upto(p.L) |-> m]
    OBVIOUS
  <1>5. PICK nz : nz = [r \in Upto(n) |-> InitialNnz(p, a[r])]
    OBVIOUS
  <1>6. s = [d |-> d, di |-> di, c |-> c, ci |-> c, nz |-> nz,
             ops |-> << >>, i |-> 0, u |-> p.P, marks |-> <<0, 0>>]
    BY <1>1, <1>2, <1>3, <1>4, <1>5 DEF NewSchedule
  <1>7. /\ s.d = d /\ s.di = di /\ s.c = c /\ s.ci = c /\ s.nz = nz
        /\ s.ops = << >> /\ s.i = 0 /\ s.u = p.P /\ s.marks = <<0, 0>>
    BY <1>6
  <1>8. Inverses(d, di, Upto(n))
    <2>1. PICK k \in Nat : k = p.S + p.H /\ k < n
      BY <1>1 DEF IsCode
    <2>2. d = [r \in Upto(n) |-> (r + k) % n]
      <3>1. \A r \in Upto(n) : r + p.S + p.H = r + k
        BY <2>1 DEF Upto, IsCode
      <3>. QED
        BY <1>2, <3>1
    <2>3. PICK g : Inverses(d, g, Upto(n))
      BY <1>1, <2>1, <2>2, Rotation
    <2>. QED
      BY <1>3, <2>3, FoundInverse
  <1>9. Inverses(c, c, Upto(p.L))
    BY <1>4 DEF Inverses
  <1>10. p.L \in Nat /\ p.P \in Nat /\ p.P <= p.L /\ p.P >= 3
    BY DEF IsCode
  <1>11. ASSUME NEW r \in Upto(n)
         PROVE  CounterTrue(a, s, p, r) /\ nz[r] \in Int
    <2>1. IsRow(a[r], p.L)
      BY DEF IsMatrix
    <2>2. PICK T : T = Upto(p.L - p.P)
      OBVIOUS
    <2>3. ColsInV(s, p) = T
      <3>1. ColsInV(s, p) = {c[q] : q \in 0 .. p.L - p.P - 1}
        BY <1>7 DEF ColsInV
      <3>2. \A q \in 0 .. p.L - p.P - 1 : c[q] = q
        BY <1>4, <1>10 DEF Upto
      <3>. QED
        BY <2>2, <3>1, <3>2 DEF Upto
    <2>4. PICK k : k = Cardinality(RowIn(a[r], T))
      OBVIOUS
    <2>5. k \in Nat /\ Cardinality(EntriesIn(a[r], T)) = k
      BY <2>1, <2>4, CountOfRow
    <2>6. InitialNnz(p, a[r]) = IF k = 0 THEN p.L ELSE k
      <3>1. \A m \in DOMAIN a[r] : a[r][m] < p.L - p.P <=> a[r][m] \in T
        <4>1. ASSUME NEW m \in DOMAIN a[r]
              PROVE  a[r][m] < p.L - p.P <=> a[r][m] \in T
          <5>1. a[r][m] \in Upto(p.L)
            BY <2>1, EntryOf DEF IsRow
          <5>. QED
            BY <1>10, <2>2, <5>1 DEF Upto
        <4>. QED
          BY <4>1
      <3>2. {m \in DOMAIN a[r] : a[r][m] < p.L - p.P} = EntriesIn(a[r], T)
        BY <3>1 DEF EntriesIn
      <3>. QED
        BY <2>5, <3>2 DEF InitialNnz
    <2>7. k < p.L
      <3>1. RowIn(a[r], T) \in SUBSET T
        BY DEF RowIn
      <3>2. IsFiniteSet(T) /\ Cardinality(T) = p.L - p.P
        BY <1>10, <2>2, UptoCard
      <3>3. k <= p.L - p.P
        BY <2>4, <3>1, <3>2, FS_Subset
      <3>. QED
        BY <1>10, <2>5, <3>3
    <2>8. OnesInV(a, s, p, r) = RowIn(a[r], T)
      BY <2>3 DEF OnesInV
    <2>9. nz[r] = IF k = 0 THEN p.L ELSE k
      BY <1>5, <2>6
    <2>. QED
      BY <1>7, <1>10, <2>4, <2>5, <2>6, <2>7, <2>8, <2>9 DEF CounterTrue
  <1>12. IsSchedule(s, n, p)
    <2>1. nz \in [Upto(n) -> Int]
      BY <1>5, <1>11
    <2>2. /\ d \in [Upto(n) -> Upto(n)] /\ di \in [Upto(n) -> Upto(n)]
          /\ c \in [Upto(p.L) -> Upto(p.L)]
      BY <1>8, <1>9 DEF Inverses
    <2>3. << >> \in Seq(Ops(n))
      OBVIOUS
    <2>4. <<0, 0>> \in Mark \X Mark
      BY DEF Mark
    <2>5. s \in [d : [Upto(n) -> Upto(n)], di : [Upto(n) -> Upto(n)],
              c : [Upto(p.L) -> Upto(p.L)], ci : [Upto(p.L) -> Upto(p.L)],
              nz : [Upto(n) -> Int], ops : Seq(Ops(n)), i : Nat, u : Nat,
              marks : Mark \X Mark]
      BY <1>6, <1>10, <2>1, <2>2, <2>3, <2>4
    <2>6. \A q \in p.L - p.P .. p.L - 1 : s.c[q] = q
      BY <1>4, <1>7, <1>10 DEF Upto
    <2>7. s.i <= p.L - p.P
      BY <1>7, <1>10
    <2>. QED
      BY <1>7, <1>8, <1>9, <2>5, <2>6, <2>7 DEF IsSchedule
  <1>13. TriangleTrue(a, s, p)
    BY <1>7 DEF TriangleTrue, Upto
  <1>14. CountersTrue(a, s, p, n)
    BY <1>11 DEF CountersTrue
  <1>. QED
    BY <1>7, <1>12, <1>13, <1>14

-----------------------------------------------------------------------------
\* precode_matrix_precond: one step.

LEMMA CountTo ==
    ASSUME NEW n \in Nat
    PROVE  IsFiniteSet(1 .. n) /\ Cardinality(1 .. n) = n
  <1>1. 1 \in Int /\ n \in Int
    OBVIOUS
  <1>2. /\ IsFiniteSet(1 .. n)
        /\ Cardinality(1 .. n) = IF 1 > n THEN 0 ELSE n - 1 + 1
    BY <1>1, FS_Interval
  <1>. QED
    BY <1>2

\* What the proofs use of a schedule, field by field
LEMMA ScheduleFields ==
    ASSUME NEW p, IsCode(p), NEW n \in Nat, NEW s, IsSchedule(s, n, p)
    PROVE  /\ s.d \in [Upto(n) -> Upto(n)] /\ s.di \in [Upto(n) -> Upto(n)]
           /\ s.c \in [Upto(p.L) -> Upto(p.L)] /\ s.ci \in [Upto(p.L) -> Upto(p.L)]
           /\ s.nz \in [Upto(n) -> Int] /\ s.ops \in Seq(Ops(n))
           /\ s.i \in Nat /\ s.u \in Nat /\ s.marks \in Mark \X Mark
           /\ \A r \in Upto(n) : s.d[s.di[r]] = r /\ s.di[s.d[r]] = r
           /\ \A q \in Upto(p.L) : s.c[s.ci[q]] = q /\ s.ci[s.c[q]] = q
  BY DEF IsSchedule, Inverses

\* precode_row_nz_at finds all ones that a row has in V, if its counter is true.
LEMMA ChosenOnes ==
    ASSUME IsCode(P), IsMatrix(A, NumRows, P), IsSchedule(S, NumRows, P),
           S.u >= P.P, S.i + S.u <= P.L,
           NEW row \in Upto(NumRows), CounterTrue(A, S, P, row),
           NEW b \in 1 .. 2, S.nz[row] = b,
           NEW ones, ones = OnesAt(row)
    PROVE  /\ \A q : q \in ones <=> q \in Places(S, P) /\ HasCol(A[row], S.c[q])
           /\ IsFiniteSet(ones) /\ Cardinality(ones) = b
  <1>1. PICK L \in Nat, n \in Nat : L = P.L /\ n = NumRows /\ L >= 3
    BY DEF IsCode, IsMatrix
  <1>2. /\ S.c \in [Upto(L) -> Upto(L)] /\ S.ci \in [Upto(L) -> Upto(L)]
        /\ S.i \in Nat /\ S.u \in Nat
        /\ \A q \in Upto(L) : S.c[S.ci[q]] = q /\ S.ci[S.c[q]] = q
    BY <1>1, ScheduleFields
  <1>3. PICK V : V = Places(S, P)
    OBVIOUS
  <1>4. V \subseteq Upto(L)
    BY <1>1, <1>2, <1>3, SMTT(30) DEF Places, Upto
  <1>5. PICK a : a = A[row]
    OBVIOUS
  <1>6. IsRow(a, L)
    BY <1>1, <1>5 DEF IsMatrix
  <1>7. /\ a \in Seq(Upto(L)) /\ DOMAIN a = 1 .. Len(a) /\ Len(a) \in Nat
        /\ \A k, l \in DOMAIN a : a[k] = a[l] => k = l
    BY <1>6 DEF IsRow, IsInjective
  <1>8. \A k \in DOMAIN a : a[k] \in Upto(L)
    BY <1>7, EntryOf
  <1>9. PICK places : places = [k \in DOMAIN a |-> S.ci[a[k]]]
    OBVIOUS
  <1>10. places \in Seq(Upto(L)) /\ Len(places) = Len(a)
    <2>1. places \in [1 .. Len(a) -> Upto(L)]
      BY <1>2, <1>7, <1>8, <1>9
    <2>. QED
      BY <1>7, <2>1, FunctionIsSeq
  <1>11. IsInjective(places)
    BY <1>2, <1>7, <1>8, <1>9 DEF IsInjective
  <1>12. PICK inV : inV = Kept(places, V)
    OBVIOUS
  <1>13. Keeps(inV, places, V, Upto(L))
    BY <1>10, <1>12, KeptHas
  <1>14. /\ inV \in Seq(Upto(L)) /\ DOMAIN inV = 1 .. Len(inV) /\ Len(inV) \in Nat
         /\ \A k, l \in 1 .. Len(inV) : inV[k] = inV[l] => k = l
    BY <1>11, <1>13 DEF Keeps, IsInjective
  <1>15. PICK T : T = {q \in V : HasCol(a, S.c[q])}
    OBVIOUS
  <1>16. \A k \in 1 .. Len(inV) : inV[k] \in T
    <2>1. ASSUME NEW k \in 1 .. Len(inV)
          PROVE  inV[k] \in T
      <3>1. inV[k] \in V
        BY <1>13 DEF Keeps
      <3>2. PICK l \in 1 .. Len(places) : places[l] = inV[k]
        BY <1>13 DEF Keeps
      <3>3. l \in DOMAIN a /\ a[l] \in Upto(L) /\ inV[k] = S.ci[a[l]]
        BY <1>7, <1>8, <1>9, <1>10, <3>2
      <3>4. S.c[inV[k]] = a[l]
        BY <1>2, <3>3
      <3>. QED
        BY <1>15, <3>1, <3>3, <3>4 DEF HasCol
    <2>. QED
      BY <2>1
  <1>17. \A q \in T : \E k \in 1 .. Len(inV) : inV[k] = q
    <2>1. ASSUME NEW q \in T
          PROVE  \E k \in 1 .. Len(inV) : inV[k] = q
      <3>1. q \in V /\ HasCol(a, S.c[q])
        BY <1>15
      <3>2. PICK l \in DOMAIN a : a[l] = S.c[q]
        BY <3>1 DEF HasCol
      <3>3. l \in 1 .. Len(places) /\ places[l] = q
        BY <1>2, <1>4, <1>7, <1>9, <1>10, <3>1, <3>2
      <3>. QED
        BY <1>13, <3>1, <3>3 DEF Keeps
    <2>. QED
      BY <2>1
  <1>18. IsFiniteSet(T) /\ Cardinality(T) = Len(inV)
    <2>1. inV \in [1 .. Len(inV) -> T]
      BY <1>14, <1>16
    <2>2. IsFiniteSet(1 .. Len(inV)) /\ Cardinality(1 .. Len(inV)) = Len(inV)
      BY <1>14, CountTo
    <2>. QED
      BY <1>14, <1>17, <2>1, <2>2, SameCount
  <1>19. Cardinality(OnesInV(A, S, P, row)) = Cardinality(T)
    <2>1. PICK Y : Y = OnesInV(A, S, P, row)
      OBVIOUS
    <2>2. PICK f : f = [q \in T |-> S.c[q]]
      OBVIOUS
    <2>3. Y = {col \in {S.c[q] : q \in V} : HasCol(a, col)}
      BY <1>3, <1>5, <2>1 DEF OnesInV, RowIn, ColsInV, Places
    <2>4. f \in [T -> Y]
      BY <1>15, <2>2, <2>3
    <2>5. \A x, z \in T : f[x] = f[z] => x = z
      BY <1>2, <1>4, <1>15, <2>2
    <2>6. \A y \in Y : \E x \in T : f[x] = y
      BY <1>15, <2>2, <2>3
    <2>. QED
      BY <1>18, <2>1, <2>4, <2>5, <2>6, SameCount
  <1>20. Len(inV) = b
    <2>1. S.nz[row] = Len(inV) + (IF InitialNnz(P, A[row]) = P.L THEN P.L ELSE 0)
      BY <1>18, <1>19 DEF CounterTrue
    <2>. QED
      BY <1>1, <1>14, <2>1
  <1>21. ones = {inV[k] : k \in 1 .. b}
    <2>1. Min({Len(inV), S.nz[row]}) = b
      BY <1>14, <1>20, MinOfTwo
    <2>. QED
      BY <1>3, <1>5, <1>9, <1>12, <2>1 DEF OnesAt, Places
  <1>22. ones = T
    BY <1>16, <1>17, <1>20, <1>21
  <1>. QED
    BY <1>3, <1>5, <1>15, <1>18, <1>20, <1>22

\* The ones of the chosen row in V, in order
LEMMA OneOrTwo ==
    ASSUME NEW T, T \subseteq Nat, IsFiniteSet(T), NEW b \in 1 .. 2, Cardinality(T) = b
    PROVE  /\ Min(T) \in T
           /\ b = 1 => T = {Min(T)}
           /\ b = 2 => /\ Max(T) \in T /\ Min(T) < Max(T)
                       /\ T = {Min(T), Max(T)}
  <1>1. T # {}
    BY FS_EmptySet
  <1>2. Min(T) \in T /\ \A m \in T : Min(T) <= m
    BY <1>1, MinIs
  <1>3. CASE b = 1
    <2>1. PICK x : T = {x}
      BY <1>3, FS_Singleton
    <2>. QED
      BY <1>2, <1>3, <2>1
  <1>4. CASE b = 2
    <2>1. PICK m \in Nat : m = Min(T)
      BY <1>2
    <2>2. IsFiniteSet(T \ {m}) /\ Cardinality(T \ {m}) = 1
      BY <1>2, <1>4, <2>1, FS_RemoveElement
    <2>3. PICK x : T \ {m} = {x}
      BY <2>2, FS_Singleton
    <2>4. T = {m, x} /\ x # m /\ x \in Nat /\ m <= x
      BY <1>2, <2>1, <2>3
    <2>5. Max(T) = x
      <3>1. Max({m, x}) = IF m >= x THEN m ELSE x
        BY <2>4, MaxOfTwo
      <3>. QED
        BY <2>4, <3>1
    <2>. QED
      BY <1>2, <1>4, <2>1, <2>4, <2>5
  <1>. QED
    BY <1>3, <1>4

LEMMA ColsSwap ==
    ASSUME NEW L \in Nat, NEW c, NEW ci, Inverses(c, ci, Upto(L)),
           NEW i \in Nat, NEW last \in Nat, last < L,
           NEW b \in 1 .. 2, NEW ones, OnesOf(ones, i, last, b),
           NEW e, SwapsCols(e, c, i, last, ones, b), NEW ei, IsFound(ei, e, Upto(L))
    PROVE  ColsMoved(c, e, i, last, ones) /\ Inverses(e, ei, Upto(L))
  <1>. PICK first : first = Exchange(c, i, Min(ones))
    OBVIOUS
  <1>0. /\ ones \subseteq i .. last /\ IsFiniteSet(ones) /\ Cardinality(ones) = b
        /\ e = IF b = 2 THEN Exchange(first, last, Max(ones)) ELSE first
    BY DEF OnesOf, SwapsCols
  <1>1. ones \subseteq Nat /\ ones \subseteq Upto(L)
    BY <1>0 DEF Upto
  <1>2. /\ Min(ones) \in ones
        /\ b = 1 => ones = {Min(ones)}
        /\ b = 2 => Max(ones) \in ones /\ Min(ones) < Max(ones)
    BY <1>0, <1>1, OneOrTwo
  <1>3. PICK m \in Upto(L) : m = Min(ones)
    BY <1>1, <1>2
  <1>4. i \in Upto(L) /\ last \in Upto(L) /\ m \in i .. last
    BY <1>0, <1>2, <1>3 DEF Upto
  <1>5. c \in [Upto(L) -> Upto(L)] /\ DOMAIN c = Upto(L)
    BY DEF Inverses
  <1>6. /\ first \in [Upto(L) -> Upto(L)] /\ first[i] = c[m] /\ first[m] = c[i]
        /\ \A x \in Upto(L) : x # i /\ x # m => first[x] = c[x]
    <2>1. Exchanged(first, c, i, m, Upto(L))
      BY <1>3, <1>4, <1>5, ExchangeOf
    <2>. QED
      BY <2>1 DEF Exchanged
  <1>7. PICK g : Inverses(first, g, Upto(L))
    BY <1>3, <1>4, SwapInverses
  <1>8. CASE b = 1
    <2>1. e = first
      BY <1>0, <1>8
    <2>2. \A q \in DOMAIN c : q \notin i .. last => e[q] = c[q]
      BY <1>4, <1>5, <1>6, <2>1
    <2>3. e[i] = c[Min(ones)]
      BY <1>3, <1>6, <2>1
    <2>. QED
      BY <1>0, <1>7, <1>8, <2>1, <2>2, <2>3, FoundInverse DEF ColsMoved, IsFound
  <1>9. CASE b = 2
    <2>1. PICK x \in Upto(L) : x = Max(ones)
      BY <1>1, <1>2, <1>9
    <2>2. x \in i .. last /\ x # m /\ x # i /\ i # last
      <3>1. x \in i .. last /\ m < x
        BY <1>0, <1>2, <1>3, <1>9, <2>1
      <3>. QED
        BY <1>4, <3>1
    <2>3. e = Exchange(first, last, x)
      BY <1>0, <1>9, <2>1
    <2>4. /\ e[last] = first[x]
          /\ \A y \in Upto(L) : y # last /\ y # x => e[y] = first[y]
      <3>1. PICK X : X = Upto(L)
        OBVIOUS
      <3>2. first \in [X -> X] /\ last \in X /\ x \in X
        BY <1>4, <1>6, <3>1
      <3>3. /\ e[last] = first[x]
            /\ \A y \in X : y # last /\ y # x => e[y] = first[y]
        <4>1. Exchanged(e, first, last, x, X)
          BY <2>3, <3>2, ExchangeOf
        <4>. QED
          BY <4>1 DEF Exchanged
      <3>. QED
        BY <3>1, <3>3
    <2>5. e[last] = c[x]
      BY <1>6, <2>2, <2>4
    <2>6. e[i] = c[m]
      BY <1>4, <1>6, <2>2, <2>4
    <2>7. \A q \in DOMAIN c : q \notin i .. last => e[q] = c[q]
      BY <1>4, <1>5, <1>6, <2>2, <2>4
    <2>8. PICK h : Inverses(e, h, Upto(L))
      BY <1>4, <1>7, <2>3, SwapInverses
    <2>9. ColsMoved(c, e, i, last, ones)
      BY <1>0, <1>3, <2>1, <2>2, <2>5, <2>6, <2>7 DEF ColsMoved
    <2>. QED
      BY <2>8, <2>9, FoundInverse DEF IsFound
  <1>. QED
    BY <1>8, <1>9

LEMMA SameImage ==
    ASSUME NEW X, NEW V \in SUBSET X, NEW c, NEW ci, Inverses(c, ci, X),
           NEW e, NEW ei, Inverses(e, ei, X),
           \A q \in X : q \notin V => e[q] = c[q]
    PROVE  ImageOf(e, V) = ImageOf(c, V)
  <1>1. /\ c \in [X -> X] /\ ci \in [X -> X] /\ e \in [X -> X] /\ ei \in [X -> X]
        /\ \A x \in X : c[ci[x]] = x /\ ci[c[x]] = x
        /\ \A x \in X : e[ei[x]] = x /\ ei[e[x]] = x
    BY DEF Inverses
  <1>2. ASSUME NEW q \in V
        PROVE  e[q] \in ImageOf(c, V)
    <2>1. q \in X
      OBVIOUS
    <2>2. PICK k \in X : k = ci[e[q]] /\ c[k] = e[q]
      BY <1>1, <2>1
    <2>3. CASE k \in V
      BY <2>2, <2>3 DEF ImageOf
    <2>4. CASE k \notin V
      <3>1. e[k] = e[q]
        BY <2>2, <2>4
      <3>2. k = q
        BY <1>1, <2>1, <3>1
      <3>. QED
        BY <2>4, <3>2
    <2>. QED
      BY <2>3, <2>4
  <1>3. ASSUME NEW q \in V
        PROVE  c[q] \in ImageOf(e, V)
    <2>1. q \in X
      OBVIOUS
    <2>2. PICK k \in X : k = ei[c[q]] /\ e[k] = c[q]
      BY <1>1, <2>1
    <2>3. CASE k \in V
      BY <2>2, <2>3 DEF ImageOf
    <2>4. CASE k \notin V
      <3>1. c[k] = c[q]
        BY <2>2, <2>4
      <3>2. k = q
        BY <1>1, <2>1, <3>1
      <3>. QED
        BY <2>4, <3>2
    <2>. QED
      BY <2>3, <2>4
  <1>. QED
    BY <1>2, <1>3 DEF ImageOf

LEMMA ColsLeave ==
    ASSUME NEW L \in Nat, NEW c, NEW ci, Inverses(c, ci, Upto(L)),
           NEW e, NEW ei, Inverses(e, ei, Upto(L)),
           NEW i \in Nat, NEW last \in Nat, last < L, i <= last,
           NEW b \in 1 .. 2, NEW ones, OnesOf(ones, i, last, b),
           ColsMoved(c, e, i, last, ones),
           NEW cols, Leaves(cols, e, i, last, b)
    PROVE  HaveLeft(c, e, i, last, ones, b, cols)
  <1>0. /\ ones \subseteq i .. last /\ IsFiniteSet(ones) /\ Cardinality(ones) = b
        /\ cols = IF b = 2 THEN <<e[i], e[last]>> ELSE <<e[i]>>
    BY DEF OnesOf, Leaves
  <1>1. ones \subseteq Nat /\ ones \subseteq Upto(L) /\ i .. last \subseteq Upto(L)
    BY <1>0 DEF Upto
  <1>2. /\ Min(ones) \in ones
        /\ b = 1 => ones = {Min(ones)}
        /\ b = 2 => /\ Max(ones) \in ones /\ Min(ones) < Max(ones)
                    /\ ones = {Min(ones), Max(ones)}
    BY <1>0, <1>1, OneOrTwo
  <1>3. PICK m \in ones, x \in ones : m = Min(ones) /\ (b = 2 => x = Max(ones))
    BY <1>2
  <1>4. /\ c \in [Upto(L) -> Upto(L)] /\ e \in [Upto(L) -> Upto(L)]
        /\ \A k, l \in Upto(L) : c[k] = c[l] => k = l
        /\ \A k, l \in Upto(L) : e[k] = e[l] => k = l
    BY DEF Inverses
  <1>5. e[i] = c[m] /\ (b = 2 => i # last /\ e[last] = c[x])
    BY <1>0, <1>3 DEF ColsMoved
  <1>6. ImageOf(e, i .. last) = ImageOf(c, i .. last)
    <2>1. \A q \in Upto(L) : q \notin i .. last => e[q] = c[q]
      BY <1>4 DEF ColsMoved
    <2>2. PICK X, V : X = Upto(L) /\ V = i .. last
      OBVIOUS
    <2>3. V \in SUBSET X /\ Inverses(c, ci, X) /\ Inverses(e, ei, X)
          /\ \A q \in X : q \notin V => e[q] = c[q]
      BY <1>1, <2>1, <2>2
    <2>4. V \in SUBSET X
      BY <2>3
    <2>5. Inverses(c, ci, X)
      BY <2>3
    <2>6. Inverses(e, ei, X)
      BY <2>3
    <2>7. \A q \in X : q \notin V => e[q] = c[q]
      BY <2>3
    <2>8. ImageOf(e, V) = ImageOf(c, V)
      BY <2>4, <2>5, <2>6, <2>7, SameImage
    <2>. QED
      BY <2>2, <2>8
  <1>7. Left(c, ones) \subseteq ImageOf(c, i .. last)
    BY <1>0 DEF Left, ImageOf
  <1>8. CASE b = 1
    <2>1. Left(c, ones) = {e[i]}
      BY <1>2, <1>3, <1>5, <1>8 DEF Left, ImageOf
    <2>2. cols = <<e[i]>>
      BY <1>0, <1>8
    <2>3. Lists(cols, Left(c, ones)) /\ Len(cols) = 1
      <3>1. PICK y : y = e[i]
        OBVIOUS
      <3>2. Left(c, ones) = {y} /\ cols = <<y>>
        BY <2>1, <2>2, <3>1
      <3>3. Len(cols) = 1 /\ cols[1] = y /\ 1 .. 1 = {1}
        BY <3>2
      <3>4. cols \in Seq({y})
        <4>1. PICK T : T = {y}
          OBVIOUS
        <4>2. y \in T /\ cols = <<y>>
          BY <3>2, <4>1
        <4>3. cols \in Seq(T)
          BY <4>2
        <4>. QED
          BY <4>1, <4>3
      <3>. QED
        BY <3>2, <3>3, <3>4 DEF Lists
    <2>4. ImageOf(e, i + 1 .. last) = ImageOf(e, i .. last) \ {e[i]}
      <3>1. i .. last = {i} \union (i + 1 .. last) /\ i \notin i + 1 .. last
        OBVIOUS
      <3>2. i \in Upto(L) /\ i + 1 .. last \subseteq Upto(L)
        BY <1>1, <3>1
      <3>. QED
        BY <1>4, <3>1, <3>2 DEF ImageOf
    <2>5. last - (b - 1) = last
      BY <1>8
    <2>. QED
      BY <1>6, <1>7, <1>8, <2>1, <2>3, <2>4, <2>5 DEF HaveLeft
  <1>9. CASE b = 2
    <2>1. Left(c, ones) = {e[i], e[last]}
      BY <1>2, <1>3, <1>5, <1>9 DEF Left, ImageOf
    <2>2. cols = <<e[i], e[last]>> /\ e[i] # e[last]
      <3>1. i \in Upto(L) /\ last \in Upto(L) /\ i # last
        BY <1>1, <1>5, <1>9
      <3>. QED
        BY <1>0, <1>4, <1>9, <3>1
    <2>3. Lists(cols, Left(c, ones)) /\ Len(cols) = 2
      <3>1. cols[1] = e[i] /\ cols[2] = e[last] /\ Len(cols) = 2 /\ 1 .. 2 = {1, 2}
        BY <2>2
      <3>2. cols \in Seq(Left(c, ones))
        <4>1. PICK y : y = e[i]
          OBVIOUS
        <4>2. PICK z : z = e[last]
          OBVIOUS
        <4>3. PICK T : T = Left(c, ones)
          OBVIOUS
        <4>4. y \in T /\ z \in T /\ cols = <<y, z>>
          BY <2>1, <2>2, <4>1, <4>2, <4>3
        <4>. QED
          BY <4>3, <4>4
      <3>3. \A t \in Left(c, ones) : \E k \in 1 .. Len(cols) : cols[k] = t
        BY <2>1, <3>1
      <3>4. \A k, l \in 1 .. Len(cols) : cols[k] = cols[l] => k = l
        BY <2>2, <3>1
      <3>. QED
        BY <3>1, <3>2, <3>3, <3>4 DEF Lists
    <2>4. ImageOf(e, i + 1 .. last - 1) = ImageOf(e, i .. last) \ {e[i], e[last]}
      <3>1. /\ i .. last = {i, last} \union (i + 1 .. last - 1)
            /\ i \notin i + 1 .. last - 1 /\ last \notin i + 1 .. last - 1
        BY <1>5, <1>9
      <3>2. i \in Upto(L) /\ last \in Upto(L) /\ i + 1 .. last - 1 \subseteq Upto(L)
        BY <1>1, <3>1
      <3>. QED
        BY <1>4, <3>1, <3>2 DEF ImageOf
    <2>5. last - (b - 1) = last - 1
      BY <1>9
    <2>. QED
      BY <1>6, <1>7, <1>9, <2>1, <2>3, <2>4, <2>5 DEF HaveLeft
  <1>. QED
    BY <1>8, <1>9

\* The ones of a row that leave V are as many as the leaving columns it has.
LEMMA OnesLeave ==
    ASSUME NEW L \in Nat, NEW row, IsRow(row, L), NEW V, NEW gone \in SUBSET V,
           NEW cols, Lists(cols, gone)
    PROVE  Cardinality(RowIn(row, V \ gone))
           = Cardinality(RowIn(row, V)) - Cardinality({m \in 1 .. Len(cols) : HasCol(row, cols[m])})
  <1>. DEFINE X == {m \in 1 .. Len(cols) : HasCol(row, cols[m])}
              Y == RowIn(row, gone)
  <1>1. /\ Len(cols) \in Nat /\ DOMAIN cols = 1 .. Len(cols)
        /\ \A m \in 1 .. Len(cols) : cols[m] \in gone
        /\ \A t \in gone : \E k \in 1 .. Len(cols) : cols[k] = t
        /\ \A k, l \in 1 .. Len(cols) : cols[k] = cols[l] => k = l
    BY DEF Lists
  <1>2. IsFiniteSet(X)
    <2>1. X \in SUBSET (1 .. Len(cols))
      OBVIOUS
    <2>2. IsFiniteSet(1 .. Len(cols))
      BY <1>1, CountTo
    <2>. HIDE DEF X
    <2>. QED
      BY <2>1, <2>2, FS_Subset
  <1>3. PICK f : f = [m \in X |-> cols[m]]
    OBVIOUS
  <1>4. f \in [X -> Y]
    BY <1>1, <1>3 DEF RowIn
  <1>5. \A k, l \in X : f[k] = f[l] => k = l
    BY <1>1, <1>3
  <1>6. \A y \in Y : \E k \in X : f[k] = y
    <2>1. ASSUME NEW y \in Y
          PROVE  \E k \in X : f[k] = y
      <3>1. y \in gone /\ HasCol(row, y)
        BY DEF RowIn
      <3>2. PICK k \in 1 .. Len(cols) : cols[k] = y
        BY <1>1, <3>1
      <3>3. k \in X /\ f[k] = y
        BY <1>3, <3>1, <3>2
      <3>. QED
        BY <3>3
    <2>. QED
      BY <2>1
  <1>. HIDE DEF X, Y
  <1>7. IsFiniteSet(Y) /\ Cardinality(Y) = Cardinality(X)
    BY <1>2, <1>4, <1>5, <1>6, SameCount
  <1>8. IsFiniteSet(RowIn(row, V)) /\ Cardinality(RowIn(row, V)) \in Nat
    BY CountOfRow
  <1>9. RowIn(row, V \ gone) = RowIn(row, V) \ Y /\ RowIn(row, V) \cap Y = Y
    BY DEF RowIn, Y
  <1>10. Cardinality(RowIn(row, V) \ Y) = Cardinality(RowIn(row, V)) - Cardinality(RowIn(row, V) \cap Y)
    BY <1>7, <1>8, FS_Difference
  <1>. QED
    BY <1>7, <1>9, <1>10 DEF X

LEMMA RowsSwap ==
    ASSUME NEW n \in Nat, NEW d, NEW di, Inverses(d, di, Upto(n)),
           NEW i \in Upto(n), NEW row \in Upto(n), di[row] >= i,
           NEW e, e = Exchange(d, i, di[row]),
           NEW ei, ei = Exchange(di, d[i], d[di[row]])
    PROVE  RowsMoved(d, di, e, ei, i, row, n)
  <1>. DEFINE X == Upto(n)
  <1>1. /\ d \in [X -> X] /\ di \in [X -> X] /\ i \in X
        /\ \A x \in X : d[di[x]] = x /\ di[d[x]] = x
    BY DEF Inverses
  <1>2. PICK k \in X : k = di[row]
    BY <1>1
  <1>3. PICK y \in X : y = d[i]
    BY <1>1
  <1>4. d[k] = row /\ di[y] = i /\ row \in X
    BY <1>1, <1>2, <1>3
  <1>5. Inverses(Exchange(d, i, k), Exchange(di, d[i], d[k]), X)
    BY <1>1, <1>2, SwapInverses
  <1>6. Inverses(e, ei, X)
    BY <1>2, <1>5
  <1>7. Exchanged(e, d, i, k, X)
    BY <1>1, <1>2, ExchangeOf
  <1>8. ei = Exchange(di, y, row)
    BY <1>2, <1>3, <1>4
  <1>9. Exchanged(ei, di, y, row, X)
    BY <1>1, <1>3, <1>4, <1>8, ExchangeOf
  <1>10. e[i] = row
    BY <1>4, <1>7 DEF Exchanged
  <1>11. ASSUME NEW m \in Upto(i)
         PROVE  e[m] = d[m]
    <2>1. m \in X /\ m # i /\ m # k
      BY <1>2 DEF Upto
    <2>. QED
      BY <1>7, <2>1 DEF Exchanged
  <1>12. ASSUME NEW r \in X, ei[r] >= i + 1
         PROVE  r # row /\ di[r] >= i
    <2>1. /\ ei[y] = k /\ ei[row] = i
          /\ \A x \in X : x # y /\ x # row => ei[x] = di[x]
      BY <1>2, <1>4, <1>9 DEF Exchanged
    <2>2. r # row
      BY <1>12, <2>1 DEF Upto
    <2>3. CASE r = y
      BY <1>4, <2>2, <2>3 DEF Upto
    <2>4. CASE r # y
      <3>1. ei[r] = di[r]
        BY <2>1, <2>2, <2>4
      <3>. QED
        BY <1>1, <1>12, <2>2, <3>1 DEF Upto
    <2>. QED
      BY <2>3, <2>4
  <1>. QED
    BY <1>6, <1>10, <1>11, <1>12 DEF RowsMoved

LEMMA CountersKept ==
    ASSUME NEW p, IsCode(p), NEW n, NEW a, IsMatrix(a, n, p),
           NEW s, NEW t, NEW row \in Upto(n), NEW b \in 1 .. 2, NEW ones, NEW cols,
           CountersTrue(a, s, p, n), s.nz \in [Upto(n) -> Int],
           Grown(t, s, a, p, n, row, b, ones, cols),
           NEW gone \in SUBSET ColsInV(s, p), Lists(cols, gone),
           ColsInV(t, p) = ColsInV(s, p) \ gone
    PROVE  CountersTrue(a, t, p, n)
  <1>1. ASSUME NEW r \in Upto(n), t.di[r] >= t.i
        PROVE  CounterTrue(a, t, p, r)
    <2>1. s.di[r] >= s.i
      BY <1>1 DEF Grown, RowsMoved
    <2>2. CounterTrue(a, s, p, r)
      BY <2>1 DEF CountersTrue
    <2>3. PICK V : V = ColsInV(s, p)
      OBVIOUS
    <2>4. PICK x : x = Cardinality({m \in 1 .. Len(cols) : HasCol(a[r], cols[m])})
      OBVIOUS
    <2>5. IsRow(a[r], p.L) /\ p.L \in Nat
      BY DEF IsMatrix, IsCode
    <2>6. Cardinality(RowIn(a[r], V \ gone)) = Cardinality(RowIn(a[r], V)) - x
      BY <2>3, <2>4, <2>5, OnesLeave
    <2>7. Cardinality(RowIn(a[r], V)) \in Nat /\ Cardinality(RowIn(a[r], V \ gone)) \in Nat
      BY <2>5, CountOfRow
    <2>8. PICK z \in Nat : z = IF InitialNnz(p, a[r]) = p.L THEN p.L ELSE 0
      BY <2>5
    <2>9. s.nz[r] = Cardinality(RowIn(a[r], V)) + z
      BY <2>2, <2>3, <2>8 DEF CounterTrue, OnesInV
    <2>10. t.nz[r] = s.nz[r] - x
      BY <2>4 DEF Grown
    <2>11. x \in Int
      <3>1. {m \in 1 .. Len(cols) : HasCol(a[r], cols[m])} \in SUBSET (1 .. Len(cols))
        OBVIOUS
      <3>2. Len(cols) \in Nat
        BY DEF Lists
      <3>3. PICK T : T = 1 .. Len(cols)
        OBVIOUS
      <3>4. IsFiniteSet(T)
        BY <3>2, <3>3, CountTo
      <3>5. PICK Q : Q = {m \in 1 .. Len(cols) : HasCol(a[r], cols[m])}
        OBVIOUS
      <3>6. Q \in SUBSET T
        BY <3>1, <3>3, <3>5
      <3>7. IsFiniteSet(Q)
        BY <3>4, <3>6, FS_Subset
      <3>8. Cardinality(Q) \in Nat
        BY <3>7, FS_CardinalityType
      <3>. QED
        BY <2>4, <3>5, <3>8
    <2>12. t.nz[r] = Cardinality(RowIn(a[r], V \ gone)) + z
      BY <2>6, <2>7, <2>9, <2>10, <2>11
    <2>13. ColsInV(t, p) = V \ gone
      BY <2>3
    <2>. QED
      BY <2>8, <2>12, <2>13 DEF CounterTrue, OnesInV
  <1>. QED
    BY <1>1 DEF CountersTrue

LEMMA TriangleKept ==
    ASSUME NEW p, IsCode(p), NEW n \in Nat, NEW a,
           NEW s, IsSchedule(s, n, p), s.i + s.u < p.L,
           NEW t, NEW row \in Upto(n), NEW b \in 1 .. 2, NEW ones, NEW cols,
           TriangleTrue(a, s, p), AreOnes(ones, s, a, p, row, b),
           Grown(t, s, a, p, n, row, b, ones, cols),
           ImageOf(t.c, Places(s, p)) = ColsInV(s, p),
           ColsInV(t, p) = ColsInV(s, p) \ Left(s.c, ones)
    PROVE  TriangleTrue(a, t, p)
  <1>1. /\ p.L \in Nat /\ s.i \in Nat /\ s.u \in Nat
        /\ s.c \in [Upto(p.L) -> Upto(p.L)] /\ DOMAIN s.c = Upto(p.L)
    BY ScheduleFields DEF IsCode
  <1>2. t.i = s.i + 1 /\ t.u = s.u + b - 1 /\ t.u >= s.u
    BY <1>1 DEF Grown
  <1>3. /\ \A q \in Upto(p.L) : q \notin Places(s, p) => t.c[q] = s.c[q]
        /\ t.c[s.i] = s.c[Min(ones)]
    BY <1>1 DEF Grown, ColsMoved, Places
  <1>4. t.d[s.i] = row /\ \A m \in Upto(s.i) : t.d[m] = s.d[m]
    BY DEF Grown, RowsMoved
  <1>5. ASSUME NEW m \in Upto(s.i)
        PROVE  TriangleRow(a, t, p, m)
    <2>1. /\ HasCol(a[s.d[m]], s.c[m]) /\ t.d[m] = s.d[m]
          /\ \A q \in m + 1 .. p.L - s.u - 1 : ~HasCol(a[s.d[m]], s.c[q])
      BY <1>4 DEF TriangleTrue, TriangleRow
    <2>2. m \in Upto(p.L) /\ m \notin Places(s, p)
      BY <1>1, SMTT(30) DEF Upto, Places
    <2>3. HasCol(a[t.d[m]], t.c[m])
      BY <1>3, <2>1, <2>2
    <2>4. ASSUME NEW q \in m + 1 .. p.L - t.u - 1
          PROVE  ~HasCol(a[t.d[m]], t.c[q])
      <3>1. q \in m + 1 .. p.L - s.u - 1 /\ q \in Upto(p.L)
        <4>1. q \in Int /\ m + 1 <= q /\ q <= p.L - t.u - 1 /\ m \in Nat
          BY <1>1, <1>2 DEF Upto
        <4>2. q <= p.L - s.u - 1 /\ q \in 0 .. p.L - 1
          BY <1>1, <1>2, <4>1
        <4>. QED
          BY <1>1, <4>1, <4>2 DEF Upto
      <3>2. CASE q \in Places(s, p)
        <4>1. t.c[q] \in ColsInV(s, p)
          BY <3>2 DEF ImageOf
        <4>2. PICK k \in Places(s, p) : t.c[q] = s.c[k]
          BY <4>1 DEF ColsInV, Places
        <4>3. k \in m + 1 .. p.L - s.u - 1
          BY <1>1, SMTT(30) DEF Places, Upto
        <4>. QED
          BY <2>1, <4>2, <4>3
      <3>3. CASE q \notin Places(s, p)
        BY <1>3, <2>1, <3>1, <3>3
      <3>. QED
        BY <3>2, <3>3
    <2>. QED
      BY <2>3, <2>4 DEF TriangleRow
  <1>6. TriangleRow(a, t, p, s.i)
    <2>1. ones \subseteq Nat /\ IsFiniteSet(ones) /\ Cardinality(ones) = b
      BY <1>1 DEF AreOnes, Places
    <2>2. Min(ones) \in ones
      BY <2>1, OneOrTwo
    <2>3. HasCol(a[row], s.c[Min(ones)])
      BY <2>2 DEF AreOnes
    <2>4. ASSUME NEW q \in s.i + 1 .. p.L - t.u - 1
          PROVE  ~HasCol(a[row], t.c[q])
      <3>1. t.c[q] \in ColsInV(t, p)
        BY <1>2 DEF ColsInV
      <3>2. PICK k \in Places(s, p) : t.c[q] = s.c[k] /\ s.c[k] \notin Left(s.c, ones)
        BY <3>1 DEF ColsInV, Places
      <3>3. k \notin ones
        BY <3>2 DEF Left, ImageOf
      <3>. QED
        BY <3>2, <3>3 DEF AreOnes
    <2>. QED
      BY <1>3, <1>4, <2>3, <2>4 DEF TriangleRow
  <1>7. ASSUME NEW m \in Upto(t.i)
        PROVE  m \in Upto(s.i) \/ m = s.i
    BY <1>1, <1>2 DEF Upto
  <1>. QED
    BY <1>5, <1>6, <1>7 DEF TriangleTrue

\* Two rows of a schedule change places.
LEMMA RowsSwappedIs ==
    ASSUME NEW n \in Nat, IsSchedule(S, n, P),
           NEW m \in Upto(n), NEW k \in Upto(n), NEW s, s = RowsSwapped(m, k)
    PROVE  /\ IsSchedule(s, n, P)
           /\ s.d = Exchange(S.d, m, k) /\ s.di = Exchange(S.di, S.d[m], S.d[k])
           /\ s.c = S.c /\ s.ci = S.ci /\ s.nz = S.nz /\ s.ops = S.ops
           /\ s.i = S.i /\ s.u = S.u /\ s.marks = S.marks
  <1>1. FieldsTyped(S, n, P.L)
    BY DEF IsSchedule, FieldsTyped
  <1>2. PICK d : d = Exchange(S.d, m, k)
    OBVIOUS
  <1>3. PICK di : di = Exchange(S.di, S.d[m], S.d[k])
    OBVIOUS
  <1>4. Inverses(S.d, S.di, Upto(n))
    BY DEF IsSchedule
  <1>5. Inverses(d, di, Upto(n))
    BY <1>2, <1>3, <1>4, SwapInverses
  <1>6. d \in [Upto(n) -> Upto(n)] /\ di \in [Upto(n) -> Upto(n)]
    BY <1>5 DEF Inverses
  <1>7. s = [S EXCEPT !.d = d, !.di = di]
    BY <1>2, <1>3 DEF RowsSwapped
  <1>8. /\ FieldsTyped(s, n, P.L)
        /\ s.d = d /\ s.di = di
        /\ s.c = S.c /\ s.ci = S.ci /\ s.nz = S.nz /\ s.ops = S.ops
        /\ s.i = S.i /\ s.u = S.u /\ s.marks = S.marks
    <2>. HIDE <1>2, <1>3
    <2>. QED
      BY <1>1, <1>6, <1>7 DEF FieldsTyped
  <1>9. IsSchedule(s, n, P)
    BY <1>5, <1>8 DEF IsSchedule, FieldsTyped
  <1>. QED
    BY <1>2, <1>3, <1>8, <1>9

\* The counters are decreased for the columns that leave.
LEMMA NnzBeforeIs ==
    ASSUME S.nz \in [Upto(NumRows) -> Int], NEW cols, NEW k \in Nat
    PROVE  NnzBefore(cols, k + 1) \in [Upto(NumRows) -> Int]
  <1>1. ASSUME NEW row \in Upto(NumRows)
        PROVE  S.nz[row] - Cardinality({m \in 1 .. k + 1 - 1 : HasCol(A[row], cols[m])}) \in Int
    <2>1. PICK T : T = {m \in 1 .. k + 1 - 1 : HasCol(A[row], cols[m])}
      OBVIOUS
    <2>2. PICK R : R = 1 .. k
      OBVIOUS
    <2>3. T \in SUBSET R /\ IsFiniteSet(R)
      BY <2>1, <2>2, CountTo
    <2>4. Cardinality(T) \in Nat
      BY <2>3, FS_Subset, FS_CardinalityType
    <2>. QED
      BY <2>1, <2>4
  <1>. QED
    BY <1>1 DEF NnzBefore

\* The stacks hold rows.
LEMMA PushedForIs ==
    ASSUME NumRows \in Nat, NEW cols, NEW b
    PROVE  PushedFor(cols, b) \in Seq(Upto(NumRows))
  <1>. DEFINE T(n) == {row \in RowsOf(cols[n]) : NnzBefore(cols, n + 1)[row] = b}
  <1>1. ASSUME NEW n
        PROVE  Sorted(T(n)) \in Seq(Upto(NumRows))
    <2>1. T(n) \in SUBSET Upto(NumRows)
      BY DEF RowsOf
    <2>2. PICK R : R = T(n)
      OBVIOUS
    <2>3. R \in SUBSET Upto(NumRows)
      BY <2>1, <2>2
    <2>4. R \subseteq Nat
      BY <2>3 DEF Upto
    <2>5. IsFiniteSet(R)
      BY <2>3, UptoCard, FS_Subset
    <2>6. Lists(Sorted(R), R)
      BY <2>4, <2>5, SortedLists
    <2>7. Sorted(R) \in Seq(Upto(NumRows))
      BY <2>3, <2>6, ListIs
    <2>. QED
      BY <2>2, <2>7
  <1>2. PICK X : X = Upto(NumRows)
    OBVIOUS
  <1>3. PICK one : one = Sorted(T(1))
    OBVIOUS
  <1>4. PICK two : two = Sorted(T(2))
    OBVIOUS
  <1>5. one \in Seq(X) /\ two \in Seq(X)
    BY <1>1, <1>2, <1>3, <1>4
  <1>6. one \o two \in Seq(X)
    BY <1>5
  <1>7. PushedFor(cols, b) = IF Len(cols) = 2 THEN one \o two ELSE one
    BY <1>3, <1>4 DEF PushedFor
  <1>. QED
    BY <1>2, <1>5, <1>6, <1>7

\* A set of numbers that has a bound has a greatest one.
LEMMA MaxIs ==
    ASSUME NEW n \in Nat, NEW Q, Q \subseteq 0 .. n, Q # {}
    PROVE  Max(Q) \in Q /\ \A x \in Q : x <= Max(Q)
  <1>1. PICK R : R = {n - x : x \in Q}
    OBVIOUS
  <1>2. R \subseteq Nat /\ R # {}
    <2>1. PICK x \in Q : TRUE
      OBVIOUS
    <2>2. n - x \in R
      BY <1>1
    <2>3. \A y \in R : y \in Nat
      <3>1. ASSUME NEW y \in R
            PROVE  y \in Nat
        <4>1. PICK z \in Q : y = n - z
          BY <1>1
        <4>2. z \in Nat /\ z <= n
          OBVIOUS
        <4>. QED
          BY <4>1, <4>2
      <3>. QED
        BY <3>1
    <2>. QED
      BY <2>2, <2>3
  <1>3. Min(R) \in R /\ \A y \in R : Min(R) <= y
    BY <1>2, MinIs
  <1>4. PICK z \in Q : Min(R) = n - z
    BY <1>1, <1>3
  <1>5. \A x \in Q : z >= x
    <2>1. ASSUME NEW x \in Q
          PROVE  z >= x
      <3>1. n - z <= n - x
        BY <1>1, <1>3, <1>4
      <3>2. x \in Nat /\ z \in Nat
        OBVIOUS
      <3>. QED
        BY <3>1, <3>2
    <2>. QED
      BY <2>1
  <1>6. Max(Q) \in Q /\ \A y \in Q : Max(Q) >= y
    BY <1>5 DEF Max
  <1>. QED
    BY <1>6

\* The entries that are true are among those of the stack, which has a last one.
LEMMA TopIs ==
    ASSUME NEW b \in 1 .. 2, NZT \in [1 .. 2 -> Seq(Upto(NumRows))], Fresh(b) # {},
           NEW top, top = Max(Fresh(b))
    PROVE  /\ top \in 1 .. Len(NZT[b]) /\ NZT[b][top] \in Upto(NumRows)
           /\ S.di[NZT[b][top]] >= S.i /\ S.nz[NZT[b][top]] = b
           /\ SubSeq(NZT[b], 1, top - 1) \in Seq(Upto(NumRows))
  <1>1. PICK X : X = Upto(NumRows)
    OBVIOUS
  <1>2. PICK seq : seq = NZT[b]
    OBVIOUS
  <1>3. seq \in Seq(X) /\ Len(seq) \in Nat /\ DOMAIN seq = 1 .. Len(seq)
    BY <1>1, <1>2
  <1>4. PICK Q : Q = Fresh(b)
    OBVIOUS
  <1>5. Q \subseteq 1 .. Len(seq) /\ Q # {}
    BY <1>2, <1>3, <1>4 DEF Fresh
  <1>6. top \in Q
    <2>1. Q \subseteq 0 .. Len(seq)
      BY <1>3, <1>5
    <2>2. Max(Q) \in Q
      BY <1>3, <1>5, <2>1, MaxIs
    <2>. QED
      BY <1>4, <2>2
  <1>7. top \in 1 .. Len(seq) /\ seq[top] \in X
    BY <1>3, <1>5, <1>6, EntryOf
  <1>8. SubSeq(seq, 1, top - 1) \in Seq(X)
    <2>1. top - 1 \in 0 .. Len(seq)
      BY <1>3, <1>7
    <2>. QED
      BY <1>3, <2>1
  <1>9. S.di[NZT[b][top]] >= S.i /\ S.nz[NZT[b][top]] = b
    BY <1>2, <1>4, <1>6, Zenon DEF Fresh
  <1>. QED
    BY <1>1, <1>2, <1>7, <1>8, <1>9

\* One step leaves it as it should be.
LEMMA StepGrown ==
    ASSUME NEW n \in Nat, NEW s, FieldsTyped(s, n, P.L),
           NEW e, NEW ei, Inverses(e, ei, Upto(P.L)),
           NEW nz \in [Upto(n) -> Int], NEW r \in 1 .. 2,
           NEW t, Shrunk(t, s, e, ei, nz, r)
    PROVE  /\ FieldsTyped(t, n, P.L)
           /\ t.d = s.d /\ t.di = s.di /\ t.c = e /\ t.ci = ei /\ t.nz = nz
           /\ t.i = s.i + 1 /\ t.u = s.u + r - 1
  <1>1. e \in [Upto(P.L) -> Upto(P.L)] /\ ei \in [Upto(P.L) -> Upto(P.L)]
    BY DEF Inverses
  <1>2. s.i + 1 \in Nat /\ s.u + r - 1 \in Nat
    BY DEF FieldsTyped
  <1>3. PICK i \in Nat : i = s.i + 1
    BY <1>2
  <1>4. PICK u \in Nat : u = s.u + r - 1
    BY <1>2
  <1>5. PICK w : w = [s EXCEPT !.c = e, !.ci = ei]
    OBVIOUS
  <1>6. FieldsTyped(w, n, P.L) /\ w.i = s.i /\ w.u = s.u /\ w.d = s.d /\ w.di = s.di /\ w.c = e /\ w.ci = ei
    BY <1>1, <1>5 DEF FieldsTyped
  <1>7. t = [w EXCEPT !.nz = nz, !.i = i, !.u = u]
    BY <1>3, <1>4, <1>5, <1>6 DEF FieldsTyped, Shrunk
  <1>8. FieldsTyped(t, n, P.L) /\ t.d = w.d /\ t.di = w.di /\ t.c = w.c /\ t.ci = w.ci /\ t.nz = nz /\ t.i = i /\ t.u = u
    BY <1>6, <1>7 DEF FieldsTyped
  <1>. QED
    BY <1>3, <1>4, <1>6, <1>8

LEMMA PrecondStepKeeps ==
    ASSUME IsCode(P), Growing(A, S, NZT, P, NumRows), NEW b \in 1 .. 2, PrecondStep(b)
    PROVE  Growing(A, S', NZT', P, NumRows)
  <1>. DEFINE n == NumRows
              top == Max(Fresh(b))
  <1>1. /\ IsMatrix(A, n, P) /\ IsSchedule(S, n, P)
        /\ NZT \in [1 .. 2 -> Seq(Upto(n))]
        /\ S.u >= P.P /\ S.i + S.u <= P.L
        /\ CountersTrue(A, S, P, n) /\ TriangleTrue(A, S, P) /\ n \in Nat /\ n >= P.L
    BY DEF Growing, IsMatrix
  <1>2. /\ Fresh(b) # {} /\ S.i + S.u < P.L
        /\ PrecondStep(b)
    BY DEF PrecondStep, InLoop
  <1>. HIDE DEF n
  <1>3. PICK row \in Upto(n) : row = NZT[b][top]
    BY <1>1, <1>2, TopIs DEF n
  <1>4. /\ S.di[row] >= S.i /\ S.nz[row] = b
        /\ SubSeq(NZT[b], 1, top - 1) \in Seq(Upto(n))
    BY <1>1, <1>2, <1>3, TopIs DEF n
  <1>5. /\ S.i \in Nat /\ S.u \in Nat /\ P.L \in Nat /\ P.P \in Nat
        /\ S.d \in [Upto(n) -> Upto(n)] /\ S.di \in [Upto(n) -> Upto(n)]
        /\ S.nz \in [Upto(n) -> Int]
        /\ Inverses(S.d, S.di, Upto(n)) /\ Inverses(S.c, S.ci, Upto(P.L))
        /\ FieldsTyped(S, n, P.L)
    BY <1>1, ScheduleFields DEF IsCode, IsSchedule, FieldsTyped
  <1>6. CounterTrue(A, S, P, row)
    BY <1>1, <1>4 DEF CountersTrue
  <1>7. PICK ones : ones = OnesAt(row)
    OBVIOUS
  <1>8. AreOnes(ones, S, A, P, row, b)
    BY <1>1, <1>4, <1>6, <1>7, ChosenOnes DEF AreOnes, n
  <1>9. S.i \in Upto(n) /\ S.di[row] \in Upto(n)
    <2>1. S.i < n
      BY <1>1, <1>2, <1>5
    <2>2. S.i \in Upto(n)
      BY <1>1, <1>5, <2>1 DEF Upto
    <2>. QED
      BY <1>5, <2>2
  <1>10. PICK s : s = RowsSwapped(S.i, S.di[row])
    OBVIOUS
  <1>11. /\ IsSchedule(s, n, P)
         /\ s.d = Exchange(S.d, S.i, S.di[row])
         /\ s.di = Exchange(S.di, S.d[S.i], S.d[S.di[row]])
         /\ s.c = S.c /\ s.ci = S.ci /\ s.nz = S.nz /\ s.i = S.i /\ s.u = S.u
    BY <1>1, <1>9, <1>10, RowsSwappedIs
  <1>12. RowsMoved(S.d, S.di, s.d, s.di, S.i, row, n)
    BY <1>1, <1>4, <1>5, <1>9, <1>11, RowsSwap
  <1>. PICK last \in Nat : last = P.L - S.u - 1 /\ last < P.L /\ S.i <= last
    <2>1. P.L - S.u - 1 \in Nat /\ P.L - S.u - 1 < P.L /\ S.i <= P.L - S.u - 1
      BY <1>2, <1>5
    <2>. QED
      BY <2>1
  <1>13. /\ ones \subseteq S.i .. last /\ IsFiniteSet(ones) /\ Cardinality(ones) = b
         /\ last \in Nat /\ last < P.L /\ S.i <= last
    BY <1>8 DEF AreOnes, Places
  <1>14. OnesOf(ones, S.i, last, b)
    BY <1>13 DEF OnesOf
  <1>15. PICK e : SwapsCols(e, S.c, S.i, last, ones, b)
    BY DEF SwapsCols
  <1>16. PICK ei : IsFound(ei, e, Upto(P.L))
    BY DEF IsFound
  <1>17. ColsMoved(S.c, e, S.i, last, ones) /\ Inverses(e, ei, Upto(P.L))
    <2>1. S.i \in Nat /\ P.L \in Nat /\ Inverses(S.c, S.ci, Upto(P.L))
      BY <1>5
    <2>. QED
      BY <1>13, <1>14, <1>15, <1>16, <2>1, ColsSwap
  <1>18. ColsSwapped(s, ones) = [s EXCEPT !.c = e, !.ci = ei]
    <2>1. /\ e = IF Cardinality(ones) = 2
                 THEN Exchange(Exchange(S.c, S.i, Min(ones)), P.L - S.u - 1, Max(ones))
                 ELSE Exchange(S.c, S.i, Min(ones))
          /\ ei = [col \in Upto(P.L) |-> CHOOSE m \in Upto(P.L) : e[m] = col]
          /\ s.c = S.c
      BY <1>11, <1>13, <1>15, <1>16 DEF SwapsCols, IsFound
    <2>. QED
      BY <2>1 DEF ColsSwapped
  <1>19. PICK cols : Leaves(cols, e, S.i, last, b)
    BY DEF Leaves
  <1>20. Leaving(ColsSwapped(s, ones), b) = cols
    <2>1. PICK w : w = ColsSwapped(s, ones)
      OBVIOUS
    <2>2. w.c = e
      <3>1. FieldsTyped(s, n, P.L)
        BY <1>11 DEF IsSchedule, FieldsTyped
      <3>. QED
        BY <1>18, <2>1, <3>1 DEF FieldsTyped
    <2>. QED
      BY <1>19, <2>1, <2>2 DEF Leaving, Leaves
  <1>21. PICK V : V = ColsInV(S, P)
    OBVIOUS
  <1>22. ImageOf(S.c, S.i .. last) = V
    BY <1>21 DEF ImageOf, ColsInV
  <1>23. /\ Lists(cols, Left(S.c, ones)) /\ Len(cols) = b
         /\ ImageOf(e, S.i .. last) = V
         /\ ImageOf(e, S.i + 1 .. last - (b - 1)) = V \ Left(S.c, ones)
         /\ Left(S.c, ones) \subseteq V
    <2>1. S.i \in Nat /\ P.L \in Nat /\ Inverses(S.c, S.ci, Upto(P.L))
      BY <1>5
    <2>2. Inverses(e, ei, Upto(P.L)) /\ ColsMoved(S.c, e, S.i, last, ones)
      BY <1>17
    <2>3. HaveLeft(S.c, e, S.i, last, ones, b, cols)
      BY <1>13, <1>14, <1>19, <2>1, <2>2, ColsLeave
    <2>. QED
      BY <1>22, <2>3 DEF HaveLeft
  <1>24. PICK nz : nz = NnzBefore(cols, Len(cols) + 1)
    OBVIOUS
  <1>25. nz \in [Upto(n) -> Int]
    BY <1>5, <1>23, <1>24, NnzBeforeIs DEF n
  <1>26. /\ S' = [[s EXCEPT !.c = e, !.ci = ei] EXCEPT !.nz = nz, !.i = @ + 1, !.u = @ + b - 1]
         /\ NZT' = Restacked(b, top, cols)
    <2>1. PICK w : w = ColsSwapped(s, ones) /\ w = [s EXCEPT !.c = e, !.ci = ei]
      BY <1>18
    <2>2. Leaving(w, b) = cols /\ Cardinality(ones) = b
      BY <1>13, <1>20, <2>1
    <2>3. /\ S' = Advanced(ColsSwapped(RowsSwapped(S.i, S.di[row]), OnesAt(row)),
                            Cardinality(OnesAt(row)))
          /\ NZT' = Restacked(b, top,
                              Leaving(ColsSwapped(RowsSwapped(S.i, S.di[row]), OnesAt(row)),
                                      Cardinality(OnesAt(row))))
      BY <1>2, <1>3 DEF PrecondStep
    <2>4. S' = Advanced(w, b) /\ NZT' = Restacked(b, top, cols)
      BY <1>7, <1>10, <2>1, <2>2, <2>3
    <2>5. Advanced(w, b) = [w EXCEPT !.nz = nz, !.i = @ + 1, !.u = @ + b - 1]
      BY <1>24, <2>2 DEF Advanced
    <2>. QED
      BY <2>1, <2>4, <2>5
  <1>27. PICK t : t = S'
    OBVIOUS
  <1>28. /\ FieldsTyped(t, n, P.L)
         /\ t.d = s.d /\ t.di = s.di /\ t.c = e /\ t.ci = ei /\ t.nz = nz
         /\ t.i = s.i + 1 /\ t.u = s.u + b - 1
    <2>1. FieldsTyped(s, n, P.L)
      BY <1>11 DEF IsSchedule, FieldsTyped
    <2>2. Shrunk(t, s, e, ei, nz, b)
      BY <1>26, <1>27 DEF Shrunk
    <2>3. n \in Nat /\ Inverses(e, ei, Upto(P.L)) /\ b \in 1 .. 2
      BY <1>1, <1>17
    <2>. QED
      BY <1>25, <2>1, <2>2, <2>3, StepGrown
  <1>29. t.i = S.i + 1 /\ t.u = S.u + b - 1
    BY <1>11, <1>28
  <1>30. t.u >= P.P /\ t.i + t.u <= P.L /\ t.i <= P.L - P.P
    <2>1. b = 2 => S.i # last
      BY <1>13, <1>17 DEF ColsMoved
    <2>2. b = 2 => S.i + 1 <= last
      BY <1>5, <1>13, <2>1
    <2>3. /\ S.i + S.u < P.L /\ S.u >= P.P /\ last = P.L - S.u - 1
          /\ S.i \in Nat /\ S.u \in Nat /\ P.L \in Nat /\ P.P \in Nat
      BY <1>1, <1>2, <1>5
    <2>. QED
      BY <1>29, <2>2, <2>3
  <1>31. Grown(t, S, A, P, n, row, b, ones, cols)
    <2>1. t.nz = [r \in Upto(n) |->
                     S.nz[r] - Cardinality({m \in 1 .. Len(cols) : HasCol(A[r], cols[m])})]
      BY <1>23, <1>24, <1>28 DEF NnzBefore, n
    <2>. QED
      BY <1>12, <1>17, <1>28, <1>29, <2>1 DEF Grown
  <1>32. IsSchedule(t, n, P)
    <2>1. Inverses(t.d, t.di, Upto(n)) /\ Inverses(t.c, t.ci, Upto(P.L))
      BY <1>12, <1>17, <1>28 DEF RowsMoved
    <2>2. ASSUME NEW q \in P.L - P.P .. P.L - 1
          PROVE  t.c[q] = q
      <3>1. S.c[q] = q /\ DOMAIN S.c = Upto(P.L)
        BY <1>1, <1>5 DEF IsSchedule, FieldsTyped
      <3>2. q \in Upto(P.L) /\ q \notin S.i .. last
        <4>1. PICK L \in Nat, u \in Nat, m \in Nat, i \in Nat :
                  L = P.L /\ u = S.u /\ m = P.P /\ i = S.i
          BY <1>5, Zenon
        <4>2. q \in L - m .. L - 1 /\ u >= m /\ i + u <= L /\ last = L - u - 1
          BY <1>1, <4>1, Zenon
        <4>3. q \in 0 .. L - 1 /\ q > last
          BY <4>2
        <4>. QED
          BY <1>5, <4>1, <4>3 DEF Upto
      <3>. QED
        BY <1>17, <1>28, <3>1, <3>2 DEF ColsMoved
    <2>. QED
      BY <1>28, <1>30, <2>1, <2>2 DEF IsSchedule, FieldsTyped
  <1>33. ColsInV(t, P) = V \ Left(S.c, ones) /\ ImageOf(t.c, Places(S, P)) = V
    <2>1. P.L - t.u - 1 = last - (b - 1)
      BY <1>5, <1>29
    <2>2. ColsInV(t, P) = ImageOf(e, S.i + 1 .. last - (b - 1))
      BY <1>28, <1>29, <2>1 DEF ColsInV, ImageOf
    <2>3. ImageOf(t.c, Places(S, P)) = ImageOf(e, S.i .. last)
      BY <1>28 DEF Places
    <2>. QED
      BY <1>23, <2>2, <2>3
  <1>34. CountersTrue(A, t, P, n)
    <2>1. PICK gone : gone = Left(S.c, ones)
      OBVIOUS
    <2>2. gone \in SUBSET ColsInV(S, P) /\ Lists(cols, gone) /\ ColsInV(t, P) = ColsInV(S, P) \ gone
      BY <1>21, <1>23, <1>33, <2>1
    <2>. QED
      BY <1>1, <1>5, <1>31, <2>2, CountersKept
  <1>35. TriangleTrue(A, t, P)
    BY <1>1, <1>2, <1>8, <1>21, <1>31, <1>33, TriangleKept
  <1>36. NZT' \in [1 .. 2 -> Seq(Upto(n))]
    <2>1. PICK X : X = Upto(n)
      OBVIOUS
    <2>2. PICK popped : popped = IF b = 2 THEN [[NZT EXCEPT ![b] = SubSeq(@, 1, top - 1)] EXCEPT ![1] = << >>]
                                 ELSE [NZT EXCEPT ![b] = SubSeq(@, 1, top - 1)]
      OBVIOUS
    <2>3. PICK front : front = SubSeq(NZT[b], 1, top - 1)
      OBVIOUS
    <2>4. front \in Seq(X) /\ NZT \in [1 .. 2 -> Seq(X)] /\ << >> \in Seq(X)
      BY <1>1, <1>4, <2>1, <2>3
    <2>5. popped = IF b = 2 THEN [[NZT EXCEPT ![b] = front] EXCEPT ![1] = << >>]
                   ELSE [NZT EXCEPT ![b] = front]
      BY <2>2, <2>3
    <2>6. popped \in [1 .. 2 -> Seq(X)]
      <3>. HIDE <2>2, <2>3
      <3>. QED
        BY <2>4, <2>5
    <2>7. ASSUME NEW m \in 1 .. 2
          PROVE  popped[m] \o PushedFor(cols, m) \in Seq(X)
      <3>1. PICK one : one = popped[m]
        OBVIOUS
      <3>2. PICK two : two = PushedFor(cols, m)
        OBVIOUS
      <3>3. one \in Seq(X)
        BY <2>6, <3>1
      <3>4. two \in Seq(X)
        BY <1>1, <2>1, <3>2, PushedForIs DEF n
      <3>5. one \o two \in Seq(X)
        BY <3>3, <3>4
      <3>. QED
        BY <3>1, <3>2, <3>5
    <2>8. NZT' = [m \in 1 .. 2 |-> popped[m] \o PushedFor(cols, m)]
      BY <1>26, <2>2 DEF Restacked
    <2>. HIDE <2>2, <2>3
    <2>. QED
      BY <2>1, <2>7, <2>8
  <1>. QED
    BY <1>1, <1>27, <1>30, <1>32, <1>34, <1>35, <1>36 DEF Growing, n

-----------------------------------------------------------------------------
\* The row operations.

\* wrkmat_axpy keeps rows of octets.
LEMMA AxpyIs ==
    ASSUME NEW w, NEW n, n = NumRows, n \in Nat, NEW width, IsWork(w, n, width),
           NEW targets \in SUBSET Upto(n), NEW source \in Upto(n),
           NEW beta, \A r \in targets : beta[r] \in Octet
    PROVE  /\ IsWork(Axpy(w, targets, source, beta), n, width)
           /\ Axpy(w, targets, source, beta).hdpc = w.hdpc
  <1>1. PICK more : more = Converted(targets, source)
    OBVIOUS
  <1>2. more \in SUBSET Upto(n) /\ Cardinality(more) \in Nat
    <2>1. more \in SUBSET Upto(n)
      BY <1>1 DEF Converted
    <2>. QED
      BY <2>1, UptoCard, FS_Subset, FS_CardinalityType
  <1>3. PICK C : C = Upto(width)
    OBVIOUS
  <1>4. /\ w.row \in [Upto(n) -> [C -> Octet]] /\ w.type \in SUBSET Upto(n) /\ w.spare \in Nat
        /\ w = [row |-> w.row, type |-> w.type, spare |-> w.spare, hdpc |-> w.hdpc]
    BY <1>3 DEF IsWork
  <1>5. PICK rows : rows = [row \in Upto(n) |->
                               IF row \in targets THEN AddRow(w.row[row], w.row[source], beta[row])
                               ELSE w.row[row]]
    OBVIOUS
  <1>6. rows \in [Upto(n) -> [C -> Octet]]
    <2>1. ASSUME NEW row \in targets
          PROVE  AddRow(w.row[row], w.row[source], beta[row]) \in [C -> Octet]
      <3>1. row \in Upto(n)
        OBVIOUS
      <3>2. PICK x \in [C -> Octet] : x = w.row[row]
        BY <1>4, <3>1
      <3>3. PICK y \in [C -> Octet] : y = w.row[source]
        BY <1>4
      <3>4. PICK u \in Octet : u = beta[row]
        OBVIOUS
      <3>5. AddRow(x, y, u) \in [C -> Octet]
        BY AddRowIs
      <3>. QED
        BY <3>2, <3>3, <3>4, <3>5
    <2>. QED
      BY <1>4, <1>5, <2>1
  <1>7. Axpy(w, targets, source, beta)
        = [w EXCEPT !.row = rows, !.type = w.type \union more, !.spare = w.spare + Cardinality(more)]
    BY <1>1, <1>5 DEF Axpy
  <1>8. PICK spare \in Nat : spare = w.spare + Cardinality(more)
    BY <1>2, <1>4
  <1>9. PICK type \in SUBSET Upto(n) : type = w.type \union more
    BY <1>2, <1>4
  <1>10. Axpy(w, targets, source, beta) = [row |-> rows, type |-> type, spare |-> spare, hdpc |-> w.hdpc]
    BY <1>4, <1>7, <1>8, <1>9
  <1>. QED
    BY <1>3, <1>6, <1>10 DEF IsWork

\* The operations of wrkmat_axpy, for multiples that are not 0
LEMMA AxpyOpsIs ==
    ASSUME NEW n, NEW rows \in Seq(Upto(n)), NEW source \in Upto(n),
           NEW beta, \A k \in 1 .. Len(rows) : beta[rows[k]] \in Octet \ {0}
    PROVE  AxpyOps(rows, source, beta) \in Seq(Ops(n))
  <1>1. ASSUME NEW k \in 1 .. Len(rows)
        PROVE  [i |-> rows[k], j |-> source, beta |-> beta[rows[k]]] \in Ops(n)
    <2>1. PICK i \in Upto(n) : i = rows[k]
      OBVIOUS
    <2>2. PICK y \in Octet \ {0} : y = beta[i]
      BY <2>1
    <2>3. source \in Nat
      BY DEF Upto
    <2>4. [i |-> i, j |-> source, beta |-> y] \in Ops(n)
      BY <2>3 DEF Ops
    <2>. QED
      BY <2>1, <2>2, <2>4
  <1>2. PICK X : X = Ops(n)
    OBVIOUS
  <1>3. PICK len \in Nat : len = Len(rows) /\ DOMAIN rows = 1 .. len
    OBVIOUS
  <1>4. AxpyOps(rows, source, beta) \in [1 .. len -> X]
    BY <1>1, <1>2, <1>3 DEF AxpyOps
  <1>. QED
    BY <1>2, <1>4, FunctionIsSeq

\* A schedule with more operations
LEMMA PushedIs ==
    ASSUME NEW n \in Nat, NEW p, NEW s, IsSchedule(s, n, p), NEW ops \in Seq(Ops(n))
    PROVE  /\ IsSchedule(Pushed(s, ops), n, p)
           /\ Pushed(s, ops).i = s.i /\ Pushed(s, ops).u = s.u
           /\ Pushed(s, ops).d = s.d /\ Pushed(s, ops).di = s.di
           /\ Pushed(s, ops).c = s.c /\ Pushed(s, ops).marks = s.marks
  <1>1. FieldsTyped(s, n, p.L)
    BY DEF IsSchedule, FieldsTyped
  <1>2. PICK X : X = Ops(n)
    OBVIOUS
  <1>3. s.ops \in Seq(X) /\ ops \in Seq(X)
    BY <1>1, <1>2 DEF FieldsTyped
  <1>4. PICK all : all = s.ops \o ops
    OBVIOUS
  <1>5. all \in Seq(X)
    BY <1>3, <1>4
  <1>6. PICK t : t = Pushed(s, ops) /\ t = [s EXCEPT !.ops = all]
    BY <1>4 DEF Pushed
  <1>7. /\ FieldsTyped(t, n, p.L) /\ t.i = s.i /\ t.u = s.u /\ t.d = s.d /\ t.di = s.di
        /\ t.c = s.c /\ t.ci = s.ci /\ t.marks = s.marks
    BY <1>1, <1>2, <1>5, <1>6 DEF FieldsTyped
  <1>8. IsSchedule(t, n, p)
    BY <1>7 DEF IsSchedule, FieldsTyped
  <1>. QED
    BY <1>6, <1>7, <1>8

LEMMA RowsKept ==
    ASSUME NEW n, NEW seq \in Seq(Upto(n)), NEW set, NEW rows, rows = Kept(seq, set)
    PROVE  IsRows(rows, n, set)
  <1>1. PICK X : X = Upto(n)
    OBVIOUS
  <1>2. Keeps(rows, seq, set, X)
    BY <1>1, KeptHas
  <1>3. rows \in Seq(X) /\ \A k \in 1 .. Len(rows) : rows[k] \in set
    BY <1>2 DEF Keeps
  <1>4. \A r \in ToSet(rows) : \E k \in 1 .. Len(rows) : r = rows[k]
    BY <1>3 DEF ToSet
  <1>5. ToSet(rows) \subseteq X /\ ToSet(rows) \subseteq set
    BY <1>3, <1>4
  <1>. QED
    BY <1>1, <1>3, <1>5 DEF IsRows

LEMMA RowsSorted ==
    ASSUME NEW n \in Nat, NEW set \in SUBSET Upto(n), NEW rows, rows = Sorted(set)
    PROVE  IsRows(rows, n, set)
  <1>1. PICK X : X = Upto(n)
    OBVIOUS
  <1>2. set \subseteq Nat /\ IsFiniteSet(set)
    <2>1. set \subseteq Nat
      BY DEF Upto
    <2>. QED
      BY <2>1, UptoCard, FS_Subset
  <1>3. Lists(rows, set)
    BY <1>2, SortedLists
  <1>4. rows \in Seq(X) /\ rows \in Seq(set)
    BY <1>1, <1>3, ListIs DEF Lists
  <1>5. \A k \in 1 .. Len(rows) : rows[k] \in set
    BY <1>4
  <1>6. \A r \in ToSet(rows) : \E k \in 1 .. Len(rows) : r = rows[k]
    BY <1>4 DEF ToSet
  <1>7. ToSet(rows) \subseteq set
    BY <1>5, <1>6
  <1>. QED
    BY <1>1, <1>4, <1>5, <1>7 DEF IsRows

\* A mark is set.
LEMMA MarkedIs ==
    ASSUME NEW n \in Nat, NEW p, NEW s, IsSchedule(s, n, p), NEW k \in 1 .. 2,
           NEW m \in Mark, NEW t, t = [s EXCEPT !.marks[k] = m]
    PROVE  IsSchedule(t, n, p) /\ t.i = s.i /\ t.u = s.u /\ t.marks[k] = m
  <1>1. FieldsTyped(s, n, p.L)
    BY DEF IsSchedule, FieldsTyped
  <1>2. PICK marks : marks = [s.marks EXCEPT ![k] = m]
    OBVIOUS
  <1>3. s.marks \in Mark \X Mark
    BY <1>1 DEF FieldsTyped
  <1>4. marks \in Mark \X Mark /\ marks[k] = m
    <2>1. PICK y \in Mark, z \in Mark : s.marks = <<y, z>>
      BY <1>3
    <2>2. marks = [<<y, z>> EXCEPT ![k] = m]
      BY <1>2, <2>1
    <2>3. k = 1 \/ k = 2
      OBVIOUS
    <2>4. CASE k = 1
      <3>1. marks = <<m, z>>
        BY <2>2, <2>4
      <3>. QED
        BY <2>4, <3>1
    <2>5. CASE k = 2
      <3>1. marks = <<y, m>>
        BY <2>2, <2>5
      <3>. QED
        BY <2>5, <3>1
    <2>. QED
      BY <2>3, <2>4, <2>5
  <1>5. t = [s EXCEPT !.marks = marks]
    BY <1>1, <1>2 DEF FieldsTyped
  <1>6. FieldsTyped(t, n, p.L) /\ t.i = s.i /\ t.u = s.u /\ t.d = s.d /\ t.di = s.di
        /\ t.c = s.c /\ t.ci = s.ci /\ t.marks = marks
    BY <1>1, <1>4, <1>5 DEF FieldsTyped
  <1>7. IsSchedule(t, n, p)
    BY <1>6 DEF IsSchedule, FieldsTyped
  <1>. QED
    BY <1>4, <1>6, <1>7

-----------------------------------------------------------------------------
\* The steps of an inversion.

\* What each step of an inversion leaves to the block and its symbols
LEMMA Continues ==
    ASSUME CodecInv, pc # "start", UNCHANGED codecVars, P' = P,
           D' \in [Upto(Room) -> Symbol], pc' \notin {"start", "receive", "decoded"}
    PROVE  SourceTyped' /\ SymbolsTyped' /\ Room' = Room
  <1>1. SourceTyped /\ P = EncoderParams
    BY DEF CodecInv, SymbolsTyped
  <1>2. /\ sbn' = sbn /\ encoded' = encoded /\ bin' = bin
    BY DEF codecVars
  <1>3. Room' = Room
    BY <1>2 DEF Room, K
  <1>4. Followed' = Followed
    BY <1>2 DEF Followed
  <1>5. SourceTyped'
    BY <1>1, <1>2, <1>4 DEF SourceTyped
  <1>6. SymbolsTyped'
    BY <1>1, <1>3 DEF SymbolsTyped
  <1>. QED
    BY <1>3, <1>5, <1>6

\* The facts of the places of an inversion
LEMMA InWork ==
    ASSUME CodecInv, Working
    PROVE  /\ IsCode(P) /\ IsMatrix(A, NumRows, P) /\ IsSchedule(S, NumRows, P)
           /\ NumRows <= Room /\ NumRows \in Nat /\ NumRows >= P.L
           /\ S.u = P.L - S.i /\ IsWork(U, NumRows, S.u) /\ StepInWork
           /\ pc # "start" /\ D \in [Upto(Room) -> Symbol]
  <1>1. pc # "start" /\ Inverting
    BY DEF Working, Inverting
  <1>2. P = EncoderParams /\ D \in [Upto(Room) -> Symbol]
    BY <1>1 DEF CodecInv, SymbolsTyped
  <1>3. IsCode(P)
    BY <1>2, ObjectIs
  <1>4. IsMatrix(A, NumRows, P) /\ IsSchedule(S, NumRows, P) /\ NumRows <= Room
    BY <1>1 DEF CodecInv, MatrixTyped
  <1>5. NumRows \in Nat /\ NumRows >= P.L
    BY <1>4 DEF IsMatrix
  <1>6. S.u = P.L - S.i /\ IsWork(U, NumRows, S.u) /\ StepInWork
    BY DEF CodecInv, WorkTyped
  <1>. QED
    BY <1>1, <1>2, <1>3, <1>4, <1>5, <1>6

\* Where the work matrix is worked on and remains
LEMMA StillWorking ==
    ASSUME CodecInv, Working, UNCHANGED codecVars, P' = P, A' = A, D' = D,
           pc' \in {"forward", "below", "gf2", "hdpc", "gf256", "back"},
           IsSchedule(S', NumRows, P), S'.i = S.i, S'.u = S.u,
           IsWork(U', NumRows, S.u), StepInWork'
    PROVE  CodecInv'
  <1>1. /\ IsMatrix(A, NumRows, P) /\ NumRows <= Room /\ S.u = P.L - S.i
        /\ pc # "start" /\ D \in [Upto(Room) -> Symbol]
    BY InWork
  <1>2. SourceTyped' /\ SymbolsTyped' /\ Room' = Room
    BY <1>1, Continues
  <1>3. NumRows' = NumRows
    BY DEF NumRows
  <1>4. MatrixTyped'
    BY <1>1, <1>2, <1>3 DEF MatrixTyped
  <1>5. PrecondTrue' /\ StepsTyped'
    BY DEF PrecondTrue, Precond, StepsTyped
  <1>6. WorkTyped'
    BY <1>1, <1>3 DEF WorkTyped
  <1>. QED
    BY <1>2, <1>4, <1>5, <1>6 DEF CodecInv

LEMMA OneIs ==
    ASSUME NEW r \in Upto(NumRows)
    PROVE  One[r] \in Octet \ {0}
  BY DEF One, Octet

\* A multiple of the row at a place is added to others: what wrkmat_axpy and
\* sched_push do together.
LEMMA RowsAdded ==
    ASSUME NEW n, n = NumRows, n \in Nat, NEW width, NEW w, IsWork(w, n, width),
           NEW p, NEW s, IsSchedule(s, n, p), NEW q \in Upto(n),
           NEW rows, NEW set, IsRows(rows, n, set),
           NEW beta, \A r \in set : r \in Upto(n) => beta[r] \in Octet \ {0}
    PROVE  /\ IsWork(Axpy(w, ToSet(rows), s.d[q], beta), n, width)
           /\ Axpy(w, ToSet(rows), s.d[q], beta).hdpc = w.hdpc
           /\ AxpyOps(rows, s.d[q], beta) \in Seq(Ops(n))
  <1>1. PICK source \in Upto(n) : source = s.d[q]
    <2>1. FieldsTyped(s, n, p.L)
      BY DEF IsSchedule, FieldsTyped
    <2>. QED
      BY <2>1 DEF FieldsTyped
  <1>2. /\ rows \in Seq(Upto(n)) /\ ToSet(rows) \in SUBSET Upto(n)
        /\ \A k \in 1 .. Len(rows) : rows[k] \in set
        /\ ToSet(rows) \subseteq set
    BY DEF IsRows
  <1>3. PICK targets \in SUBSET Upto(n) : targets = ToSet(rows)
    BY <1>2
  <1>4. \A r \in targets : beta[r] \in Octet
    BY <1>2, <1>3
  <1>5. IsWork(Axpy(w, targets, source, beta), n, width) /\ Axpy(w, targets, source, beta).hdpc = w.hdpc
    BY <1>4, AxpyIs
  <1>6. \A k \in 1 .. Len(rows) : beta[rows[k]] \in Octet \ {0}
    <2>1. ASSUME NEW k \in 1 .. Len(rows)
          PROVE  beta[rows[k]] \in Octet \ {0}
      <3>1. rows[k] \in set /\ rows[k] \in Upto(n)
        BY <1>2
      <3>. QED
        BY <3>1
    <2>. QED
      BY <2>1
  <1>7. AxpyOps(rows, source, beta) \in Seq(Ops(n))
    BY <1>2, <1>6, AxpyOpsIs
  <1>. QED
    BY <1>1, <1>3, <1>5, <1>7

LEMMA FwdStepKeeps ==
    ASSUME CodecInv, pc \in {"forward", "below"}, step < S.i, UNCHANGED codecVars,
           NEW s, NEW e, FwdStep(s, e)
    PROVE  CodecInv'
  <1>. DEFINE rows == FwdTargets(s, e)
  <1>1. PICK n : n = NumRows
    OBVIOUS
  <1>2. /\ IsCode(P) /\ IsSchedule(S, n, P) /\ n \in Nat /\ n >= P.L
        /\ IsWork(U, n, S.u) /\ StepInWork /\ Working
    BY <1>1, InWork DEF Working
  <1>3. S.i \in Nat /\ S.i <= P.L /\ step \in 0 .. S.i /\ P.L \in Nat
    BY <1>2, SMTT(30) DEF IsSchedule, StepInWork, IsCode
  <1>4. step \in Upto(n)
    BY <1>2, <1>3 DEF Upto
  <1>5. PICK set : set = {row \in RowsOf(S.c[step]) : S.di[row] > Max({s, step}) /\ S.di[row] < e}
    OBVIOUS
  <1>6. set \in SUBSET Upto(n)
    BY <1>1, <1>5 DEF RowsOf
  <1>7. rows = Sorted(set)
    BY <1>5 DEF FwdTargets
  <1>8. IsRows(rows, n, set)
    BY <1>2, <1>6, <1>7, RowsSorted
  <1>9. /\ U' = Axpy(U, ToSet(rows), S.d[step], One)
        /\ S' = Pushed(S, AxpyOps(rows, S.d[step], One))
        /\ step' = step + 1 /\ pc' = pc /\ P' = P /\ A' = A /\ D' = D
    BY DEF FwdStep
  <1>. HIDE DEF rows
  <1>10. /\ IsWork(Axpy(U, ToSet(rows), S.d[step], One), n, S.u)
         /\ AxpyOps(rows, S.d[step], One) \in Seq(Ops(n))
    <2>1. \A r \in set : r \in Upto(n) => One[r] \in Octet \ {0}
      BY <1>1, OneIs
    <2>. QED
      BY <1>1, <1>2, <1>4, <1>8, <2>1, RowsAdded
  <1>11. IsSchedule(S', n, P) /\ S'.i = S.i /\ S'.u = S.u
    BY <1>2, <1>9, <1>10, PushedIs
  <1>12. IsWork(U', n, S.u)
    BY <1>9, <1>10
  <1>13. StepInWork'
    BY <1>3, <1>9, <1>11 DEF StepInWork
  <1>. QED
    BY <1>1, <1>2, <1>9, <1>11, <1>12, <1>13, StillWorking

LEMMA LastOpIs ==
    ASSUME NEW X, S.ops \in Seq(X)
    PROVE  LastOp \in Mark
  BY DEF LastOp, Mark

LEMMA ForwardEndKeeps ==
    ASSUME CodecInv, ForwardEnd, UNCHANGED codecVars
    PROVE  CodecInv'
  <1>1. PICK n : n = NumRows
    OBVIOUS
  <1>2. /\ pc = "forward" /\ step = S.i /\ S' = [S EXCEPT !.marks[1] = LastOp]
        /\ pc' = "below" /\ step' = 0 /\ P' = P /\ A' = A /\ U' = U /\ D' = D
    BY DEF ForwardEnd
  <1>3. /\ IsSchedule(S, n, P) /\ n \in Nat /\ IsWork(U, n, S.u) /\ Working
    BY <1>1, <1>2, InWork DEF Working
  <1>4. LastOp \in Mark
    <2>1. S.ops \in Seq(Ops(n))
      BY <1>3 DEF IsSchedule
    <2>. QED
      BY <2>1, LastOpIs
  <1>5. IsSchedule(S', n, P) /\ S'.i = S.i /\ S'.u = S.u
    BY <1>2, <1>3, <1>4, MarkedIs
  <1>6. S.i \in Nat
    BY <1>3 DEF IsSchedule
  <1>7. StepInWork'
    BY <1>2, <1>5, <1>6 DEF StepInWork
  <1>. QED
    BY <1>1, <1>2, <1>3, <1>5, <1>7, StillWorking

\* BelowEnd, Gf2Fails and HdpcEnd go on to the next loop.
LEMMA NextLoopKeeps ==
    ASSUME CodecInv, BelowEnd \/ Gf2Fails \/ HdpcEnd, UNCHANGED codecVars
    PROVE  CodecInv'
  <1>1. Working
    BY DEF BelowEnd, Gf2Fails, HdpcEnd, Working
  <1>2. /\ IsSchedule(S, NumRows, P) /\ IsWork(U, NumRows, S.u) /\ StepInWork /\ IsCode(P)
    BY <1>1, InWork
  <1>3. S.i \in Nat /\ P.L \in Nat /\ S.i <= P.L
    BY <1>2, SMTT(30) DEF IsSchedule, IsCode
  <1>4. P' = P /\ A' = A /\ S' = S /\ U' = U /\ D' = D
    BY DEF BelowEnd, Gf2Fails, HdpcEnd
  <1>5. \/ pc' = "gf2" /\ step' = S.i
        \/ pc' = "hdpc" /\ step' = -1
        \/ pc' = "gf256" /\ step' = S.i
    BY DEF BelowEnd, Gf2Fails, HdpcEnd
  <1>6. StepInWork'
    BY <1>3, <1>4, <1>5 DEF StepInWork
  <1>. QED
    BY <1>1, <1>2, <1>4, <1>5, <1>6, StillWorking

LEMMA TriangularKeeps ==
    ASSUME CodecInv, Triangular, UNCHANGED codecVars
    PROVE  CodecInv'
  <1>1. PICK n : n = NumRows
    OBVIOUS
  <1>2. /\ pc \in {"gf2", "gf256"} /\ S' = [S EXCEPT !.marks[2] = LastOp]
        /\ pc' = "back" /\ step' = P.L - 1 /\ P' = P /\ A' = A /\ U' = U /\ D' = D
    BY DEF Triangular
  <1>3. /\ IsSchedule(S, n, P) /\ n \in Nat /\ IsWork(U, n, S.u) /\ Working /\ IsCode(P)
    BY <1>1, <1>2, InWork DEF Working
  <1>4. LastOp \in Mark
    <2>1. S.ops \in Seq(Ops(n))
      BY <1>3 DEF IsSchedule
    <2>. QED
      BY <2>1, LastOpIs
  <1>5. IsSchedule(S', n, P) /\ S'.i = S.i /\ S'.u = S.u
    BY <1>2, <1>3, <1>4, MarkedIs
  <1>6. S.i \in Nat /\ P.L \in Nat /\ S.i <= P.L
    BY <1>3, SMTT(30) DEF IsSchedule, IsCode
  <1>7. StepInWork'
    BY <1>2, <1>5, <1>6 DEF StepInWork
  <1>. QED
    BY <1>1, <1>2, <1>3, <1>5, <1>7, StillWorking

\* The least of the pivots, and the rows below it
LEMMA PivotIs ==
    ASSUME NEW n, n \in Nat, NEW last \in Nat, last <= n, step \in Nat, Pivots(last) # {}
    PROVE  /\ Min(Pivots(last)) \in Upto(n) /\ Min(Pivots(last)) \in Pivots(last)
           /\ step < last /\ step \in Upto(n)
  <1>1. PICK Q : Q = Pivots(last)
    OBVIOUS
  <1>2. Q \subseteq step .. last - 1 /\ Q # {}
    BY <1>1 DEF Pivots
  <1>3. Q \subseteq Nat
    BY <1>2
  <1>4. PICK z \in Q : z = Min(Q)
    BY <1>2, <1>3, MinIs
  <1>5. z \in Nat /\ z <= last - 1 /\ step <= z
    <2>1. z \in step .. last - 1
      BY <1>2
    <2>. QED
      BY <2>1
  <1>6. z \in Upto(n) /\ step < last /\ step \in Upto(n)
    BY <1>5 DEF Upto
  <1>. QED
    BY <1>1, <1>4, <1>6

LEMMA RowsBelowIs ==
    ASSUME NEW n, n = NumRows, n \in Nat, NEW s, IsSchedule(s, n, P),
           NEW last \in Nat, last <= n, step \in Nat, step < last
    PROVE  IsRows(RowsBelow(s, last), n, {row \in Upto(n) : U.row[row][step - S.i] # 0})
  <1>1. PICK len \in Nat : len = last - 1 - step
    OBVIOUS
  <1>2. PICK X : X = Upto(n)
    OBVIOUS
  <1>3. s.d \in [X -> X]
    BY <1>2 DEF IsSchedule
  <1>4. PICK seq : seq = [k \in 1 .. len |-> s.d[step + k]]
    OBVIOUS
  <1>5. \A k \in 1 .. len : step + k \in X
    BY <1>1, <1>2 DEF Upto
  <1>6. seq \in [1 .. len -> X]
    BY <1>3, <1>4, <1>5
  <1>7. seq \in Seq(X)
    BY <1>6, FunctionIsSeq
  <1>8. PICK set : set = {row \in Upto(n) : U.row[row][step - S.i] # 0}
    OBVIOUS
  <1>9. RowsBelow(s, last) = Kept(seq, set)
    BY <1>1, <1>4, <1>8 DEF RowsBelow
  <1>. QED
    BY <1>2, <1>7, <1>8, <1>9, RowsKept

LEMMA Gf2StepKeeps ==
    ASSUME CodecInv, Gf2Step, UNCHANGED codecVars
    PROVE  CodecInv'
  <1>. DEFINE m == Min(Pivots(NumSparse))
  <1>1. PICK n : n = NumRows
    OBVIOUS
  <1>2. /\ pc = "gf2" /\ step # P.L /\ Pivots(NumSparse) # {} /\ Working
        /\ step' = step + 1 /\ pc' = pc /\ P' = P /\ A' = A /\ D' = D
    BY DEF Gf2Step, Working, Solved
  <1>3. /\ IsCode(P) /\ IsSchedule(S, n, P) /\ n \in Nat /\ n >= P.L
        /\ IsWork(U, n, S.u) /\ StepInWork
    BY <1>1, <1>2, InWork
  <1>4. S.i \in Nat /\ P.L \in Nat /\ step \in S.i .. P.L /\ step < P.L /\ P.H \in Nat /\ P.L >= P.H
    <2>1. P.L \in Nat /\ P.H \in Nat /\ P.L >= P.H
      BY <1>3 DEF IsCode
    <2>2. S.i \in Nat
      BY <1>3 DEF IsSchedule
    <2>3. step \in S.i .. P.L
      BY <1>2, <1>3 DEF StepInWork
    <2>. QED
      BY <1>2, <2>1, <2>2, <2>3
  <1>5. PICK last \in Nat : last = NumSparse /\ last <= n
    BY <1>1, <1>3, <1>4 DEF NumSparse
  <1>6. PICK k \in Upto(n) : k = m /\ step < last /\ step \in Upto(n)
    BY <1>2, <1>3, <1>4, <1>5, PivotIs
  <1>7. PICK s : s = RowsSwapped(step, k)
    OBVIOUS
  <1>8. IsSchedule(s, n, P) /\ s.i = S.i /\ s.u = S.u
    BY <1>3, <1>6, <1>7, RowsSwappedIs
  <1>9. PICK rows : rows = RowsBelow(s, last)
    OBVIOUS
  <1>10. PICK set : set = {row \in Upto(n) : U.row[row][step - S.i] # 0}
    OBVIOUS
  <1>11. IsRows(rows, n, set)
    BY <1>1, <1>3, <1>4, <1>5, <1>6, <1>8, <1>9, <1>10, RowsBelowIs
  <1>12. /\ S' = Pushed(s, AxpyOps(rows, s.d[step], One))
         /\ U' = Axpy(U, ToSet(rows), s.d[step], One)
    BY <1>5, <1>6, <1>7, <1>9 DEF Gf2Step
  <1>13. /\ IsWork(Axpy(U, ToSet(rows), s.d[step], One), n, S.u)
         /\ AxpyOps(rows, s.d[step], One) \in Seq(Ops(n))
    <2>1. \A r \in set : r \in Upto(n) => One[r] \in Octet \ {0}
      BY <1>1, OneIs
    <2>. QED
      BY <1>1, <1>3, <1>6, <1>8, <1>11, <2>1, RowsAdded
  <1>14. IsSchedule(S', n, P) /\ S'.i = S.i /\ S'.u = S.u
    BY <1>3, <1>8, <1>12, <1>13, PushedIs
  <1>15. IsWork(U', n, S.u)
    BY <1>12, <1>13
  <1>16. StepInWork'
    BY <1>2, <1>4, <1>14 DEF StepInWork
  <1>. QED
    BY <1>1, <1>2, <1>14, <1>15, <1>16, StillWorking

\* What the proofs below use at a place where the matrix is worked on
LEMMA WorkFacts ==
    ASSUME CodecInv, Working, NEW n, n = NumRows
    PROVE  /\ IsCode(P) /\ IsSchedule(S, n, P) /\ n \in Nat /\ n >= P.L
           /\ IsWork(U, n, S.u) /\ StepInWork /\ S.u = P.L - S.i
           /\ S.i \in Nat /\ P.L \in Nat /\ P.H \in Nat /\ P.H >= 2 /\ P.S \in Nat /\ P.P \in Nat
           /\ P.Kprime \in Nat /\ P.L = P.Kprime + P.S + P.H /\ P.P >= P.H
           /\ S.i <= P.L - P.P
           /\ S.d \in [Upto(n) -> Upto(n)] /\ S.di \in [Upto(n) -> Upto(n)]
           /\ S.c \in [Upto(P.L) -> Upto(P.L)]
  <1>1. /\ IsCode(P) /\ IsSchedule(S, n, P) /\ n \in Nat /\ n >= P.L
        /\ IsWork(U, n, S.u) /\ StepInWork /\ S.u = P.L - S.i
    BY InWork
  <1>2. /\ P.L \in Nat /\ P.H \in Nat /\ P.H >= 2 /\ P.S \in Nat /\ P.P \in Nat
        /\ P.Kprime \in Nat /\ P.L = P.Kprime + P.S + P.H /\ P.P >= P.H
    BY <1>1 DEF IsCode
  <1>3. S.i \in Nat /\ S.i <= P.L - P.P
    BY <1>1 DEF IsSchedule
  <1>4. /\ S.d \in [Upto(n) -> Upto(n)] /\ S.di \in [Upto(n) -> Upto(n)]
        /\ S.c \in [Upto(P.L) -> Upto(P.L)]
    BY <1>1, ScheduleFields
  <1>. QED
    BY <1>1, <1>2, <1>3, <1>4

\* The HDPC block has no column for the last H symbols, which stay where they
\* are: a place before them leads to a column of the block.
LEMMA ColumnKept ==
    ASSUME IsCode(P), NEW n \in Nat, IsSchedule(S, n, P), NEW q \in Upto(P.Kprime + P.S)
    PROVE  S.c[q] \in Upto(P.Kprime + P.S)
  <1>1. /\ P.L \in Nat /\ P.H \in Nat /\ P.S \in Nat /\ P.P \in Nat /\ P.Kprime \in Nat
        /\ P.L = P.Kprime + P.S + P.H /\ P.P >= P.H /\ P.L >= P.P
    BY DEF IsCode
  <1>2. PICK L \in Nat : L = P.L
    BY <1>1
  <1>3. PICK k \in 0 .. L : k = L - P.P
    BY <1>1, <1>2
  <1>4. PICK j \in k .. L : j = P.Kprime + P.S
    BY <1>1, <1>2, <1>3
  <1>5. PICK c : c = S.c
    OBVIOUS
  <1>6. Inverses(c, S.ci, Upto(L))
    BY <1>2, <1>5 DEF IsSchedule
  <1>7. \A x \in k .. L - 1 : c[x] = x
    BY <1>2, <1>3, <1>5 DEF IsSchedule
  <1>8. q \in Upto(j)
    BY <1>4
  <1>9. c[q] \in Upto(j)
    BY <1>6, <1>7, <1>8, RestKept
  <1>. QED
    BY <1>4, <1>5, <1>9

LEMMA HdpcBeginKeeps ==
    ASSUME CodecInv, HdpcBegin, UNCHANGED codecVars
    PROVE  CodecInv'
  <1>1. PICK n : n = NumRows
    OBVIOUS
  <1>2. /\ pc = "hdpc" /\ step' = 0 /\ pc' = pc /\ P' = P /\ A' = A /\ S' = S /\ D' = D
        /\ Working
    BY DEF HdpcBegin, Working
  <1>3. /\ IsCode(P) /\ IsSchedule(S, n, P) /\ n \in Nat /\ n >= P.L
        /\ IsWork(U, n, S.u) /\ S.u = P.L - S.i
        /\ S.i \in Nat /\ P.L \in Nat /\ P.H \in Nat /\ P.S \in Nat /\ P.Kprime \in Nat
        /\ P.L = P.Kprime + P.S + P.H
    BY <1>1, <1>2, WorkFacts
  <1>4. PICK C : C = Upto(S.u)
    OBVIOUS
  <1>5. PICK cols : cols = [col \in Upto(P.Kprime + P.S) |-> HdpcColumn(P, col)]
    OBVIOUS
  <1>6. cols \in [Upto(P.Kprime + P.S) -> [Upto(P.H) -> Octet]]
    <2>1. \A col \in Upto(P.Kprime + P.S) : HdpcColumn(P, col) \in [Upto(P.H) -> Octet]
      BY <1>3, HdpcColumnIs
    <2>. QED
      BY <1>5, <2>1
  <1>7. PICK rows : rows = [r \in Upto(NumRows) |->
                         IF r \in P.S .. P.S + P.H - 1
                         THEN [q \in Upto(S.u) |->
                                 IF q < S.u - P.H
                                 THEN HdpcColumn(P, S.c[S.i + q])[r - P.S]
                                 ELSE IF q - (S.u - P.H) = r - P.S
                                      THEN 1 ELSE 0]
                         ELSE U.row[r]]
    OBVIOUS
  <1>8. ASSUME NEW r \in P.S .. P.S + P.H - 1, NEW q \in C, q < S.u - P.H
        PROVE  HdpcColumn(P, S.c[S.i + q])[r - P.S] \in Octet
    <2>1. S.i + q \in Upto(P.Kprime + P.S)
      <3>1. q \in Nat
        BY <1>4 DEF Upto
      <3>2. S.i + q < P.Kprime + P.S /\ S.i + q \in Nat
        BY <1>3, <1>8, <3>1
      <3>. QED
        BY <1>3, <3>2 DEF Upto
    <2>2. PICK col \in Upto(P.Kprime + P.S) : col = S.c[S.i + q]
      BY <1>3, <2>1, ColumnKept
    <2>3. HdpcColumn(P, col) \in [Upto(P.H) -> Octet]
      BY <1>3, HdpcColumnIs
    <2>4. r - P.S \in Upto(P.H)
      BY <1>3 DEF Upto
    <2>. QED
      BY <2>2, <2>3, <2>4
  <1>9. rows \in [Upto(n) -> [C -> Octet]]
    <2>1. U.row \in [Upto(n) -> [C -> Octet]]
      BY <1>3, <1>4 DEF IsWork
    <2>2. ASSUME NEW r \in P.S .. P.S + P.H - 1
          PROVE  [q \in C |-> IF q < S.u - P.H
                              THEN HdpcColumn(P, S.c[S.i + q])[r - P.S]
                              ELSE IF q - (S.u - P.H) = r - P.S THEN 1 ELSE 0]
                 \in [C -> Octet]
      <3>1. 0 \in Octet /\ 1 \in Octet
        BY DEF Octet
      <3>. QED
        BY <1>8, <3>1
    <2>. QED
      BY <1>1, <1>4, <1>7, <2>1, <2>2
  <1>10. PICK type : type = P.S .. P.S + P.H - 1
    OBVIOUS
  <1>11. type \in SUBSET Upto(n)
    BY <1>3, <1>10, SMTT(30) DEF Upto
  <1>12. U' = [row |-> rows, type |-> type, spare |-> P.H, hdpc |-> cols]
    BY <1>5, <1>7, <1>10 DEF HdpcBegin
  <1>13. IsWork(U', n, S.u)
    BY <1>3, <1>4, <1>9, <1>11, <1>12 DEF IsWork
  <1>14. U'.hdpc = cols
    BY <1>12
  <1>15. StepInWork'
    BY <1>2, <1>3, <1>6, <1>14 DEF StepInWork
  <1>. QED
    BY <1>1, <1>2, <1>3, <1>13, <1>15, StillWorking

LEMMA HdpcStepKeeps ==
    ASSUME CodecInv, HdpcStep, UNCHANGED codecVars
    PROVE  CodecInv'
  <1>1. PICK n : n = NumRows
    OBVIOUS
  <1>2. /\ pc = "hdpc" /\ step >= 0 /\ step < S.i
        /\ step' = step + 1 /\ pc' = pc /\ P' = P /\ A' = A /\ D' = D /\ Working
    BY Zenon DEF HdpcStep, Working
  <1>3. /\ IsCode(P) /\ IsSchedule(S, n, P) /\ n \in Nat /\ n >= P.L
        /\ IsWork(U, n, S.u) /\ StepInWork
        /\ S.i \in Nat /\ P.L \in Nat /\ P.H \in Nat /\ P.S \in Nat /\ P.Kprime \in Nat
        /\ P.L = P.Kprime + P.S + P.H /\ P.P \in Nat /\ P.P >= P.H /\ S.i <= P.L - P.P
        /\ S.d \in [Upto(n) -> Upto(n)] /\ S.di \in [Upto(n) -> Upto(n)]
    BY <1>1, <1>2, WorkFacts
  <1>4. step \in -1 .. S.i /\ U.hdpc \in [Upto(P.Kprime + P.S) -> [Upto(P.H) -> Octet]]
    BY <1>2, <1>3 DEF StepInWork
  <1>5. step \in Upto(P.Kprime + P.S) /\ step \in Upto(n)
    <2>1. step \in Nat
      BY <1>2, <1>3, <1>4
    <2>2. step < P.Kprime + P.S /\ step < n
      <3>1. /\ P.L \in Nat /\ P.H \in Nat /\ P.S \in Nat /\ P.Kprime \in Nat /\ P.P \in Nat
            /\ S.i \in Nat /\ n \in Nat /\ step < S.i /\ S.i <= P.L - P.P /\ P.P >= P.H
            /\ P.L = P.Kprime + P.S + P.H /\ n >= P.L
        BY <1>2, <1>3
      <3>. QED
        BY <2>1, <3>1
    <2>3. P.Kprime + P.S \in Nat /\ n \in Nat
      BY <1>3
    <2>. QED
      BY <2>1, <2>2, <2>3 DEF Upto
  <1>6. PICK col \in Upto(P.Kprime + P.S) : col = S.c[step]
    BY <1>3, <1>5, ColumnKept
  <1>7. PICK column \in [Upto(P.H) -> Octet] : column = U.hdpc[S.c[step]]
    BY <1>4, <1>6
  <1>8. PICK sparse \in Nat, H \in Nat : sparse = NumSparse /\ sparse = n - H /\ H = P.H
    BY <1>1, <1>3 DEF NumSparse
  <1>. n \in Nat
    BY <1>3
  <1>9. PICK beta : beta = [r \in Upto(NumRows) |->
                       IF S.di[r] >= NumSparse THEN column[S.di[r] - NumSparse] ELSE 0]
    OBVIOUS
  <1>10. ASSUME NEW r \in Upto(n)
         PROVE  beta[r] \in Octet
    <2>1. S.di[r] \in Upto(n)
      BY <1>3
    <2>2. PICK m \in Upto(n) : m = S.di[r]
      BY <2>1
    <2>3. m >= sparse => m - sparse \in Upto(H)
      BY <1>8, SMTT(30) DEF Upto
    <2>4. 0 \in Octet
      BY DEF Octet
    <2>. QED
      BY <1>1, <1>7, <1>8, <1>9, <2>2, <2>3, <2>4
  <1>11. PICK seq : seq = [h \in 1 .. P.H |-> S.d[NumSparse + h - 1]]
    OBVIOUS
  <1>12. seq \in Seq(Upto(n))
    <2>1. \A h \in 1 .. H : sparse + h - 1 \in Upto(n)
      BY <1>8, SMTT(30) DEF Upto
    <2>2. seq \in [1 .. P.H -> Upto(n)]
      BY <1>3, <1>8, <1>11, <2>1
    <2>. QED
      BY <1>3, <2>2, FunctionIsSeq
  <1>13. PICK set : set = {r \in Upto(NumRows) : beta[r] # 0}
    BY Zenon
  <1>14. PICK rows : rows = Kept(seq, set)
    OBVIOUS
  <1>15. IsRows(rows, n, set)
    BY <1>12, <1>14, RowsKept
  <1>16. /\ U' = Axpy(U, ToSet(rows), S.d[step], beta)
         /\ S' = Pushed(S, AxpyOps(rows, S.d[step], beta))
    BY <1>7, <1>9, <1>11, <1>13, <1>14, Zenon DEF HdpcStep
  <1>17. /\ IsWork(Axpy(U, ToSet(rows), S.d[step], beta), n, S.u)
         /\ Axpy(U, ToSet(rows), S.d[step], beta).hdpc = U.hdpc
         /\ AxpyOps(rows, S.d[step], beta) \in Seq(Ops(n))
    <2>1. \A r \in set : r \in Upto(n) => beta[r] \in Octet \ {0}
      BY <1>10, <1>13
    <2>2. IsSchedule(S, n, P) /\ IsWork(U, n, S.u) /\ step \in Upto(n) /\ n = NumRows
      BY <1>1, <1>3, <1>5
    <2>. QED
      BY <1>15, <2>1, <2>2, RowsAdded, SMTT(30)
  <1>18. IsSchedule(S', n, P) /\ S'.i = S.i /\ S'.u = S.u
    BY <1>3, <1>16, <1>17, PushedIs, SMTT(30)
  <1>19. IsWork(U', n, S.u) /\ U'.hdpc = U.hdpc
    BY <1>16, <1>17
  <1>20. StepInWork'
    BY <1>2, <1>3, <1>4, <1>18, <1>19 DEF StepInWork
  <1>. QED
    BY <1>1, <1>2, <1>18, <1>19, <1>20, StillWorking, Zenon

\* Where an inversion has ended
LEMMA StopKeeps ==
    ASSUME CodecInv, pc # "start", UNCHANGED codecVars, P' = P,
           D' \in [Upto(Room) -> Symbol],
           pc' \in {"singular", "aborted", "overrun", "inverted"}
    PROVE  CodecInv'
  <1>1. SourceTyped' /\ SymbolsTyped'
    BY Continues
  <1>2. MatrixTyped' /\ PrecondTrue' /\ WorkTyped' /\ StepsTyped'
    BY DEF MatrixTyped, PrecondTrue, WorkTyped, StepsTyped, Inverting, Precond, Working, Applying
  <1>. QED
    BY <1>1, <1>2 DEF CodecInv

LEMMA ScaledIs ==
    ASSUME NEW n \in Nat, NEW width, IsWork(U, n, width), NEW row \in Upto(n), NEW u \in Octet
    PROVE  /\ IsWork(Scaled(row, u), n, width)
           /\ ScaleOps(row, u) \in Seq(Ops(n))
  <1>1. PICK C : C = Upto(width)
    OBVIOUS
  <1>2. /\ U.row \in [Upto(n) -> [C -> Octet]] /\ U.type \in SUBSET Upto(n) /\ U.spare \in Nat
        /\ U = [row |-> U.row, type |-> U.type, spare |-> U.spare, hdpc |-> U.hdpc]
    BY <1>1 DEF IsWork
  <1>3. PICK y \in Octet : y = OCT_INV[u]
    BY InverseIs
  <1>4. PICK x \in [C -> Octet] : x = U.row[row]
    BY <1>2
  <1>5. PICK z \in [C -> Octet] : z = ScaleRow(x, y)
    BY ScaleRowIs
  <1>6. PICK rows : rows = [U.row EXCEPT ![row] = z]
    OBVIOUS
  <1>7. rows \in [Upto(n) -> [C -> Octet]]
    BY <1>2, <1>6
  <1>8. CASE u > 1
    <2>1. Scaled(row, u) = [U EXCEPT !.row = rows]
      <3>1. [U EXCEPT !.row[row] = ScaleRow(@, y)] = [U EXCEPT !.row = rows]
        BY <1>2, <1>4, <1>5, <1>6
      <3>. QED
        BY <1>3, <1>8, <3>1 DEF Scaled
    <2>2. Scaled(row, u) = [row |-> rows, type |-> U.type, spare |-> U.spare, hdpc |-> U.hdpc]
      BY <1>2, <2>1
    <2>3. IsWork(Scaled(row, u), n, width)
      BY <1>1, <1>2, <1>7, <2>2 DEF IsWork
    <2>4. PICK op : op = [i |-> row, j |-> y, beta |-> 0]
      OBVIOUS
    <2>5. op \in Ops(n)
      <3>1. y \in Nat /\ 0 \in Octet
        BY DEF Octet
      <3>. QED
        BY <2>4, <3>1 DEF Ops
    <2>6. ScaleOps(row, u) = <<op>>
      BY <1>3, <1>8, <2>4 DEF ScaleOps
    <2>7. PICK X : X = Ops(n)
      OBVIOUS
    <2>8. <<op>> \in Seq(X)
      BY <2>5, <2>7
    <2>. QED
      BY <2>3, <2>6, <2>7, <2>8
  <1>9. CASE ~(u > 1)
    <2>1. Scaled(row, u) = U /\ ScaleOps(row, u) = << >>
      BY <1>9 DEF Scaled, ScaleOps
    <2>. QED
      BY <2>1
  <1>. QED
    BY <1>8, <1>9

LEMMA Gf256StepKeeps ==
    ASSUME CodecInv, Gf256Step, UNCHANGED codecVars
    PROVE  CodecInv'
  <1>1. PICK n : n = NumRows
    OBVIOUS
  <1>2. /\ pc = "gf256" /\ step # P.L /\ Pivots(n) # {} /\ Working
        /\ P' = P /\ A' = A /\ D' = D
    BY <1>1 DEF Gf256Step, Working, Solved
  <1>3. /\ IsCode(P) /\ IsSchedule(S, n, P) /\ n \in Nat /\ n >= P.L
        /\ IsWork(U, n, S.u) /\ StepInWork /\ S.u = P.L - S.i
        /\ S.i \in Nat /\ P.L \in Nat /\ S.d \in [Upto(n) -> Upto(n)]
    BY <1>1, <1>2, WorkFacts
  <1>4. step \in S.i .. P.L /\ step < P.L /\ step \in Nat
    <2>1. step \in S.i .. P.L
      BY <1>2, <1>3 DEF StepInWork
    <2>. QED
      BY <1>2, <1>3, <2>1
  <1>5. PICK m \in Upto(n) : m = Min(Pivots(n)) /\ step < n /\ step \in Upto(n)
    BY <1>2, <1>3, <1>4, PivotIs
  <1>6. PICK col \in Upto(S.u) : col = step - S.i
    <2>1. /\ S.i \in Nat /\ step \in Nat /\ P.L \in Nat /\ S.u = P.L - S.i
          /\ S.i <= step /\ step < P.L
      BY <1>3, <1>4
    <2>2. step - S.i \in Nat /\ step - S.i < S.u /\ S.u \in Nat
      BY <2>1
    <2>3. step - S.i \in Upto(S.u)
      BY <2>2 DEF Upto
    <2>. QED
      BY <2>3
  <1>7. PICK u \in Octet : u = At(m, step - S.i)
    <2>1. U.row \in [Upto(n) -> [Upto(S.u) -> Octet]]
      BY <1>3 DEF IsWork
    <2>2. S.d[m] \in Upto(n)
      BY <1>3
    <2>. QED
      BY <1>6, <2>1, <2>2 DEF At
  <1>8. PICK s : s = RowsSwapped(step, m)
    OBVIOUS
  <1>9. IsSchedule(s, n, P) /\ s.i = S.i /\ s.u = S.u
    BY <1>3, <1>5, <1>8, RowsSwappedIs
  <1>10. PICK row \in Upto(n) : row = s.d[step]
    <2>1. s.d \in [Upto(n) -> Upto(n)]
      BY <1>9 DEF IsSchedule
    <2>. QED
      BY <1>5, <2>1
  <1>11. PICK rows : rows = RowsBelow(s, n)
    OBVIOUS
  <1>12. PICK set : set = {r \in Upto(n) : U.row[r][step - S.i] # 0}
    OBVIOUS
  <1>13. IsRows(rows, n, set)
    BY <1>1, <1>3, <1>4, <1>5, <1>9, <1>11, <1>12, RowsBelowIs
  <1>14. PICK beta : beta = [r \in Upto(NumRows) |-> U.row[r][step - S.i]]
    OBVIOUS
  <1>15. PICK w : w = Scaled(row, u)
    OBVIOUS
  <1>16. IsWork(w, n, S.u) /\ ScaleOps(row, u) \in Seq(Ops(n))
    BY <1>3, <1>15, ScaledIs
  <1>17. /\ IsWork(Axpy(w, ToSet(rows), s.d[step], beta), n, S.u)
         /\ AxpyOps(rows, s.d[step], beta) \in Seq(Ops(n))
    <2>1. ASSUME NEW r \in set
          PROVE  beta[r] \in Octet \ {0}
      <3>1. U.row \in [Upto(n) -> [Upto(S.u) -> Octet]]
        BY <1>3 DEF IsWork
      <3>2. r \in Upto(n) /\ U.row[r][col] # 0
        BY <1>6, <1>12
      <3>. QED
        BY <1>1, <1>6, <1>14, <3>1, <3>2
    <2>2. n \in Nat /\ n = NumRows /\ step \in Upto(n)
      BY <1>1, <1>3, <1>5
    <2>. QED
      BY <1>9, <1>13, <1>16, <2>1, <2>2, RowsAdded
  <1>18. \/ /\ S' = Pushed(s, ScaleOps(row, u) \o AxpyOps(rows, s.d[step], beta))
            /\ U' = Axpy(w, ToSet(rows), s.d[step], beta)
            /\ step' = step + 1 /\ pc' = pc
         \/ pc' = "aborted"
    BY <1>1, <1>5, <1>7, <1>8, <1>10, <1>11, <1>14, <1>15 DEF Gf256Step
  <1>19. CASE pc' = "aborted"
    BY <1>2, <1>19, InWork, StopKeeps
  <1>20. CASE /\ S' = Pushed(s, ScaleOps(row, u) \o AxpyOps(rows, s.d[step], beta))
              /\ U' = Axpy(w, ToSet(rows), s.d[step], beta)
              /\ step' = step + 1 /\ pc' = pc
    <2>1. PICK ops : ops = ScaleOps(row, u) \o AxpyOps(rows, s.d[step], beta)
      OBVIOUS
    <2>2. ops \in Seq(Ops(n))
      <3>1. PICK X : X = Ops(n)
        OBVIOUS
      <3>2. PICK one : one = ScaleOps(row, u)
        OBVIOUS
      <3>3. PICK two : two = AxpyOps(rows, s.d[step], beta)
        OBVIOUS
      <3>4. one \in Seq(X) /\ two \in Seq(X)
        BY <1>16, <1>17, <3>1, <3>2, <3>3
      <3>5. one \o two \in Seq(X)
        BY <3>4
      <3>. QED
        BY <2>1, <3>1, <3>2, <3>3, <3>5
    <2>3. S' = Pushed(s, ops)
      BY <1>20, <2>1
    <2>4. IsSchedule(S', n, P) /\ S'.i = S.i /\ S'.u = S.u
      BY <1>3, <1>9, <2>2, <2>3, PushedIs
    <2>5. IsWork(U', n, S.u)
      BY <1>17, <1>20
    <2>6. StepInWork'
      BY <1>2, <1>3, <1>4, <1>20, <2>4 DEF StepInWork
    <2>. QED
      BY <1>1, <1>2, <1>20, <2>4, <2>5, <2>6, StillWorking
  <1>. QED
    BY <1>18, <1>19, <1>20

LEMMA Gf256FailsKeeps ==
    ASSUME CodecInv, Gf256Fails, UNCHANGED codecVars
    PROVE  CodecInv'
  <1>1. Working /\ pc' = "singular" /\ P' = P /\ D' = D
    BY DEF Gf256Fails, Working
  <1>. QED
    BY <1>1, InWork, StopKeeps

LEMMA BacksolveKeeps ==
    ASSUME CodecInv, Backsolve, UNCHANGED codecVars
    PROVE  CodecInv'
  <1>1. PICK n : n = NumRows
    OBVIOUS
  <1>2. /\ pc = "back" /\ step >= S.i /\ Working
        /\ P' = P /\ A' = A /\ D' = D /\ U' = U /\ step' = step - 1 /\ pc' = pc
    BY DEF Backsolve, Working
  <1>3. /\ IsCode(P) /\ IsSchedule(S, n, P) /\ n \in Nat /\ n >= P.L
        /\ IsWork(U, n, S.u) /\ StepInWork /\ S.u = P.L - S.i
        /\ S.i \in Nat /\ P.L \in Nat /\ S.d \in [Upto(n) -> Upto(n)]
    BY <1>1, <1>2, WorkFacts
  <1>4. step \in S.i - 1 .. P.L - 1 /\ step \in Nat /\ step < P.L
    <2>1. step \in S.i - 1 .. P.L - 1
      BY <1>2, <1>3 DEF StepInWork
    <2>. QED
      BY <1>2, <1>3, <2>1
  <1>5. step \in Upto(n)
    BY <1>3, <1>4 DEF Upto
  <1>6. PICK col \in Upto(S.u) : col = step - S.i
    <2>1. /\ S.i \in Nat /\ step \in Nat /\ P.L \in Nat /\ S.u = P.L - S.i
          /\ S.i <= step /\ step < P.L
      BY <1>2, <1>3, <1>4
    <2>2. step - S.i \in Nat /\ step - S.i < S.u /\ S.u \in Nat
      BY <2>1
    <2>3. step - S.i \in Upto(S.u)
      BY <2>2 DEF Upto
    <2>. QED
      BY <2>3
  <1>7. PICK set : set = {r \in RowsOf(S.c[step]) : S.di[r] < S.i}
    OBVIOUS
  <1>8. PICK above : above = Sorted(set)
    OBVIOUS
  <1>9. IsRows(above, n, set)
    <2>1. set \in SUBSET Upto(n)
      BY <1>1, <1>7 DEF RowsOf
    <2>. QED
      BY <1>3, <1>8, <2>1, RowsSorted
  <1>10. PICK beta : beta = [r \in Upto(NumRows) |-> U.row[r][step - S.i]]
    OBVIOUS
  <1>11. PICK seq : seq = [k \in 1 .. step - S.i |-> S.d[S.i + k - 1]]
    OBVIOUS
  <1>12. seq \in Seq(Upto(n))
    <2>1. PICK len \in Nat : len = step - S.i
      BY <1>2, <1>3, <1>4
    <2>2. ASSUME NEW k \in 1 .. len
          PROVE  S.i + k - 1 \in Upto(n)
      <3>1. S.i + k - 1 \in Nat /\ S.i + k - 1 < n
        BY <1>3, <1>4, <2>1
      <3>. QED
        BY <1>3, <3>1 DEF Upto
    <2>3. seq \in [1 .. len -> Upto(n)]
      BY <1>3, <1>11, <2>1, <2>2
    <2>. QED
      BY <2>3, FunctionIsSeq
  <1>13. PICK set2 : set2 = {r \in Upto(NumRows) : beta[r] # 0}
    OBVIOUS
  <1>14. PICK inU : inU = Kept(seq, set2)
    OBVIOUS
  <1>15. IsRows(inU, n, set2)
    BY <1>12, <1>14, RowsKept
  <1>16. AxpyOps(above, S.d[step], One) \in Seq(Ops(n))
    <2>1. \A r \in set : r \in Upto(n) => One[r] \in Octet \ {0}
      BY <1>1, OneIs
    <2>2. IsSchedule(S, n, P) /\ IsWork(U, n, S.u) /\ n \in Nat /\ n = NumRows
      BY <1>1, <1>3
    <2>. QED
      BY <1>5, <1>9, <2>1, <2>2, RowsAdded
  <1>17. AxpyOps(inU, S.d[step], beta) \in Seq(Ops(n))
    <2>1. ASSUME NEW r \in set2
          PROVE  beta[r] \in Octet \ {0}
      <3>1. U.row \in [Upto(n) -> [Upto(S.u) -> Octet]]
        BY <1>3 DEF IsWork
      <3>2. r \in Upto(n) /\ beta[r] = U.row[r][col] /\ beta[r] # 0
        BY <1>1, <1>6, <1>10, <1>13
      <3>. QED
        BY <1>6, <3>1, <3>2
    <2>2. IsSchedule(S, n, P) /\ IsWork(U, n, S.u) /\ n \in Nat /\ n = NumRows
      BY <1>1, <1>3
    <2>. QED
      BY <1>5, <1>15, <2>1, <2>2, RowsAdded
  <1>18. PICK ops : ops = AxpyOps(above, S.d[step], One) \o AxpyOps(inU, S.d[step], beta)
    OBVIOUS
  <1>19. ops \in Seq(Ops(n))
    <2>1. PICK X : X = Ops(n)
      OBVIOUS
    <2>2. PICK one : one = AxpyOps(above, S.d[step], One)
      OBVIOUS
    <2>3. PICK two : two = AxpyOps(inU, S.d[step], beta)
      OBVIOUS
    <2>4. one \in Seq(X) /\ two \in Seq(X)
      BY <1>16, <1>17, <2>1, <2>2, <2>3
    <2>5. one \o two \in Seq(X)
      BY <2>4, Concat, Zenon DEF IsConcat
    <2>. QED
      BY <1>18, <2>1, <2>2, <2>3, <2>5
  <1>20. S' = Pushed(S, ops)
    BY <1>7, <1>8, <1>10, <1>11, <1>13, <1>14, <1>18, Zenon DEF Backsolve
  <1>21. IsSchedule(S', n, P) /\ S'.i = S.i /\ S'.u = S.u
    BY <1>3, <1>19, <1>20, PushedIs
  <1>22. StepInWork'
    BY <1>2, <1>3, <1>4, <1>21 DEF StepInWork
  <1>23. IsWork(U', n, S.u)
    BY <1>2, <1>3
  <1>. QED
    BY <1>1, <1>2, <1>21, <1>22, <1>23, StillWorking

LEMMA InInversion ==
    ASSUME CodecInv, Inverting
    PROVE  /\ IsCode(P) /\ IsMatrix(A, NumRows, P) /\ IsSchedule(S, NumRows, P)
           /\ NumRows <= Room /\ NumRows \in Nat /\ NumRows >= P.L
           /\ pc # "start" /\ D \in [Upto(Room) -> Symbol]
  <1>1. pc # "start"
    BY DEF Inverting, Precond, Working, Applying
  <1>2. P = EncoderParams /\ D \in [Upto(Room) -> Symbol]
    BY <1>1 DEF CodecInv, SymbolsTyped
  <1>3. IsCode(P)
    BY <1>2, ObjectIs
  <1>4. IsMatrix(A, NumRows, P) /\ IsSchedule(S, NumRows, P) /\ NumRows <= Room
    BY DEF CodecInv, MatrixTyped
  <1>5. NumRows \in Nat /\ NumRows >= P.L
    BY <1>4 DEF IsMatrix
  <1>. QED
    BY <1>1, <1>2, <1>3, <1>4, <1>5

LEMMA PrecondKeeps ==
    ASSUME CodecInv, NEW b \in 1 .. 2, PrecondStep(b), UNCHANGED codecVars
    PROVE  CodecInv'
  <1>1. /\ pc = "precond" /\ pc' = pc /\ P' = P /\ A' = A /\ D' = D /\ Precond /\ Inverting
    BY DEF PrecondStep, Precond, Inverting
  <1>2. /\ IsCode(P) /\ IsMatrix(A, NumRows, P) /\ NumRows <= Room
        /\ D \in [Upto(Room) -> Symbol]
    BY <1>1, InInversion
  <1>3. Growing(A, S, NZT, P, NumRows)
    BY <1>1 DEF CodecInv, PrecondTrue
  <1>4. Growing(A, S', NZT', P, NumRows)
    BY <1>2, <1>3, PrecondStepKeeps
  <1>5. SourceTyped' /\ SymbolsTyped' /\ Room' = Room
    BY <1>1, <1>2, Continues
  <1>6. NumRows' = NumRows
    BY <1>1 DEF NumRows
  <1>7. MatrixTyped'
    BY <1>1, <1>2, <1>4, <1>5, <1>6 DEF MatrixTyped, Growing
  <1>8. PrecondTrue'
    BY <1>1, <1>4, <1>6 DEF PrecondTrue
  <1>9. WorkTyped' /\ StepsTyped'
    BY <1>1 DEF WorkTyped, Working, StepsTyped
  <1>. QED
    BY <1>5, <1>7, <1>8, <1>9 DEF CodecInv

LEMMA PrecondEndKeeps ==
    ASSUME CodecInv, PrecondEnd, UNCHANGED codecVars
    PROVE  CodecInv'
  <1>1. PICK n : n = NumRows
    OBVIOUS
  <1>2. /\ pc = "precond" /\ pc' = "forward" /\ step' = 0 /\ P' = P /\ A' = A /\ D' = D
        /\ S' = [S EXCEPT !.u = P.L - S.i] /\ Inverting
    BY DEF PrecondEnd, Inverting, Precond
  <1>3. /\ IsCode(P) /\ IsMatrix(A, n, P) /\ IsSchedule(S, n, P) /\ n <= Room /\ n \in Nat
        /\ D \in [Upto(Room) -> Symbol]
    BY <1>1, <1>2, InInversion
  <1>4. S.i \in Nat /\ P.L \in Nat /\ P.P \in Nat /\ S.i <= P.L - P.P
    BY <1>3 DEF IsSchedule, IsCode
  <1>5. PICK width \in Nat : width = P.L - S.i
    BY <1>4
  <1>6. IsSchedule(S', n, P) /\ S'.i = S.i /\ S'.u = width
    <2>1. FieldsTyped(S, n, P.L)
      BY <1>3 DEF IsSchedule, FieldsTyped
    <2>2. S' = [S EXCEPT !.u = width]
      BY <1>2, <1>5
    <2>3. /\ FieldsTyped(S', n, P.L) /\ S'.i = S.i /\ S'.u = width /\ S'.d = S.d
          /\ S'.di = S.di /\ S'.c = S.c /\ S'.ci = S.ci
      BY <2>1, <2>2 DEF FieldsTyped
    <2>. QED
      BY <1>3, <2>3 DEF IsSchedule, FieldsTyped
  <1>7. IsWork(U', n, width)
    <2>1. PICK C : C = Upto(width)
      OBVIOUS
    <2>2. PICK rows : rows = [r \in Upto(n) |-> [q \in C |-> IF HasCol(A[r], S.c[S.i + q]) THEN 1 ELSE 0]]
      OBVIOUS
    <2>3. rows \in [Upto(n) -> [C -> Octet]]
      <3>1. 0 \in Octet /\ 1 \in Octet
        BY DEF Octet
      <3>. QED
        BY <2>2, <3>1
    <2>4. U' = [row |-> rows, type |-> {}, spare |-> 0, hdpc |-> << >>]
      BY <1>1, <1>5, <2>1, <2>2 DEF PrecondEnd
    <2>. QED
      BY <2>1, <2>3, <2>4 DEF IsWork
  <1>8. SourceTyped' /\ SymbolsTyped' /\ Room' = Room
    BY <1>2, <1>3, Continues
  <1>9. NumRows' = n
    BY <1>1, <1>2 DEF NumRows
  <1>10. MatrixTyped'
    BY <1>2, <1>3, <1>6, <1>8, <1>9 DEF MatrixTyped
  <1>11. StepInWork'
    BY <1>2, <1>4, <1>6 DEF StepInWork
  <1>12. WorkTyped'
    BY <1>2, <1>5, <1>6, <1>7, <1>9, <1>11 DEF WorkTyped
  <1>13. PrecondTrue' /\ StepsTyped'
    BY <1>2 DEF PrecondTrue, Precond, StepsTyped
  <1>. QED
    BY <1>8, <1>10, <1>12, <1>13 DEF CodecInv

\* Where the schedule is applied to the symbols
LEMMA StillApplying ==
    ASSUME CodecInv, Inverting, UNCHANGED codecVars, P' = P, A' = A, S' = S,
           D' \in [Upto(Room) -> Symbol],
           pc' \in {"apply1", "apply2", "apply3", "apply4", "permute"}, StepsTyped'
    PROVE  CodecInv'
  <1>1. /\ IsMatrix(A, NumRows, P) /\ IsSchedule(S, NumRows, P) /\ NumRows <= Room /\ pc # "start"
    BY InInversion
  <1>2. SourceTyped' /\ SymbolsTyped' /\ Room' = Room
    BY <1>1, Continues
  <1>3. NumRows' = NumRows
    BY DEF NumRows
  <1>4. MatrixTyped'
    BY <1>1, <1>2, <1>3 DEF MatrixTyped
  <1>5. PrecondTrue' /\ WorkTyped'
    BY DEF PrecondTrue, Precond, WorkTyped, Working
  <1>. QED
    BY <1>2, <1>4, <1>5 DEF CodecInv

LEMMA BacksolveEndKeeps ==
    ASSUME CodecInv, BacksolveEnd, UNCHANGED codecVars
    PROVE  CodecInv'
  <1>1. /\ pc = "back" /\ pc' = "apply1" /\ step' = 0 /\ P' = P /\ A' = A /\ S' = S /\ D' = D
        /\ Inverting
    BY DEF BacksolveEnd, Inverting, Working
  <1>2. D \in [Upto(Room) -> Symbol]
    BY <1>1, InInversion
  <1>3. StepsTyped'
    BY <1>1 DEF StepsTyped
  <1>. QED
    BY <1>1, <1>2, <1>3, StillApplying

\* An operation of the schedule changes one of the symbols.
LEMMA AppliedOpIs ==
    ASSUME NEW n \in Nat, NEW m \in Nat, n <= m, NEW symbols \in [Upto(m) -> Symbol],
           NEW op \in Ops(n)
    PROVE  AppliedOp(symbols, op) \in [Upto(m) -> Symbol]
  <1>1. op.i \in Upto(n) /\ op.beta \in Octet /\ (op.beta = 0 => op.j \in Octet)
        /\ (op.beta # 0 => op.j \in Upto(n))
    BY DEF Ops
  <1>2. \A r \in Upto(n) : r \in Upto(m)
    BY DEF Upto
  <1>3. PICK C : C = 1 .. SymbolSize
    OBVIOUS
  <1>4. PICK x \in [C -> Octet] : x = symbols[op.i]
    BY <1>1, <1>2, <1>3 DEF Symbol
  <1>5. PICK z \in [C -> Octet] : z = IF op.beta # 0 THEN AddRow(x, symbols[op.j], op.beta)
                                     ELSE ScaleRow(x, op.j)
    <2>1. CASE op.beta # 0
      <3>1. PICK y \in [C -> Octet] : y = symbols[op.j]
        BY <1>1, <1>2, <1>3, <2>1 DEF Symbol
      <3>2. AddRow(x, y, op.beta) \in [C -> Octet]
        BY <1>1, AddRowIs
      <3>. QED
        BY <2>1, <3>1, <3>2
    <2>2. CASE op.beta = 0
      <3>1. ScaleRow(x, op.j) \in [C -> Octet]
        BY <1>1, <2>2, ScaleRowIs
      <3>. QED
        BY <2>2, <3>1
    <2>. QED
      BY <2>1, <2>2
  <1>6. AppliedOp(symbols, op) = [symbols EXCEPT ![op.i] = z]
    BY <1>1, <1>2, <1>4, <1>5 DEF AppliedOp
  <1>7. z \in Symbol
    BY <1>3 DEF Symbol
  <1>. QED
    BY <1>6, <1>7

LEMMA RoomIs ==
    ASSUME CodecInv, pc # "start"
    PROVE  Room \in Int
  <1>1. P = EncoderParams /\ Followed
    BY DEF CodecInv, SymbolsTyped, SourceTyped
  <1>2. P.L \in Nat
    BY <1>1, ObjectIs DEF IsCode
  <1>3. K \in Nat /\ MaxEsi \in Nat
    BY <1>1, BlockIs, ObjectIs
  <1>. QED
    BY <1>2, <1>3 DEF Room

LEMMA ApplyIs ==
    ASSUME CodecInv, Applying, step \in Nat, NEW advance, Apply(advance)
    PROVE  \/ pc' = pc /\ step' = step + advance /\ D' \in [Upto(Room) -> Symbol]
           \/ pc' = "overrun" /\ D' = D
  <1>1. CASE step < Len(S.ops)
    <2>1. D' = AppliedOp(D, S.ops[step + 1]) /\ step' = step + advance /\ pc' = pc
      BY <1>1 DEF Apply
    <2>2. PICK n \in Nat : n = NumRows /\ n <= Room
      BY InInversion DEF Inverting
    <2>3. IsSchedule(S, n, P) /\ IsCode(P) /\ D \in [Upto(Room) -> Symbol]
      BY <2>2, InInversion DEF Inverting
    <2>4. S.ops \in Seq(Ops(n))
      BY <2>3 DEF IsSchedule
    <2>5. PICK op \in Ops(n) : op = S.ops[step + 1]
      <3>1. PICK X : X = Ops(n)
        OBVIOUS
      <3>2. PICK ops : ops = S.ops
        OBVIOUS
      <3>3. ops \in Seq(X) /\ step + 1 \in 1 .. Len(ops)
        BY <1>1, <2>4, <3>1, <3>2
      <3>4. ops[step + 1] \in X
        BY <3>3
      <3>. QED
        BY <3>1, <3>2, <3>4
    <2>6. Room \in Int
      BY RoomIs DEF Applying
    <2>7. PICK m \in Nat : m = Room
      BY <2>2, <2>6
    <2>8. AppliedOp(D, op) \in [Upto(m) -> Symbol]
      BY <2>2, <2>3, <2>7, AppliedOpIs
    <2>. QED
      BY <2>1, <2>5, <2>7, <2>8
  <1>2. CASE ~(step < Len(S.ops))
    BY <1>2 DEF Apply
  <1>. QED
    BY <1>1, <1>2

\* A round of one of the loops over the operations
LEMMA ApplyKeeps ==
    ASSUME CodecInv, Applying, UNCHANGED codecVars, UNCHANGED <<P, A, S, NZT, U>>,
           step \in Nat, pc # "permute",
           NEW advance \in {-1, 1}, Apply(advance), pc # "apply2" => advance = 1
    PROVE  CodecInv'
  <1>1. Inverting /\ pc # "start"
    BY DEF Inverting, Applying
  <1>2. StepsTyped
    BY DEF CodecInv
  <1>3. CASE pc' = pc /\ step' = step + advance /\ D' \in [Upto(Room) -> Symbol]
    <2>1. pc' \in {"apply1", "apply2", "apply3", "apply4", "permute"}
      BY <1>3 DEF Applying
    <2>2. StepsTyped'
      BY <1>2, <1>3 DEF StepsTyped
    <2>. QED
      BY <1>1, <1>3, <2>1, <2>2, StillApplying
  <1>4. CASE pc' = "overrun" /\ D' = D
    <2>1. D \in [Upto(Room) -> Symbol]
      BY <1>1, InInversion
    <2>. QED
      BY <1>1, <1>4, <2>1, StopKeeps
  <1>. QED
    BY <1>3, <1>4, ApplyIs

\* From one of the loops to the next
LEMMA EndLoopKeeps ==
    ASSUME CodecInv, Applying, UNCHANGED codecVars, UNCHANGED <<P, A, S, NZT, U>>,
           NEW next \in {"apply2", "apply3", "apply4", "permute"}, NEW first, EndLoop(next, first),
           next = "apply2" => first \in Int /\ S.marks[2] \in Nat,
           next = "apply3" => first \in Nat /\ S.marks[2] \in Nat,
           next = "apply4" => first \in Nat
    PROVE  CodecInv'
  <1>1. Inverting
    BY DEF Inverting
  <1>2. D \in [Upto(Room) -> Symbol]
    BY <1>1, InInversion
  <1>3. pc' = next /\ step' = first /\ D' = D
    BY DEF EndLoop
  <1>4. StepsTyped'
    BY <1>3 DEF StepsTyped
  <1>. QED
    BY <1>1, <1>2, <1>3, <1>4, StillApplying

LEMMA ApplySchedKeeps ==
    ASSUME CodecInv, ApplySched, UNCHANGED codecVars
    PROVE  CodecInv'
  <1>1. UNCHANGED <<P, A, S, NZT, U>> /\ Applying /\ StepsTyped
    BY DEF ApplySched, Applying, CodecInv
  <1>2. S.marks[1] \in Mark /\ S.marks[2] \in Mark
    <2>1. IsSchedule(S, NumRows, P)
      BY <1>1, InInversion DEF Inverting
    <2>2. S.marks \in Mark \X Mark
      BY <2>1 DEF IsSchedule
    <2>. QED
      BY <2>2
  <1>3. CASE pc = "apply1" /\ ~Behind(step + 1, S.marks[2]) /\ Apply(1)
    BY <1>1, <1>3, ApplyKeeps DEF StepsTyped
  <1>4. CASE pc = "apply1" /\ Behind(step + 1, S.marks[2]) /\ EndLoop("apply2", S.marks[1])
    <2>1. S.marks[1] \in Int /\ S.marks[2] \in Nat
      BY <1>2, <1>4 DEF Mark, Behind, NoMark
    <2>. QED
      BY <1>1, <1>4, <2>1, EndLoopKeeps
  <1>5. CASE pc = "apply2" /\ step >= 0 /\ Apply(-1)
    <2>1. step \in Nat
      BY <1>1, <1>5 DEF StepsTyped
    <2>. QED
      BY <1>1, <1>5, <2>1, ApplyKeeps
  <1>6. CASE pc = "apply2" /\ step < 0 /\ EndLoop("apply3", S.marks[2])
    <2>1. S.marks[2] \in Nat
      BY <1>1, <1>6 DEF StepsTyped
    <2>. QED
      BY <1>1, <1>6, <2>1, EndLoopKeeps
  <1>7. CASE pc = "apply3" /\ step < Len(S.ops) /\ Apply(1)
    BY <1>1, <1>7, ApplyKeeps DEF StepsTyped
  <1>8. CASE pc = "apply3" /\ step >= Len(S.ops) /\ EndLoop("apply4", 0)
    BY <1>1, <1>8, EndLoopKeeps
  <1>9. CASE pc = "apply4" /\ ~Behind(step, S.marks[1]) /\ Apply(1)
    BY <1>1, <1>9, ApplyKeeps DEF StepsTyped
  <1>10. CASE pc = "apply4" /\ Behind(step, S.marks[1]) /\ EndLoop("permute", 0)
    BY <1>1, <1>10, EndLoopKeeps
  <1>. QED
    BY <1>3, <1>4, <1>5, <1>6, <1>7, <1>8, <1>9, <1>10 DEF ApplySched

\* Rows of symbols change places.
LEMMA PermutedIs ==
    ASSUME NEW n, NEW m, Upto(n) \subseteq Upto(m), NEW symbols \in [Upto(m) -> Symbol],
           NEW to, DOMAIN to = Upto(n)
    PROVE  Permuted(symbols, to) \in [Upto(m) -> Symbol]
  <1>1. DOMAIN symbols = Upto(m)
    OBVIOUS
  <1>2. ASSUME NEW r \in Upto(m)
        PROVE  (LET from == {k \in DOMAIN to : to[k] = r}
                IN  IF from = {} THEN symbols[r] ELSE symbols[CHOOSE k \in from : TRUE]) \in Symbol
    <2>1. PICK from : from = {k \in DOMAIN to : to[k] = r}
      OBVIOUS
    <2>2. from \subseteq Upto(m)
      BY <2>1
    <2>3. from # {} => (CHOOSE k \in from : TRUE) \in from
      OBVIOUS
    <2>4. (IF from = {} THEN symbols[r] ELSE symbols[CHOOSE k \in from : TRUE]) \in Symbol
      BY <2>2, <2>3
    <2>. QED
      BY <2>1, <2>4
  <1>. QED
    BY <1>1, <1>2 DEF Permuted

LEMMA PermuteKeeps ==
    ASSUME CodecInv, Permute, UNCHANGED codecVars
    PROVE  CodecInv'
  <1>1. PICK n : n = NumRows
    OBVIOUS
  <1>2. /\ pc = "permute" /\ pc' = "inverted" /\ P' = P /\ D' = Permuted(Permuted(D, S.di), S.c)
        /\ Inverting /\ pc # "start"
    BY DEF Permute, Inverting, Applying
  <1>3. /\ IsCode(P) /\ IsSchedule(S, n, P) /\ n <= Room /\ n \in Nat /\ n >= P.L
        /\ D \in [Upto(Room) -> Symbol]
    BY <1>1, <1>2, InInversion
  <1>4. PICK m \in Nat : m = Room
    BY <1>2, <1>3, RoomIs
  <1>5. P.L \in Nat
    BY <1>3 DEF IsCode
  <1>6. Upto(n) \subseteq Upto(m) /\ Upto(P.L) \subseteq Upto(m)
    BY <1>3, <1>4, <1>5 DEF Upto
  <1>7. DOMAIN S.di = Upto(n) /\ DOMAIN S.c = Upto(P.L)
    <2>1. S.di \in [Upto(n) -> Upto(n)] /\ S.c \in [Upto(P.L) -> Upto(P.L)]
      BY <1>3 DEF IsSchedule
    <2>. QED
      BY <2>1
  <1>8. PICK once : once = Permuted(D, S.di)
    OBVIOUS
  <1>9. once \in [Upto(m) -> Symbol]
    BY <1>3, <1>4, <1>6, <1>7, <1>8, PermutedIs
  <1>10. Permuted(once, S.c) \in [Upto(m) -> Symbol]
    BY <1>6, <1>7, <1>9, PermutedIs
  <1>11. D' \in [Upto(Room) -> Symbol]
    BY <1>2, <1>4, <1>8, <1>10
  <1>. QED
    BY <1>2, <1>11, StopKeeps

\* Every step of an inversion keeps the invariant.
LEMMA InvertKeeps ==
    ASSUME CodecInv, Invert, UNCHANGED codecVars
    PROVE  CodecInv'
  <1>1. CASE \E b \in 1 .. 2 : PrecondStep(b)
    BY <1>1, PrecondKeeps
  <1>2. CASE PrecondEnd
    BY <1>2, PrecondEndKeeps
  <1>3. CASE Forward
    BY <1>3, FwdStepKeeps DEF Forward
  <1>4. CASE ForwardEnd
    BY <1>4, ForwardEndKeeps
  <1>5. CASE Below
    BY <1>5, FwdStepKeeps DEF Below
  <1>6. CASE BelowEnd \/ Gf2Fails \/ HdpcEnd
    BY <1>6, NextLoopKeeps
  <1>7. CASE Gf2Step
    BY <1>7, Gf2StepKeeps
  <1>8. CASE HdpcBegin
    BY <1>8, HdpcBeginKeeps
  <1>9. CASE HdpcStep
    BY <1>9, HdpcStepKeeps
  <1>10. CASE Gf256Step
    BY <1>10, Gf256StepKeeps
  <1>11. CASE Gf256Fails
    BY <1>11, Gf256FailsKeeps
  <1>12. CASE Triangular
    BY <1>12, TriangularKeeps
  <1>13. CASE Backsolve
    BY <1>13, BacksolveKeeps
  <1>14. CASE BacksolveEnd
    BY <1>14, BacksolveEndKeeps
  <1>15. CASE ApplySched
    BY <1>15, ApplySchedKeeps
  <1>16. CASE Permute
    BY <1>16, PermuteKeeps
  <1>. QED
    BY <1>1, <1>2, <1>3, <1>4, <1>5, <1>6, <1>7, <1>8, <1>9, <1>10, <1>11, <1>12, <1>13, <1>14,
       <1>15, <1>16 DEF Invert

-----------------------------------------------------------------------------
\* The block between the inversions.

\* The octets of a file are divided without a gap and without an overlap.
LEMMA CaseCovered ==
    ASSUME NEW F, NEW T, IsCase(F, T)
    PROVE  CoversObject(EncoderNew(F, T, 1))
  <1>3. F \in Nat \ {0} /\ T \in Nat \ {0} /\ T % 1 = 0 /\ 1 <= T \div 1
    BY SMT DEF IsCase
  <1>4. PICK Z \in Nat \ {0} : Z = SchemeZ(DivCeil(F, T))
    <2>1. SchemeZ(DivCeil(F, T)) \in 1 .. 256
      BY CaseScheme
    <2>. QED
      BY <2>1
  <1>5. PICK rq : rq = Nanorq(F, T, 1, Z, 1) /\ rq = EncoderNew(F, T, 1)
    BY <1>4 DEF EncoderNew
  <1>6. IsLayout(rq, 1, DivCeil(F, T), Z, T \div 1, 1)
    BY <1>3, <1>5, NanorqLayout
  <1>7. DivCeil(F, T) \in Nat /\ T \div 1 \in Nat
    BY <1>3, Covers
  <1>. QED
    BY <1>5, <1>6, <1>7, Covered

\* The encoder reads octets of the file, and none behind its end.
LEMMA ReadSymbolIs ==
    ASSUME Followed, NEW esi \in Upto(K)
    PROVE  ReadSymbol(Encoder, esi) \in Symbol
  <1>1. PICK F : F = Cardinality(DOMAIN File)
    OBVIOUS
  <1>2. F \in Nat /\ File \in [Upto(F) -> Octet] /\ IsCase(F, SymbolSize)
    <2>1. IsCase(F, SymbolSize)
      BY <1>1, ObjectAssumption, SMT DEF IsCase
    <2>. QED
      BY <1>1, <2>1, ObjectAssumption
  <1>3. CoversObject(Encoder)
    BY <1>1, <1>2, CaseCovered DEF Encoder
  <1>4. Encoder.F = F
    BY <1>1 DEF Encoder, EncoderNew, Nanorq
  <1>5. <<sbn, esi>> \in Symbols(Encoder)
    <2>1. sbn \in 0 .. NumBlocks(Encoder) - 1
      BY DEF Followed, Upto
    <2>2. esi \in 0 .. BlockSymbols(Encoder, sbn) - 1
      BY DEF Upto, K
    <2>. QED
      BY <2>1, <2>2 DEF Symbols
  <1>6. PICK moved : moved = Transfer(Encoder, sbn, esi)
    OBVIOUS
  <1>7. \A x \in moved : x.at \in Upto(F)
    <2>1. PICK s : s = <<sbn, esi>>
      OBVIOUS
    <2>2. \A x, y \in Transfer(Encoder, s[1], s[2]) : x.at \in 0 .. Encoder.F - 1
      BY <1>3, <1>5, <2>1 DEF CoversObject
    <2>3. s[1] = sbn /\ s[2] = esi
      BY <2>1, Zenon
    <2>. QED
      BY <1>4, <1>6, <2>2, <2>3, Zenon DEF Upto
  <1>8. ASSUME NEW n \in 1 .. SymbolSize
        PROVE  ReadSymbol(Encoder, esi)[n] \in Octet
    <2>1. PICK at : at = {x.at : x \in {y \in moved : y.octet = n - 1}}
      OBVIOUS
    <2>2. at \subseteq Upto(F)
      BY <1>7, <2>1
    <2>3. at # {} => (CHOOSE a \in at : TRUE) \in Upto(F)
      BY <2>2
    <2>4. 0 \in Octet
      BY DEF Octet
    <2>5. (IF at = {} THEN 0 ELSE File[CHOOSE a \in at : TRUE]) \in Octet
      BY <1>2, <2>3, <2>4
    <2>6. ReadSymbol(Encoder, esi)[n] = IF at = {} THEN 0 ELSE File[CHOOSE a \in at : TRUE]
      BY <1>6, <2>1 DEF ReadSymbol
    <2>. QED
      BY <2>5, <2>6
  <1>9. ReadSymbol(Encoder, esi) = [n \in 1 .. SymbolSize |-> ReadSymbol(Encoder, esi)[n]]
    BY DEF ReadSymbol
  <1>. QED
    BY <1>8, <1>9 DEF Symbol

LEMMA ZeroIs == ZeroRow(1 .. SymbolSize) \in Symbol
  BY DEF ZeroRow, Symbol, Octet

\* The room of a block once the encoder is done
LEMMA RoomBehind ==
    ASSUME CodecInv, encoded # << >>, P = EncoderParams
    PROVE  Room \in Nat /\ Room = P.L + MaxEsi - K
  <1>1. Room = P.L + MaxEsi - K
    BY DEF Room
  <1>2. IsCode(P) /\ MaxEsi \in Nat
    BY ObjectIs
  <1>3. K \in Nat /\ K <= P.Kprime
    BY BlockIs DEF CodecInv, SourceTyped
  <1>4. P.L \in Nat /\ P.Kprime \in Nat /\ P.L >= P.Kprime
    <2>1. P.L \in Nat /\ P.Kprime \in Nat /\ P.S \in Nat /\ P.H \in 2 .. 255
      BY <1>2 DEF IsCode
    <2>2. P.L = P.Kprime + P.S + P.H
      BY <1>2 DEF IsCode
    <2>3. PICK k \in Nat, s \in Nat, h \in 2 .. 255 : k = P.Kprime /\ s = P.S /\ h = P.H
      BY <2>1
    <2>4. k + s + h >= k
      <3>1. h \in Nat
        OBVIOUS
      <3>. QED
        BY <3>1
    <2>. QED
      BY <2>1, <2>2, <2>3, <2>4
  <1>. QED
    BY <1>1, <1>2, <1>3, <1>4

\* An inversion begins with a matrix and a schedule as they should be.
LEMMA BeginInvertKeeps ==
    ASSUME SourceTyped, UNCHANGED codecVars, NEW p, p = EncoderParams,
           NEW m \in Nat, m >= p.Kprime, NEW isis, AreRows(isis, m, p),
           NEW room, room = IF encoded = << >> THEN p.L ELSE p.L + MaxEsi - K,
           p.S + p.H + m <= room,
           NEW symbols \in [Upto(room) -> Symbol],
           BeginInvert(p, PrecodeMatrix(p, isis), symbols)
    PROVE  CodecInv'
  <1>1. IsCode(p)
    BY ObjectIs
  <1>2. PICK a : a = PrecodeMatrix(p, isis)
    OBVIOUS
  <1>3. PICK n : n = p.S + p.H + m
    OBVIOUS
  <1>4. IsMatrix(a, n, p)
    BY <1>1, <1>2, <1>3, MatrixIs DEF AreRows
  <1>5. PICK s : s = NewSchedule(p, a)
    OBVIOUS
  <1>6. /\ IsSchedule(s, n, p) /\ s.i = 0 /\ s.u = p.P
        /\ CountersTrue(a, s, p, n) /\ TriangleTrue(a, s, p)
    BY <1>1, <1>4, <1>5, ScheduleIs
  <1>7. n \in Nat /\ DOMAIN a = Upto(n) /\ Cardinality(DOMAIN a) = n
    BY <1>4, UptoCard DEF IsMatrix
  <1>8. /\ pc' = "precond" /\ P' = p /\ A' = a /\ S' = s /\ D' = symbols
        /\ \E sparse : /\ sparse = SubSeq([x \in 1 .. n |-> s.d[x - 1]], 1, n - p.H)
                       /\ NZT' = [b \in 1 .. 2 |-> Kept(sparse, {r \in DOMAIN a : s.nz[r] = b})]
    BY <1>2, <1>5, <1>7 DEF BeginInvert
  <1>9. NZT' \in [1 .. 2 -> Seq(Upto(n))]
    <2>1. PICK sparse : /\ sparse = SubSeq([x \in 1 .. n |-> s.d[x - 1]], 1, n - p.H)
                        /\ NZT' = [b \in 1 .. 2 |-> Kept(sparse, {r \in DOMAIN a : s.nz[r] = b})]
      BY <1>8
    <2>2. PICK X : X = Upto(n)
      OBVIOUS
    <2>3. PICK all : all = [x \in 1 .. n |-> s.d[x - 1]]
      OBVIOUS
    <2>4. all \in Seq(X) /\ Len(all) = n
      <3>1. s.d \in [X -> X]
        BY <1>6, <2>2 DEF IsSchedule
      <3>2. \A x \in 1 .. n : x - 1 \in X
        BY <1>7, <2>2 DEF Upto
      <3>3. all \in [1 .. n -> X]
        BY <2>3, <3>1, <3>2
      <3>. QED
        BY <1>7, <3>3, FunctionIsSeq
    <2>5. p.H \in Nat /\ n >= p.H
      <3>1. p.Kprime \in Nat /\ p.S \in Nat /\ p.H \in 2 .. 255
        BY <1>1 DEF IsCode
      <3>2. PICK k \in Nat, x \in Nat, h \in 2 .. 255 : k = p.Kprime /\ x = p.S /\ h = p.H
        BY <3>1
      <3>3. n = x + h + m
        BY <1>3, <3>2
      <3>4. n >= h /\ h \in Nat
        BY <3>3
      <3>. QED
        BY <3>2, <3>4
    <2>6. sparse \in Seq(X)
      <3>1. n - p.H \in 0 .. n
        BY <1>7, <2>5
      <3>2. sparse = SubSeq(all, 1, n - p.H)
        BY <2>1, <2>3
      <3>. QED
        BY <2>4, <3>1, <3>2
    <2>7. ASSUME NEW b \in 1 .. 2
          PROVE  Kept(sparse, {r \in DOMAIN a : s.nz[r] = b}) \in Seq(Upto(n))
      BY <2>2, <2>6, RowsKept DEF IsRows
    <2>. QED
      BY <2>1, <2>7
  <1>10. Growing(a, s, NZT', p, n)
    <2>1. s.u >= p.P /\ s.i + s.u <= p.L
      BY <1>1, <1>6 DEF IsCode
    <2>. QED
      BY <1>4, <1>6, <1>9, <2>1 DEF Growing
  <1>11. NumRows' = n
    BY <1>7, <1>8 DEF NumRows
  <1>12. sbn' = sbn /\ encoded' = encoded /\ bin' = bin
    BY DEF codecVars
  <1>13. Room' = room
    BY <1>8, <1>12 DEF Room, K
  <1>14. SourceTyped'
    <2>1. Followed' = Followed
      BY <1>12 DEF Followed
    <2>. QED
      BY <1>8, <1>12, <2>1 DEF SourceTyped
  <1>15. SymbolsTyped'
    BY <1>8, <1>13 DEF SymbolsTyped
  <1>16. MatrixTyped'
    BY <1>3, <1>4, <1>6, <1>8, <1>11, <1>13 DEF MatrixTyped
  <1>17. PrecondTrue'
    BY <1>8, <1>10, <1>11 DEF PrecondTrue
  <1>18. WorkTyped' /\ StepsTyped'
    BY <1>8 DEF WorkTyped, Working, StepsTyped
  <1>. QED
    BY <1>14, <1>15, <1>16, <1>17, <1>18 DEF CodecInv

\* The encoder loads the block's symbols.
LEMMA GenerateKeeps ==
    ASSUME CodecInv, Generate
    PROVE  CodecInv'
  <1>1. PICK p : p = EncoderParams
    OBVIOUS
  <1>2. IsCode(p) /\ MaxEsi \in Nat
    BY <1>1, ObjectIs
  <1>3. SourceTyped /\ Followed /\ encoded = << >> /\ UNCHANGED codecVars
    BY DEF CodecInv, SourceTyped, Generate
  <1>4. PICK m \in Nat : m = p.Kprime
    BY <1>2 DEF IsCode
  <1>5. PICK first : first = p.S + p.H
    OBVIOUS
  <1>6. PICK isis : isis = [n \in Upto(m) |-> n]
    OBVIOUS
  <1>7. PICK symbols : symbols = [r \in Upto(p.L) |->
                           IF r - first \in Upto(K) THEN ReadSymbol(Encoder, r - first)
                           ELSE ZeroRow(1 .. SymbolSize)]
    OBVIOUS
  <1>8. BeginInvert(p, PrecodeMatrix(p, isis), symbols)
    BY <1>1, <1>4, <1>5, <1>6, <1>7 DEF Generate
  <1>9. AreRows(isis, m, p)
    <2>1. \A x \in Upto(m) : x \in 0 .. p.Kprime + MaxEsi
      BY <1>2, <1>4 DEF Upto
    <2>. QED
      BY <1>1, <1>6, <2>1, ObjectIs DEF AreRows
  <1>10. symbols \in [Upto(p.L) -> Symbol]
    <2>1. ASSUME NEW r
          PROVE  (IF r - first \in Upto(K) THEN ReadSymbol(Encoder, r - first)
                  ELSE ZeroRow(1 .. SymbolSize)) \in Symbol
      BY <1>3, ReadSymbolIs, ZeroIs
    <2>. QED
      BY <1>7, <2>1
  <1>11. p.S + p.H + m <= p.L
    BY <1>2, <1>4 DEF IsCode
  <1>12. PICK room : room = p.L
    OBVIOUS
  <1>. QED
    BY <1>1, <1>3, <1>4, <1>8, <1>9, <1>10, <1>11, BeginInvertKeeps

\* The intermediate symbols are the encoder's; the decoder starts empty.
LEMMA GeneratedKeeps ==
    ASSUME CodecInv, Generated
    PROVE  CodecInv'
  <1>1. /\ pc = "inverted" /\ encoded = << >> /\ encoded' = D /\ pc' = "receive"
        /\ D' = ZeroRows(P.L + MaxEsi - K) /\ P' = P /\ sbn' = sbn /\ bin' = bin
    BY DEF Generated
  <1>2. P = EncoderParams /\ D \in [Upto(Room) -> Symbol] /\ SourceTyped
    BY <1>1 DEF CodecInv, SymbolsTyped
  <1>3. D \in [Upto(P.L) -> Symbol]
    BY <1>1, <1>2 DEF Room
  <1>4. encoded' # << >>
    <2>1. P.L \in Nat /\ P.L > 0
      BY <1>2, ObjectIs DEF IsCode
    <2>2. 0 \in DOMAIN D
      BY <1>3, <2>1 DEF Upto
    <2>. QED
      BY <1>1, <2>2
  <1>5. SourceTyped'
    <2>1. Followed' = Followed
      BY <1>1 DEF Followed
    <2>. QED
      BY <1>1, <1>2, <1>3, <1>4, <2>1 DEF SourceTyped
  <1>6. Room' = P.L + MaxEsi - K
    BY <1>1, <1>4 DEF Room, K
  <1>7. SymbolsTyped'
    <2>1. D' \in [Upto(P.L + MaxEsi - K) -> Symbol]
      BY <1>1, ZeroIs DEF ZeroRows
    <2>. QED
      BY <1>1, <1>2, <1>6, <2>1 DEF SymbolsTyped
  <1>8. MatrixTyped' /\ PrecondTrue' /\ WorkTyped' /\ StepsTyped'
    BY <1>1 DEF MatrixTyped, Inverting, PrecondTrue, Precond, WorkTyped, Working, Applying,
                StepsTyped
  <1>. QED
    BY <1>5, <1>7, <1>8 DEF CodecInv

\* What Encode gives at a receiver is a symbol.
LEMMA EncodeIs ==
    ASSUME CodecInv, encoded # << >>, NEW esi \in 0 .. MaxEsi
    PROVE  Encode(esi) \in Symbol
  <1>1. PICK p : p = EncoderParams
    OBVIOUS
  <1>2. IsCode(p) /\ Followed /\ encoded \in [Upto(p.L) -> Symbol]
    BY <1>1, ObjectIs DEF CodecInv, SourceTyped
  <1>3. PICK X : X = Isi(p, esi)
    OBVIOUS
  <1>4. PICK most \in Nat : most = MaxEsi
    BY ObjectIs
  <1>5. PICK k \in Nat : k = K
    BY <1>2, BlockIs
  <1>6. PICK kp \in Nat : kp = p.Kprime
    BY <1>2 DEF IsCode
  <1>7. k <= kp
    BY <1>1, <1>2, <1>5, <1>6, BlockIs
  <1>8. X \in 0 .. kp + most
    <2>1. X = IF esi < k THEN esi ELSE esi + kp - k
      BY <1>3, <1>5, <1>6 DEF Isi
    <2>. QED
      BY <1>4, <1>7, <2>1
  <1>9. TupleInRange(X, p)
    BY <1>1, <1>4, <1>6, <1>8, ObjectIs
  <1>10. DecodeRow(p, encoded, X) \in Symbol
    BY <1>2, <1>9, DecodeRowIs
  <1>. QED
    BY <1>1, <1>3, <1>10 DEF Encode

\* The OTI has eight octets.
LEMMA OtiIs ==
    Oti(Encoder) \in Seq(Octet) /\ Len(Oti(Encoder)) = 8
  <1>1. PICK F \in Nat, T \in Nat \ {0} : F = Encoder.F /\ T = Encoder.T
    <2>1. Encoder.F = Cardinality(DOMAIN File) /\ Encoder.T = SymbolSize
      BY DEF Encoder, EncoderNew, Nanorq
    <2>2. Cardinality(DOMAIN File) \in Nat
      BY ObjectAssumption
    <2>. QED
      BY <2>1, <2>2, ObjectIs
  <1>2. PICK Z \in 1 .. 256 : Z = Encoder.Z
    BY ObjectIs DEF Divided
  <1>3. Encoder.N = 1
    BY DEF Encoder, EncoderNew, Nanorq
  <1>4. T - 1 \in Nat /\ Z - 1 \in Nat /\ 1 - 1 \in Nat
    OBVIOUS
  <1>5. /\ OctetOf(F, 1) \in Octet /\ OctetOf(F, 256) \in Octet /\ OctetOf(F, 65536) \in Octet
        /\ OctetOf(T - 1, 1) \in Octet /\ OctetOf(T - 1, 256) \in Octet
        /\ OctetOf(Z - 1, 1) \in Octet
        /\ OctetOf(1 - 1, 1) \in Octet /\ OctetOf(1 - 1, 256) \in Octet
    BY <1>4, OctetOfIs
  <1>6. Oti(Encoder) = <<OctetOf(F, 1), OctetOf(F, 256), OctetOf(F, 65536),
                         OctetOf(T - 1, 1), OctetOf(T - 1, 256),
                         OctetOf(Z - 1, 1), OctetOf(1 - 1, 1), OctetOf(1 - 1, 256)>>
    BY <1>1, <1>2, <1>3 DEF Oti
  <1>. QED
    BY <1>5, <1>6

LEMMA RestsKept ==
    ASSUME SourceTyped', SymbolsTyped', Resting'
    PROVE  CodecInv'
  BY DEF CodecInv, MatrixTyped, Inverting, PrecondTrue, Precond, WorkTyped, Working, Applying,
         StepsTyped, Resting

\* A frame arrives: its symbol goes to its row, or behind the repair symbols.
LEMMA ReceiveKeeps ==
    ASSUME CodecInv, NEW sent \in 0 .. MaxEsi, Receive(sent)
    PROVE  CodecInv'
  <1>1. /\ pc = "receive" /\ pc' = "receive" /\ P' = P /\ sbn' = sbn /\ encoded' = encoded
    BY DEF Receive
  <1>2. SourceTyped /\ P = EncoderParams /\ D \in [Upto(Room) -> Symbol] /\ encoded # << >> /\ Followed
    BY <1>1 DEF CodecInv, SymbolsTyped, SourceTyped
  <1>3. PICK frame : frame = MakeFrame(Oti(Encoder), sbn, sent, Encode(sent))
    OBVIOUS
  <1>4. PICK coded : coded = Encode(sent) /\ coded \in Symbol
    BY <1>2, EncodeIs
  <1>5. IsFrame(frame, Oti(Encoder), sbn, sent, coded)
    BY <1>2, <1>3, <1>4, OtiIs, BlockIs, FrameIs
  <1>6. TagEsi(TagOf(frame)) = sent /\ SymbolOf(frame) = coded
    BY <1>5 DEF IsFrame
  <1>7. /\ D' = [D EXCEPT ![P.S + P.H + sent] = coded] \/ D' = D
        /\ bin' = bin \/ bin' = Append(bin, [esi |-> sent, row |-> coded])
    <2>1. PICK b : b = BlockSymbols(DecoderNew(OtiOf(frame)), sbn)
      OBVIOUS
    <2>2. IF sent < b
          THEN D' = [D EXCEPT ![P.S + P.H + sent] = coded] /\ bin' = bin
          ELSE bin' = Append(bin, [esi |-> sent, row |-> coded]) /\ D' = D
      BY <1>3, <1>6, <2>1 DEF Receive
    <2>. QED
      BY <2>2
  <1>8. D' \in [Upto(Room) -> Symbol]
    BY <1>2, <1>4, <1>7
  <1>9. bin' \in Seq([esi : 0 .. MaxEsi, row : Symbol])
    <2>1. PICK X : X = [esi : 0 .. MaxEsi, row : Symbol]
      OBVIOUS
    <2>2. bin \in Seq(X)
      BY <1>2, <2>1 DEF SourceTyped
    <2>3. PICK x \in X : x = [esi |-> sent, row |-> coded]
      BY <1>4, <2>1
    <2>4. Append(bin, x) \in Seq(X)
      BY <2>2
    <2>. QED
      BY <1>7, <2>1, <2>2, <2>3, <2>4
  <1>10. Room' = Room
    BY <1>1 DEF Room, K
  <1>11. SourceTyped'
    <2>1. Followed' = Followed
      BY <1>1 DEF Followed
    <2>. QED
      BY <1>1, <1>2, <1>9, <2>1 DEF SourceTyped
  <1>12. SymbolsTyped' /\ Resting'
    BY <1>1, <1>2, <1>8, <1>10 DEF SymbolsTyped, Resting
  <1>. QED
    BY <1>11, <1>12, RestsKept

\* A step that leaves the symbols and what was received of them
LEMMA RestKeeps ==
    ASSUME CodecInv, pc # "start", UNCHANGED <<P, D, sbn, encoded, bin>>, Resting',
           pc' \in {"receive", "decoded"} => encoded # << >>
    PROVE  CodecInv'
  <1>1. SourceTyped /\ SymbolsTyped
    BY DEF CodecInv
  <1>2. SourceTyped'
    <2>1. Followed' = Followed
      BY DEF Followed
    <2>2. pc' # "start"
      BY DEF Resting
    <2>. QED
      BY <1>1, <2>1, <2>2 DEF SourceTyped
  <1>3. Room' = Room
    BY DEF Room, K
  <1>4. SymbolsTyped'
    BY <1>1, <1>3 DEF SymbolsTyped
  <1>. QED
    BY <1>2, <1>4, RestsKept

\* The gaps, and the repair symbols there are for them
LEMMA GapsAre ==
    ASSUME CodecInv
    PROVE  /\ Gaps \subseteq Nat /\ IsFiniteSet(Gaps) /\ Cardinality(Gaps) \in Nat
           /\ Len(bin) \in Nat /\ Overhead \in Int /\ Overhead = Len(bin) - Cardinality(Gaps)
  <1>1. K \in Nat
    BY BlockIs DEF CodecInv, SourceTyped
  <1>2. Gaps \in SUBSET Upto(K) /\ Gaps \subseteq Nat
    BY <1>1 DEF Gaps, Upto
  <1>3. IsFiniteSet(Gaps)
    BY <1>1, <1>2, UptoCard, FS_Subset
  <1>4. Cardinality(Gaps) \in Nat
    BY <1>3, FS_CardinalityType
  <1>5. bin \in Seq([esi : 0 .. MaxEsi, row : Symbol])
    BY DEF CodecInv, SourceTyped
  <1>6. Len(bin) \in Nat
    BY <1>5
  <1>. QED
    BY <1>2, <1>3, <1>4, <1>6 DEF Overhead

\* There is a repair symbol for each gap, and for each row from Kprime on.
LEMMA RepairForIs ==
    ASSUME CodecInv, P = EncoderParams, Overhead >= 0,
           NEW n \in Upto(P.Kprime + Overhead), Repairs(n)
    PROVE  RepairFor(n) \in [esi : 0 .. MaxEsi, row : Symbol]
  <1>1. PICK X : X = [esi : 0 .. MaxEsi, row : Symbol]
    OBVIOUS
  <1>2. PICK len \in Nat : len = Len(bin) /\ bin \in Seq(X)
    BY <1>1, GapsAre DEF CodecInv, SourceTyped
  <1>3. PICK g \in Nat : g = Cardinality(Gaps)
    BY GapsAre
  <1>4. PICK kp \in Nat : kp = P.Kprime
    BY ObjectIs DEF IsCode
  <1>5. Overhead = len - g /\ g <= len
    BY <1>2, <1>3, GapsAre
  <1>6. PICK m : m = IF n \in Gaps THEN Cardinality({x \in Gaps : x <= n}) ELSE n - kp + g + 1
    OBVIOUS
  <1>7. m \in 1 .. len
    <2>1. CASE n \in Gaps
      <3>1. Rank(Gaps, n) \in 1 .. Cardinality(Gaps)
        BY <2>1, GapsAre, RankIs
      <3>2. m = Rank(Gaps, n)
        BY <1>6, <2>1 DEF Rank
      <3>. QED
        BY <1>3, <1>5, <3>1, <3>2
    <2>2. CASE n \notin Gaps
      <3>1. n >= kp
        BY <1>4, <2>2 DEF Repairs
      <3>2. n \in 0 .. kp + (len - g) - 1
        BY <1>4, <1>5 DEF Upto
      <3>3. m = n - kp + g + 1
        BY <1>6, <2>2
      <3>. QED
        BY <1>5, <3>1, <3>2, <3>3
    <2>. QED
      BY <2>1, <2>2
  <1>8. bin[m] \in X
    BY <1>2, <1>7, EntryOf
  <1>9. RepairFor(n) = bin[m]
    BY <1>3, <1>4, <1>6 DEF RepairFor
  <1>. QED
    BY <1>1, <1>8, <1>9

\* The gaps are filled, and the rows of the symbols patched into the matrix.
LEMMA RepairKeeps ==
    ASSUME CodecInv, Repair
    PROVE  CodecInv'
  <1>1. PICK p : p = EncoderParams
    OBVIOUS
  <1>2. /\ pc = "receive" /\ UNCHANGED codecVars /\ Overhead >= 0
        /\ P.L + Overhead <= Cardinality(DOMAIN D)
        /\ BeginInvert(P, PrecodeMatrix(P, Patched), Filled)
    BY DEF Repair
  <1>3. /\ SourceTyped /\ P = p /\ D \in [Upto(Room) -> Symbol] /\ encoded # << >> /\ Followed
    BY <1>1, <1>2 DEF CodecInv, SymbolsTyped, SourceTyped
  <1>4. IsCode(p)
    BY <1>1, ObjectIs
  <1>5. PICK room \in Nat : room = Room /\ room = p.L + MaxEsi - K
    BY <1>1, <1>3, RoomBehind
  <1>6. PICK kp \in Nat, x \in Nat, h \in 2 .. 255 :
            /\ kp = p.Kprime /\ x = p.S /\ h = p.H /\ p.L = kp + x + h
    <2>1. p.Kprime \in Nat /\ p.S \in Nat /\ p.H \in 2 .. 255 /\ p.L = p.Kprime + p.S + p.H
      BY <1>4 DEF IsCode
    <2>. QED
      BY <2>1
  <1>7. PICK more \in Nat : more = Overhead
    BY <1>2, GapsAre
  <1>8. PICK m \in Nat : m = kp + more
    OBVIOUS
  <1>9. x + h + m <= room
    <2>1. Cardinality(DOMAIN D) = room
      BY <1>3, <1>5, UptoCard
    <2>2. kp + x + h + more <= room
      BY <1>2, <1>3, <1>6, <1>7, <2>1
    <2>3. h \in Nat
      OBVIOUS
    <2>. QED
      BY <1>8, <2>2, <2>3
  <1>10. ASSUME NEW n \in Upto(m)
         PROVE  (IF Repairs(n) THEN Isi(P, RepairFor(n).esi) ELSE n) \in 0 .. kp + MaxEsi
    <2>1. PICK most \in Nat : most = MaxEsi
      BY ObjectIs
    <2>2. PICK k \in Nat : k = K /\ k <= kp
      BY <1>1, <1>3, <1>6, BlockIs
    <2>3. n \in Nat
      BY DEF Upto
    <2>4. CASE Repairs(n)
      <3>1. RepairFor(n) \in [esi : 0 .. MaxEsi, row : Symbol]
        BY <1>1, <1>2, <1>3, <1>6, <1>7, <1>8, <2>4, RepairForIs
      <3>2. PICK esi \in 0 .. most : esi = RepairFor(n).esi
        BY <2>1, <3>1
      <3>3. Isi(P, esi) = IF esi < k THEN esi ELSE esi + kp - k
        BY <1>3, <1>6, <2>2 DEF Isi
      <3>4. (IF esi < k THEN esi ELSE esi + kp - k) \in 0 .. kp + most
        BY <2>2
      <3>. QED
        BY <2>1, <2>4, <3>2, <3>3, <3>4
    <2>5. CASE ~Repairs(n)
      <3>1. ~(n >= kp)
        BY <1>3, <1>6, <2>5 DEF Repairs
      <3>2. n \in 0 .. kp + most
        BY <2>3, <3>1
      <3>. QED
        BY <2>1, <2>5, <3>2
    <2>. QED
      BY <2>4, <2>5
  <1>11. AreRows(Patched, m, p)
    <2>1. Patched = [n \in Upto(m) |-> IF Repairs(n) THEN Isi(P, RepairFor(n).esi) ELSE n]
      BY <1>3, <1>6, <1>7, <1>8 DEF Patched
    <2>2. ASSUME NEW n \in Upto(m)
          PROVE  TupleInRange(Patched[n], p)
      <3>1. Patched[n] \in 0 .. p.Kprime + MaxEsi
        BY <1>6, <1>10, <2>1
      <3>. QED
        BY <1>1, <3>1, ObjectIs
    <2>3. DOMAIN Patched = Upto(m)
      BY <2>1
    <2>. QED
      BY <2>2, <2>3 DEF AreRows
  <1>12. Filled \in [Upto(room) -> Symbol]
    <2>1. PICK first : first = P.S + P.H
      OBVIOUS
    <2>2. Filled = [r \in Upto(room) |->
                       IF r - first \in Upto(m) /\ Repairs(r - first)
                       THEN RepairFor(r - first).row ELSE D[r]]
      BY <1>3, <1>5, <1>6, <1>7, <1>8, <2>1 DEF Filled
    <2>3. ASSUME NEW r \in Upto(room)
          PROVE  (IF r - first \in Upto(m) /\ Repairs(r - first)
                  THEN RepairFor(r - first).row ELSE D[r]) \in Symbol
      <3>1. ASSUME r - first \in Upto(m), Repairs(r - first)
            PROVE  RepairFor(r - first).row \in Symbol
        <4>1. PICK n \in Upto(m) : n = r - first
          BY <3>1
        <4>2. RepairFor(n) \in [esi : 0 .. MaxEsi, row : Symbol]
          BY <1>1, <1>2, <1>3, <1>6, <1>7, <1>8, <3>1, <4>1, RepairForIs
        <4>. QED
          BY <4>1, <4>2
      <3>2. D[r] \in Symbol
        BY <1>3, <1>5
      <3>. QED
        BY <3>1, <3>2
    <2>. QED
      BY <2>2, <2>3
  <1>13. room = IF encoded = << >> THEN p.L ELSE p.L + MaxEsi - K
    BY <1>3, <1>5
  <1>14. m >= p.Kprime /\ p.S + p.H + m <= room
    BY <1>6, <1>8, <1>9
  <1>15. BeginInvert(p, PrecodeMatrix(p, Patched), Filled)
    BY <1>2, <1>3
  <1>. QED
    BY <1>1, <1>2, <1>3, <1>11, <1>12, <1>13, <1>14, <1>15, BeginInvertKeeps

\* At the start nothing is there.
LEMMA StartIs == Init => CodecInv
  <1>1. SUFFICES ASSUME Init
                 PROVE  CodecInv
    OBVIOUS
  <1>2. /\ sbn \in DOMAIN Attempts /\ pc = "start" /\ encoded = << >> /\ bin = << >>
    BY <1>1 DEF Init
  <1>3. Followed
    BY <1>2, ObjectAssumption DEF Followed
  <1>4. bin \in Seq([esi : 0 .. MaxEsi, row : Symbol])
    BY <1>2
  <1>5. SourceTyped
    BY <1>2, <1>3, <1>4 DEF SourceTyped
  <1>6. SymbolsTyped
    BY <1>2 DEF SymbolsTyped
  <1>. QED
    BY <1>2, <1>5, <1>6 DEF CodecInv, MatrixTyped, Inverting, PrecondTrue, Precond, WorkTyped,
                            Working, Applying, StepsTyped

LEMMA NothingChanges ==
    ASSUME CodecInv, UNCHANGED vars
    PROVE  CodecInv'
  BY DEF CodecInv, SourceTyped, Followed, SymbolsTyped, Room, K, MatrixTyped, Inverting, Precond,
         Working, Applying, NumRows, PrecondTrue, WorkTyped, StepInWork, StepsTyped,
         vars, precodeVars, codecVars

LEMMA NextKeeps ==
    ASSUME CodecInv, Next
    PROVE  CodecInv'
  <1>1. CASE Generate
    BY <1>1, GenerateKeeps
  <1>2. CASE Generated
    BY <1>2, GeneratedKeeps
  <1>3. CASE Invert /\ UNCHANGED codecVars
    BY <1>3, InvertKeeps
  <1>4. ASSUME NEW esi \in 0 .. MaxEsi, Receive(esi)
        PROVE  CodecInv'
    BY <1>4, ReceiveKeeps
  <1>5. CASE NothingMissing
    <2>1. /\ pc = "receive" /\ pc' = "decoded" /\ UNCHANGED <<P, D, sbn, encoded, bin>>
      BY <1>5 DEF NothingMissing, codecVars
    <2>2. encoded # << >>
      BY <2>1 DEF CodecInv, SourceTyped
    <2>. QED
      BY <2>1, <2>2, RestKeeps DEF Resting
  <1>6. CASE Repair
    BY <1>6, RepairKeeps
  <1>7. CASE Failed
    <2>1. /\ pc = "singular" /\ pc' = "receive" /\ UNCHANGED <<P, D, sbn, encoded, bin>>
          /\ encoded # << >>
      BY <1>7 DEF Failed
    <2>. QED
      BY <2>1, RestKeeps DEF Resting
  <1>8. CASE Repaired
    <2>1. /\ pc = "inverted" /\ pc' = "decoded" /\ UNCHANGED <<P, D, sbn, encoded, bin>>
          /\ encoded # << >>
      BY <1>8 DEF Repaired
    <2>. QED
      BY <2>1, RestKeeps DEF Resting
  <1>9. CASE Ended
    BY <1>9, NothingChanges DEF Ended
  <1>. QED
    BY <1>1, <1>2, <1>3, <1>4, <1>5, <1>6, <1>7, <1>8, <1>9 DEF Next

\* The ones of a row in V are as many by their places as by their columns.
LEMMA PlacesCount ==
    ASSUME NEW n, NEW p, NEW s, IsSchedule(s, n, p), NEW a, NEW r,
           p.L \in Nat, p.P \in Nat, s.u >= p.P, s.i + s.u <= p.L
    PROVE  Cardinality({q \in s.i .. p.L - s.u - 1 : HasCol(a[r], s.c[q])})
           = Cardinality(OnesInV(a, s, p, r))
  <1>1. /\ s.i \in Nat /\ s.u \in Nat /\ Inverses(s.c, s.ci, Upto(p.L))
        /\ s.c \in [Upto(p.L) -> Upto(p.L)]
    BY DEF IsSchedule
  <1>2. PICK V : V = s.i .. p.L - s.u - 1
    OBVIOUS
  <1>3. V \subseteq Upto(p.L) /\ IsFiniteSet(V)
    <2>1. PICK i \in Nat, u \in Nat, len \in Nat : i = s.i /\ u = s.u /\ len = p.L
      BY <1>1
    <2>2. V = i .. len - u - 1
      BY <1>2, <2>1
    <2>3. len - u - 1 \in Int /\ i \in Int
      OBVIOUS
    <2>4. IsFiniteSet(V)
      BY <2>2, <2>3, FS_Interval
    <2>5. V \subseteq 0 .. len - 1
      BY <2>2
    <2>. QED
      BY <2>1, <2>4, <2>5 DEF Upto
  <1>4. PICK X : X = {q \in V : HasCol(a[r], s.c[q])}
    OBVIOUS
  <1>5. X \in SUBSET V
    BY <1>4
  <1>6. IsFiniteSet(X)
    BY <1>3, <1>5, FS_Subset
  <1>7. PICK Y : Y = OnesInV(a, s, p, r)
    OBVIOUS
  <1>8. Y = {col \in {s.c[q] : q \in V} : HasCol(a[r], col)}
    BY <1>2, <1>7 DEF OnesInV, RowIn, ColsInV
  <1>9. PICK f : f = [q \in X |-> s.c[q]]
    OBVIOUS
  <1>10. f \in [X -> Y]
    BY <1>4, <1>8, <1>9
  <1>11. \A x, z \in X : f[x] = f[z] => x = z
    <2>1. \A x, z \in Upto(p.L) : s.c[x] = s.c[z] => x = z
      BY <1>1 DEF Inverses
    <2>. QED
      BY <1>3, <1>5, <1>9, <2>1
  <1>12. \A y \in Y : \E x \in X : f[x] = y
    BY <1>4, <1>8, <1>9
  <1>13. Cardinality(Y) = Cardinality(X)
    BY <1>6, <1>10, <1>11, <1>12, SameCount
  <1>. QED
    BY <1>2, <1>4, <1>7, <1>13

-----------------------------------------------------------------------------
\* The products.

\* 29 has the bits 4, 3, 2 and 0.
LEMMA TwiceBits ==
    ASSUME NEW o, NEW b7, NEW b6, NEW b5, NEW b4, NEW b3, NEW b2, NEW b1, NEW b0,
           HasBits(o, b7, b6, b5, b4, b3, b2, b1, b0)
    PROVE  HasBits(Twice[o], b6, b5, b4, (b3 + b7) % 2, (b2 + b7) % 2, (b1 + b7) % 2, b0, b7)
  <1>1. /\ b7 \in Bit /\ b6 \in Bit /\ b5 \in Bit /\ b4 \in Bit
        /\ b3 \in Bit /\ b2 \in Bit /\ b1 \in Bit /\ b0 \in Bit
        /\ o = 128 * b7 + 64 * b6 + 32 * b5 + 16 * b4 + 8 * b3 + 4 * b2 + 2 * b1 + b0
    BY DEF HasBits
  <1>2. o \in Octet
    BY <1>1 DEF Bit, Octet
  <1>3. CASE b7 = 0
    <2>1. Twice[o] = 2 * o
      <3>1. ~(o >= 128)
        BY <1>1, <1>3 DEF Bit
      <3>. QED
        BY <1>2, <3>1 DEF Twice
    <2>2. HasBits(2 * o, b6, b5, b4, b3, b2, b1, b0, 0)
      BY <1>1, <1>3 DEF HasBits, Bit
    <2>3. (b3 + b7) % 2 = b3 /\ (b2 + b7) % 2 = b2 /\ (b1 + b7) % 2 = b1
      BY <1>1, <1>3 DEF Bit
    <2>. QED
      BY <1>3, <2>1, <2>2, <2>3
  <1>4. CASE b7 = 1
    <2>1. PICK m : m = 2 * o - 256
      OBVIOUS
    <2>2. Twice[o] = Xor[29][m]
      <3>1. o >= 128
        BY <1>1, <1>4 DEF Bit
      <3>2. Reduction = 29
        BY DEF Reduction
      <3>. QED
        BY <1>2, <2>1, <3>1, <3>2 DEF Twice
    <2>3. HasBits(m, b6, b5, b4, b3, b2, b1, b0, 0)
      BY <1>1, <1>4, <2>1 DEF HasBits, Bit
    <2>4. HasBits(29, 0, 0, 0, 1, 1, 1, 0, 1)
      BY DEF HasBits, Bit
    <2>5. HasBits(Xor[29][m], (0 + b6) % 2, (0 + b5) % 2, (0 + b4) % 2, (1 + b3) % 2,
                               (1 + b2) % 2, (1 + b1) % 2, (0 + b0) % 2, (1 + 0) % 2)
      BY <2>3, <2>4, XorBits
    <2>6. /\ (0 + b6) % 2 = b6 /\ (0 + b5) % 2 = b5 /\ (0 + b4) % 2 = b4 /\ (0 + b0) % 2 = b0
          /\ (1 + 0) % 2 = 1 /\ (1 + b3) % 2 = (b3 + 1) % 2 /\ (1 + b2) % 2 = (b2 + 1) % 2
          /\ (1 + b1) % 2 = (b1 + 1) % 2
      BY <1>1 DEF Bit
    <2>. QED
      BY <1>4, <2>2, <2>5, <2>6
  <1>. QED
    BY <1>1, <1>3, <1>4 DEF Bit

LEMMA BitsReorder ==
    ASSUME NEW a \in Bit, NEW b \in Bit, NEW c \in Bit, NEW d \in Bit
    PROVE  Reorders(a, b, c, d)
  BY SMT DEF Bit, Reorders

\* The double of a sum is the sum of the doubles.
LEMMA TwiceSum ==
    ASSUME NEW a \in Octet, NEW b \in Octet
    PROVE  Twice[Xor[a][b]] = Xor[Twice[a]][Twice[b]]
  <1>1. PICK a7, a6, a5, a4, a3, a2, a1, a0 : HasBits(a, a7, a6, a5, a4, a3, a2, a1, a0)
    BY OctetBits
  <1>2. PICK b7, b6, b5, b4, b3, b2, b1, b0 : HasBits(b, b7, b6, b5, b4, b3, b2, b1, b0)
    BY OctetBits
  <1>3. /\ a7 \in Bit /\ a6 \in Bit /\ a5 \in Bit /\ a4 \in Bit
        /\ a3 \in Bit /\ a2 \in Bit /\ a1 \in Bit /\ a0 \in Bit
        /\ b7 \in Bit /\ b6 \in Bit /\ b5 \in Bit /\ b4 \in Bit
        /\ b3 \in Bit /\ b2 \in Bit /\ b1 \in Bit /\ b0 \in Bit
    BY <1>1, <1>2 DEF HasBits
  <1>4. HasBits(Twice[Xor[a][b]], (a6 + b6) % 2, (a5 + b5) % 2, (a4 + b4) % 2,
                (((a3 + b3) % 2) + ((a7 + b7) % 2)) % 2, (((a2 + b2) % 2) + ((a7 + b7) % 2)) % 2,
                (((a1 + b1) % 2) + ((a7 + b7) % 2)) % 2, (a0 + b0) % 2, (a7 + b7) % 2)
    <2>1. HasBits(Xor[a][b], (a7 + b7) % 2, (a6 + b6) % 2, (a5 + b5) % 2, (a4 + b4) % 2,
                             (a3 + b3) % 2, (a2 + b2) % 2, (a1 + b1) % 2, (a0 + b0) % 2)
      BY <1>1, <1>2, XorBits
    <2>. QED
      BY <2>1, TwiceBits
  <1>5. HasBits(Xor[Twice[a]][Twice[b]], (a6 + b6) % 2, (a5 + b5) % 2, (a4 + b4) % 2,
                (((a3 + a7) % 2) + ((b3 + b7) % 2)) % 2, (((a2 + a7) % 2) + ((b2 + b7) % 2)) % 2,
                (((a1 + a7) % 2) + ((b1 + b7) % 2)) % 2, (a0 + b0) % 2, (a7 + b7) % 2)
    <2>1. HasBits(Twice[a], a6, a5, a4, (a3 + a7) % 2, (a2 + a7) % 2, (a1 + a7) % 2, a0, a7)
      BY <1>1, TwiceBits
    <2>2. HasBits(Twice[b], b6, b5, b4, (b3 + b7) % 2, (b2 + b7) % 2, (b1 + b7) % 2, b0, b7)
      BY <1>2, TwiceBits
    <2>. QED
      BY <2>1, <2>2, XorBits
  <1>6. Reorders(a3, b3, a7, b7) /\ Reorders(a2, b2, a7, b7) /\ Reorders(a1, b1, a7, b7)
    BY <1>3, BitsReorder
  <1>7. HasBits(Xor[Twice[a]][Twice[b]], (a6 + b6) % 2, (a5 + b5) % 2, (a4 + b4) % 2,
                (((a3 + b3) % 2) + ((a7 + b7) % 2)) % 2, (((a2 + b2) % 2) + ((a7 + b7) % 2)) % 2,
                (((a1 + b1) % 2) + ((a7 + b7) % 2)) % 2, (a0 + b0) % 2, (a7 + b7) % 2)
    BY <1>5, <1>6 DEF Reorders
  <1>. QED
    BY <1>4, <1>7 DEF HasBits

\* Numbers that have no bit in common are summed without carry.
LEMMA BitAbove ==
    ASSUME NEW n \in Octet, NEW b \in Octet,
           b \in {1, 2, 4, 8, 16, 32, 64, 128}, n < b
    PROVE  Xor[n][b] = n + b
  <1>1. PICK n7, n6, n5, n4, n3, n2, n1, n0 : HasBits(n, n7, n6, n5, n4, n3, n2, n1, n0)
    BY OctetBits
  <1>2. PICK b7, b6, b5, b4, b3, b2, b1, b0 : HasBits(b, b7, b6, b5, b4, b3, b2, b1, b0)
    BY OctetBits
  <1>3. /\ n7 \in Bit /\ n6 \in Bit /\ n5 \in Bit /\ n4 \in Bit
        /\ n3 \in Bit /\ n2 \in Bit /\ n1 \in Bit /\ n0 \in Bit
        /\ n = 128 * n7 + 64 * n6 + 32 * n5 + 16 * n4 + 8 * n3 + 4 * n2 + 2 * n1 + n0
        /\ b7 \in Bit /\ b6 \in Bit /\ b5 \in Bit /\ b4 \in Bit
        /\ b3 \in Bit /\ b2 \in Bit /\ b1 \in Bit /\ b0 \in Bit
        /\ b = 128 * b7 + 64 * b6 + 32 * b5 + 16 * b4 + 8 * b3 + 4 * b2 + 2 * b1 + b0
    BY <1>1, <1>2 DEF HasBits
  <1>4. /\ n7 + b7 < 2 /\ n6 + b6 < 2 /\ n5 + b5 < 2 /\ n4 + b4 < 2
        /\ n3 + b3 < 2 /\ n2 + b2 < 2 /\ n1 + b1 < 2 /\ n0 + b0 < 2
    BY <1>3 DEF Bit
  <1>5. \A x, y \in Bit : x + y < 2 => (x + y) % 2 = x + y
    BY DEF Bit
  <1>6. HasBits(Xor[n][b], (n7 + b7) % 2, (n6 + b6) % 2, (n5 + b5) % 2, (n4 + b4) % 2,
                (n3 + b3) % 2, (n2 + b2) % 2, (n1 + b1) % 2, (n0 + b0) % 2)
    BY <1>1, <1>2, XorBits
  <1>7. /\ (n7 + b7) % 2 = n7 + b7 /\ (n6 + b6) % 2 = n6 + b6 /\ (n5 + b5) % 2 = n5 + b5
        /\ (n4 + b4) % 2 = n4 + b4 /\ (n3 + b3) % 2 = n3 + b3 /\ (n2 + b2) % 2 = n2 + b2
        /\ (n1 + b1) % 2 = n1 + b1 /\ (n0 + b0) % 2 = n0 + b0
    BY <1>3, <1>4, <1>5
  <1>8. HasBits(Xor[n][b], n7 + b7, n6 + b6, n5 + b5, n4 + b4, n3 + b3, n2 + b2, n1 + b1, n0 + b0)
    BY <1>6, <1>7
  <1>9. Xor[n][b] = 128 * (n7 + b7) + 64 * (n6 + b6) + 32 * (n5 + b5) + 16 * (n4 + b4)
                    + 8 * (n3 + b3) + 4 * (n2 + b2) + 2 * (n1 + b1) + (n0 + b0)
    BY <1>8 DEF HasBits
  <1>. QED
    BY <1>3, <1>9 DEF Bit

LEMMA DoublesAgree ==
    ASSUME NEW o, NEW n \in Nat, NEW m \in Nat, n <= m,
           NEW f, AreDoubles(f, o, n), NEW g, AreDoubles(g, o, m)
    PROVE  \A k \in 0 .. n : f[k] = g[k]
  <1>1. /\ \A k \in 0 .. n : f[k] = IF k = 0 THEN o ELSE Twice[f[k - 1]]
        /\ \A k \in 0 .. m : g[k] = IF k = 0 THEN o ELSE Twice[g[k - 1]]
    BY DEF AreDoubles
  <1>. DEFINE Q == {k \in Nat : k <= n => f[k] = g[k]}
  <1>2. 0 \in Q
    BY <1>1
  <1>3. ASSUME NEW k \in Q
        PROVE  k + 1 \in Q
    <2>1. CASE k + 1 <= n
      <3>1. /\ k + 1 \in 0 .. n /\ k + 1 \in 0 .. m /\ k + 1 # 0 /\ (k + 1) - 1 = k
            /\ f[k] = g[k]
        BY <2>1
      <3>2. f[k + 1] = Twice[f[k]] /\ g[k + 1] = Twice[g[k]]
        BY <1>1, <3>1
      <3>. QED
        BY <3>1, <3>2
    <2>. QED
      BY <2>1
  <1>4. Q = Nat
    <2>1. Q \subseteq Nat
      OBVIOUS
    <2>. HIDE DEF Q
    <2>. QED
      BY <1>2, <1>3, <2>1, SetInduction
  <1>. QED
    BY <1>4

LEMMA DoublesAre ==
    ASSUME NEW o \in Octet, NEW n \in Nat
    PROVE  \E f \in [0 .. n -> Octet] : AreDoubles(f, o, n) /\ Shifted(o, n) = f[n]
  <1>. DEFINE F == [z \in Octet \X Nat |-> Twice[z[1]]]
  <1>1. F \in [Octet \X Nat -> Octet]
    <2>1. \A z \in Octet \X Nat : Twice[z[1]] \in Octet
      BY TwiceIs
    <2>. QED
      BY <2>1
  <1>2. PICK g \in [0 .. n -> Octet] : Follows(g, F, o, n)
    <2>. HIDE DEF F
    <2>. QED
      BY <1>1, Recursion
  <1>3. AreDoubles(g, o, n)
    <2>1. g[0] = o /\ \A i \in 1 .. n : g[i] = F[<<g[i - 1], i>>]
      BY <1>2 DEF Follows
    <2>2. ASSUME NEW i \in 1 .. n
          PROVE  g[i] = Twice[g[i - 1]]
      <3>1. i - 1 \in 0 .. n /\ i \in Nat
        OBVIOUS
      <3>2. <<g[i - 1], i>> \in Octet \X Nat
        BY <1>2, <3>1
      <3>3. F[<<g[i - 1], i>>] = Twice[<<g[i - 1], i>>[1]]
        BY <3>2
      <3>. QED
        BY <2>1, <3>3
    <2>3. ASSUME NEW i \in 0 .. n
          PROVE  g[i] = IF i = 0 THEN o ELSE Twice[g[i - 1]]
      <3>1. CASE i = 0
        BY <2>1, <3>1
      <3>2. CASE i # 0
        <4>1. i \in 1 .. n
          BY <3>2
        <4>. QED
          BY <2>2, <3>2, <4>1
      <3>. QED
        BY <3>1, <3>2
    <2>4. g = [k \in 0 .. n |-> g[k]]
      BY <1>2
    <2>. QED
      BY <2>3, <2>4 DEF AreDoubles
  <1>4. PICK f : f = CHOOSE h : AreDoubles(h, o, n)
    OBVIOUS
  <1>5. AreDoubles(f, o, n)
    BY <1>3, <1>4
  <1>6. Shifted(o, n) = f[n]
    BY <1>4 DEF Shifted, AreDoubles
  <1>7. f \in [0 .. n -> Octet]
    <2>1. \A k \in 0 .. n : f[k] = g[k]
      BY <1>3, <1>5, DoublesAgree
    <2>2. \A k \in 0 .. n : g[k] \in Octet
      OBVIOUS
    <2>3. f = [k \in 0 .. n |-> f[k]]
      BY <1>5 DEF AreDoubles
    <2>. QED
      BY <2>1, <2>2, <2>3
  <1>. QED
    BY <1>5, <1>6, <1>7

LEMMA ShiftedIs ==
    ASSUME NEW o \in Octet, NEW n \in Nat
    PROVE  /\ Shifted(o, n) \in Octet /\ Shifted(o, 0) = o
           /\ Shifted(o, n + 1) = Twice[Shifted(o, n)]
  <1>1. PICK f \in [0 .. n -> Octet] : AreDoubles(f, o, n) /\ Shifted(o, n) = f[n]
    BY DoublesAre
  <1>2. PICK g \in [0 .. n + 1 -> Octet] : AreDoubles(g, o, n + 1) /\ Shifted(o, n + 1) = g[n + 1]
    <2>1. n + 1 \in Nat
      OBVIOUS
    <2>. QED
      BY <2>1, DoublesAre
  <1>3. PICK h \in [0 .. 0 -> Octet] : AreDoubles(h, o, 0) /\ Shifted(o, 0) = h[0]
    <2>1. 0 \in Nat
      OBVIOUS
    <2>. QED
      BY <2>1, DoublesAre
  <1>4. Shifted(o, n) \in Octet
    BY <1>1
  <1>5. h[0] = o
    BY <1>3 DEF AreDoubles
  <1>6. f[n] = g[n]
    <2>1. n + 1 \in Nat /\ n <= n + 1
      OBVIOUS
    <2>2. \A k \in 0 .. n : f[k] = g[k]
      BY <1>1, <1>2, <2>1, DoublesAgree
    <2>. QED
      BY <2>2
  <1>7. g[n + 1] = Twice[g[n]]
    <2>1. \A k \in 0 .. n + 1 : g[k] = IF k = 0 THEN o ELSE Twice[g[k - 1]]
      BY <1>2 DEF AreDoubles
    <2>2. n + 1 \in 0 .. n + 1 /\ n + 1 # 0 /\ (n + 1) - 1 = n
      OBVIOUS
    <2>. QED
      BY <2>1, <2>2
  <1>. QED
    BY <1>1, <1>2, <1>3, <1>4, <1>5, <1>6, <1>7

LEMMA ShiftedSum ==
    ASSUME NEW a \in Octet, NEW b \in Octet
    PROVE  \A n \in Nat : SumKept(a, b, n) /\ Shifted(0, n) = 0
  <1>1. Xor[a][b] \in Octet /\ 0 \in Octet
    <2>1. 0 \in Octet
      BY DEF Octet
    <2>. QED
      BY <2>1, XorIs
  <1>2. Twice[0] = 0
    BY <1>1, TwiceIs DEF Doubled
  <1>. DEFINE Q == {n \in Nat : SumKept(a, b, n) /\ Shifted(0, n) = 0}
  <1>3. 0 \in Q
    <2>1. /\ Shifted(Xor[a][b], 0) = Xor[a][b] /\ Shifted(a, 0) = a /\ Shifted(b, 0) = b
          /\ Shifted(0, 0) = 0
      BY <1>1, ShiftedIs
    <2>. QED
      BY <2>1 DEF SumKept
  <1>4. ASSUME NEW n \in Q
        PROVE  n + 1 \in Q
    <2>1. n \in Nat /\ SumKept(a, b, n) /\ Shifted(0, n) = 0
      OBVIOUS
    <2>2. PICK x \in Octet : x = Shifted(a, n) /\ Shifted(a, n + 1) = Twice[x]
      BY <2>1, ShiftedIs
    <2>3. PICK y \in Octet : y = Shifted(b, n) /\ Shifted(b, n + 1) = Twice[y]
      BY <2>1, ShiftedIs
    <2>4. Shifted(Xor[a][b], n + 1) = Twice[Shifted(Xor[a][b], n)]
      BY <1>1, <2>1, ShiftedIs
    <2>5. Shifted(Xor[a][b], n) = Xor[x][y]
      BY <2>1, <2>2, <2>3 DEF SumKept
    <2>6. Twice[Xor[x][y]] = Xor[Twice[x]][Twice[y]]
      BY TwiceSum
    <2>7. Shifted(0, n + 1) = 0
      BY <1>1, <1>2, <2>1, ShiftedIs, ZenonT(30)
    <2>. QED
      BY <2>1, <2>2, <2>3, <2>4, <2>5, <2>6, <2>7 DEF SumKept
  <1>5. Q = Nat
    <2>1. Q \subseteq Nat
      OBVIOUS
    <2>. HIDE DEF Q
    <2>. QED
      BY <1>3, <1>4, <2>1, SetInduction
  <1>. QED
    BY <1>5, Zenon

\* The powers are doubled in a circle.
LEMMA PowerShifted ==
    ASSUME NEW i \in 0 .. 254
    PROVE  \A n \in Nat : Shifted(Power[i], n) = Power[(i + n) % 255]
  <1>1. \A j \in 0 .. 254 : Power[j] \in Octet
    BY PowerIs
  <1>2. ASSUME NEW j \in 0 .. 254
        PROVE  Twice[Power[j]] = Power[(j + 1) % 255]
    <2>1. CASE j < 254
      <3>1. j + 1 \in 1 .. 254 /\ (j + 1) - 1 = j /\ (j + 1) % 255 = j + 1
        BY <2>1
      <3>. QED
        BY <3>1, PowerIs, SMTT(30)
    <2>2. CASE j = 254
      <3>1. Power[254] = 142 /\ 142 \in Octet
        BY EveryOctetIsPower, SMTT(30) DEF Goes
      <3>2. Doubled(142) = 1
        BY DEF Doubled
      <3>3. (254 + 1) % 255 = 0
        OBVIOUS
      <3>. QED
        BY <2>2, <3>1, <3>2, <3>3, PowerIs, TwiceIs, SMTT(30)
    <2>. QED
      BY <2>1, <2>2
  <1>. DEFINE Q == {n \in Nat : Shifted(Power[i], n) = Power[(i + n) % 255]}
  <1>3. 0 \in Q
    <2>1. (i + 0) % 255 = i /\ 0 \in Nat
      OBVIOUS
    <2>2. PICK o \in Octet : o = Power[i]
      BY <1>1
    <2>3. Shifted(o, 0) = o
      BY <2>1, ShiftedIs
    <2>. QED
      BY <2>1, <2>2, <2>3
  <1>4. ASSUME NEW n \in Q
        PROVE  n + 1 \in Q
    <2>1. n \in Nat /\ Shifted(Power[i], n) = Power[(i + n) % 255]
      OBVIOUS
    <2>2. PICK j \in 0 .. 254 : j = (i + n) % 255
      BY <2>1
    <2>3. (j + 1) % 255 = (i + (n + 1)) % 255
      BY <2>1, <2>2
    <2>4. Shifted(Power[i], n + 1) = Twice[Shifted(Power[i], n)]
      <3>1. PICK o \in Octet : o = Power[i]
        BY <1>1
      <3>2. Shifted(o, n + 1) = Twice[Shifted(o, n)]
        BY <2>1, ShiftedIs
      <3>. QED
        BY <3>1, <3>2
    <2>5. Twice[Power[j]] = Power[(j + 1) % 255]
      BY <1>2, SMTT(30)
    <2>. QED
      BY <2>1, <2>2, <2>3, <2>4, <2>5
  <1>5. Q = Nat
    <2>1. Q \subseteq Nat
      OBVIOUS
    <2>. HIDE DEF Q
    <2>. QED
      BY <1>3, <1>4, <2>1, SetInduction
  <1>. QED
    BY <1>5

\* The logarithm of u tells how often the other factor is doubled.
LEMMA EntryTimes ==
    ASSUME NEW u \in Octet, u # 0, NEW v \in Octet
    PROVE  /\ OCT_LOG[u] \in 0 .. 254
           /\ ProductEntry(u, v) = Shifted(v, OCT_LOG[u])
           /\ ProductEntry(v, u) = Shifted(v, OCT_LOG[u])
  <1>1. PICK i \in 0 .. 254 : i = OCT_LOG[u]
    BY LogIs
  <1>2. CASE v = 0
    <2>1. ProductEntry(u, v) = 0 /\ ProductEntry(v, u) = 0
      BY <1>2 DEF ProductEntry
    <2>2. i \in Nat /\ Shifted(0, i) = 0
      BY <1>2, ShiftedSum
    <2>. QED
      BY <1>1, <1>2, <2>1, <2>2
  <1>3. CASE v # 0
    <2>1. PICK j \in 0 .. 254 : j = OCT_LOG[v] /\ OCT_EXP[j] = v
      BY <1>3, LogIs
    <2>2. j % 255 = j /\ j \in 0 .. 509
      OBVIOUS
    <2>3. Power[j] = v
      BY <2>1, <2>2, ExpIs, SMTT(30)
    <2>4. PICK k \in 0 .. 254 : k = (i + j) % 255 /\ k = (j + i) % 255 /\ k % 255 = k /\ k \in 0 .. 509
      OBVIOUS
    <2>5. ProductEntry(u, v) = OCT_EXP[k] /\ ProductEntry(v, u) = OCT_EXP[k]
      BY <1>1, <1>3, <2>1, <2>4 DEF ProductEntry
    <2>6. OCT_EXP[k] = Power[k]
      BY <2>4, ExpIs, SMTT(30)
    <2>7. i \in Nat /\ Shifted(Power[j], i) = Power[k]
      <3>1. i \in Nat
        OBVIOUS
      <3>2. Shifted(Power[j], i) = Power[(j + i) % 255]
        BY <3>1, PowerShifted, ZenonT(30)
      <3>. QED
        BY <2>4, <3>1, <3>2
    <2>. QED
      BY <1>1, <2>3, <2>5, <2>6, <2>7
  <1>. QED
    BY <1>1, <1>2, <1>3

\* The nibbles of an octet add up to it.
LEMMA NibblesAdd ==
    ASSUME NEW a \in Nibble, NEW b \in Nibble
    PROVE  16 * a \in Octet /\ b \in Octet /\ Xor[16 * a][b] = 16 * a + b
  <1>1. /\ 16 * a \in Octet /\ b \in Octet /\ 0 \in Octet
        /\ (16 * a) \div 16 = a /\ (16 * a) % 16 = 0
        /\ b \div 16 = 0 /\ b % 16 = b /\ 0 \div 16 = 0 /\ 0 % 16 = 0
    BY DEF Nibble, Octet
  <1>. DEFINE W(m, n) == XorOfNibbles[m][n]
  <1>2. 0 \in Nibble
    BY DEF Nibble
  <1>3. W(a, 0) \in Nat /\ W(b, 0) \in Nat /\ W(0, b) \in Nat /\ W(0, 0) \in Nat /\ W(a, 0) \in Nat
    BY <1>2, NibblesIs, SMTT(30) DEF Nibble
  <1>4. /\ Xor[0][0] = 16 * W(0, 0) + W(0, 0)
        /\ Xor[16 * a][0] = 16 * W(a, 0) + W(0, 0)
        /\ Xor[0][b] = 16 * W(0, 0) + W(0, b)
        /\ Xor[16 * a][b] = 16 * W(a, 0) + W(0, b)
    <2>1. \A m, n \in Octet : Xor[m][n] = 16 * W(m \div 16, n \div 16) + W(m % 16, n % 16)
      BY XorIs
    <2>. HIDE DEF W
    <2>. QED
      BY <1>1, <2>1
  <1>5. Xor[0][0] = 0 /\ Xor[16 * a][0] = 16 * a /\ Xor[0][b] = b
    BY <1>1, XorLaws
  <1>. HIDE DEF W
  <1>6. PICK x \in Nat, y \in Nat, z \in Nat : x = W(a, 0) /\ y = W(0, b) /\ z = W(0, 0)
    BY <1>3
  <1>7. 16 * z + z = 0 /\ 16 * x + z = 16 * a /\ 16 * z + y = b
    BY <1>4, <1>5, <1>6
  <1>8. 16 * x + y = 16 * a + b
    BY <1>1, <1>7 DEF Octet, Nibble
  <1>. QED
    BY <1>1, <1>4, <1>6, <1>8

\* A product of the nibbles' tables is the product of the logarithms.
LEMMA MulIsEntry ==
    ASSUME NEW u \in Octet, NEW o \in Octet
    PROVE  Mul(u, o) = ProductEntry(u, o)
  <1>1. PICK a \in Nibble, b \in Nibble : a = o \div 16 /\ b = o % 16 /\ o = 16 * a + b
    BY NibblesOf
  <1>2. a \in 0 .. 15 /\ b \in 0 .. 15
    BY DEF Nibble
  <1>3. OCT_MUL_HI[u][a] = ProductEntry(u, 16 * a) /\ OCT_MUL_LO[u][b] = ProductEntry(u, b)
    BY <1>2 DEF OCT_MUL_HI, OCT_MUL_LO
  <1>4. Mul(u, o) = Xor[ProductEntry(u, 16 * a)][ProductEntry(u, b)]
    BY <1>1, <1>3 DEF Mul
  <1>5. PICK h \in Octet : h = 16 * a
    BY NibblesAdd
  <1>6. b \in Octet /\ Xor[h][b] = o
    BY <1>1, <1>5, NibblesAdd
  <1>7. CASE u = 0
    <2>1. ProductEntry(u, h) = 0 /\ ProductEntry(u, b) = 0 /\ ProductEntry(u, o) = 0
      BY <1>7 DEF ProductEntry
    <2>2. Xor[0][0] = 0
      BY <1>7, XorLaws
    <2>. QED
      BY <1>4, <1>5, <2>1, <2>2
  <1>8. CASE u # 0
    <2>1. PICK n \in Nat : n = OCT_LOG[u]
      BY <1>8, EntryTimes
    <2>2. /\ ProductEntry(u, h) = Shifted(h, n) /\ ProductEntry(u, b) = Shifted(b, n)
          /\ ProductEntry(u, o) = Shifted(o, n)
      BY <1>6, <1>8, <2>1, EntryTimes
    <2>3. Shifted(Xor[h][b], n) = Xor[Shifted(h, n)][Shifted(b, n)]
      BY <1>6, ShiftedSum DEF SumKept
    <2>. QED
      BY <1>4, <1>5, <1>6, <2>2, <2>3
  <1>. QED
    BY <1>7, <1>8

\* Only 0 is the logarithm of 1: there are as many powers as octets but 0.
LEMMA LogOfOne ==
    OCT_LOG[1] = 0
  <1>1. Power \in [0 .. 254 -> Octet]
    BY PowerIs
  <1>2. 1 \in Octet /\ 1 # 0
    BY DEF Octet
  <1>3. OCT_LOG[1] \in 0 .. 254 /\ OCT_EXP[OCT_LOG[1]] = 1
    BY <1>2, LogIs
  <1>4. PICK i \in 0 .. 254 : i = OCT_LOG[1] /\ Power[i] = 1
    <2>1. PICK i \in 0 .. 254 : i = OCT_LOG[1]
      BY <1>3
    <2>2. i % 255 = i /\ i \in 0 .. 509
      OBVIOUS
    <2>3. OCT_EXP[i] = Power[i]
      BY <2>2, ExpIs, SMTT(30)
    <2>. QED
      BY <1>3, <2>1, <2>3
  <1>5. Power[0] = 1
    BY PowerIs
  <1>6. ASSUME i # 0
        PROVE  FALSE
    <2>. DEFINE R == [k \in 1 .. 254 |-> Power[k]]
                T == {Power[k] : k \in 1 .. 254}
    <2>1. R \in Surjection(1 .. 254, T)
      BY ZenonT(30) DEF Surjection
    <2>2. IsFiniteSet(1 .. 254) /\ Cardinality(1 .. 254) = 254
      <3>1. 1 \in Int /\ 254 \in Int
        OBVIOUS
      <3>2. /\ IsFiniteSet(1 .. 254)
            /\ Cardinality(1 .. 254) = IF 1 > 254 THEN 0 ELSE (254 - 1) + 1
        BY <3>1, FS_Interval, Zenon
      <3>3. (IF 1 > 254 THEN 0 ELSE (254 - 1) + 1) = 254
        OBVIOUS
      <3>. QED
        BY <3>2, <3>3
    <2>3. IsFiniteSet(T) /\ Cardinality(T) <= 254
      <3>. HIDE DEF T, R
      <3>. QED
        BY <2>1, <2>2, FS_Surjection
    <2>4. 1 .. 255 \subseteq T
      <3>1. ASSUME NEW o \in 1 .. 255
            PROVE  o \in T
        <4>1. PICK k : Goes(k, o)
          BY EveryOctetIsPower
        <4>2. k \in 0 .. 254 /\ Power[k] = o
          BY <4>1 DEF Goes
        <4>3. CASE k = 0
          <5>1. i \in 1 .. 254 /\ Power[i] = o
            BY <1>4, <1>5, <1>6, <4>2, <4>3
          <5>. QED
            BY <5>1
        <4>4. CASE k # 0
          <5>1. k \in 1 .. 254
            BY <4>2, <4>4
          <5>. QED
            BY <4>2, <5>1
        <4>. QED
          BY <4>3, <4>4
      <3>. QED
        BY <3>1, Zenon
    <2>5. Cardinality(1 .. 255) = 255
      <3>1. 1 \in Int /\ 255 \in Int
        OBVIOUS
      <3>2. Cardinality(1 .. 255) = IF 1 > 255 THEN 0 ELSE (255 - 1) + 1
        BY <3>1, FS_Interval, Zenon
      <3>3. (IF 1 > 255 THEN 0 ELSE (255 - 1) + 1) = 255
        OBVIOUS
      <3>. QED
        BY <3>2, <3>3
    <2>. HIDE DEF T
    <2>6. Cardinality(1 .. 255) <= Cardinality(T)
      BY <2>3, <2>4, FS_Subset
    <2>7. PICK n : n = Cardinality(T)
      OBVIOUS
    <2>8. n \in Nat
      BY <2>3, <2>7, FS_CardinalityType
    <2>. QED
      BY <2>3, <2>5, <2>6, <2>7, <2>8
  <1>. QED
    BY <1>4, <1>6

\* The inverse of the table is one.
LEMMA InverseInverts ==
    ASSUME NEW u \in Octet, u # 0
    PROVE  Mul(u, OCT_INV[u]) = 1
  <1>1. PICK i \in 0 .. 254 : i = OCT_LOG[u] /\ OCT_EXP[i] = u
    BY LogIs
  <1>2. PICK v \in Octet : v = OCT_INV[u]
    BY InverseIs
  <1>3. i \in Nat /\ Mul(u, v) = Shifted(v, i)
    BY <1>1, MulIsEntry, EntryTimes
  <1>4. CASE u < 2
    <2>1. u = 1
      BY <1>4 DEF Octet
    <2>2. v = 1
      BY <1>2, <2>1 DEF OCT_INV
    <2>3. i = 0
      BY <1>1, <2>1, LogOfOne
    <2>. QED
      BY <1>2, <1>3, <2>2, <2>3, ShiftedIs
  <1>5. CASE ~(u < 2)
    <2>1. v = OCT_EXP[255 - i]
      BY <1>1, <1>2, <1>5 DEF OCT_INV
    <2>2. PICK j \in 0 .. 254 : j = (255 - i) % 255
      OBVIOUS
    <2>5. 255 - i \in 0 .. 509
      OBVIOUS
    <2>6. (j + i) % 255 = 0
      <3>1. CASE i = 0
        <4>1. j = 0
          BY <2>2, <3>1
        <4>. QED
          BY <3>1, <4>1
      <3>2. CASE i # 0
        <4>1. j = 255 - i
          BY <2>2, <3>2
        <4>2. j + i = 255
          BY <4>1
        <4>. QED
          BY <4>2
      <3>. QED
        BY <3>1, <3>2
    <2>3. v = Power[j]
      BY <2>1, <2>2, <2>5, ExpIs, SMTT(30)
    <2>4. Shifted(Power[j], i) = Power[(j + i) % 255]
      BY <1>3, PowerShifted, ZenonT(30)
    <2>. QED
      BY <1>2, <1>3, <2>3, <2>4, <2>6, PowerIs
  <1>. QED
    BY <1>4, <1>5

LEMMA PowersCommute ==
    ASSUME NEW i \in 0 .. 254, NEW j \in 0 .. 254
    PROVE  Shifted(Power[i], j) = Shifted(Power[j], i)
  <1>1. i \in Nat /\ j \in Nat /\ (i + j) % 255 = (j + i) % 255
    OBVIOUS
  <1>2. Shifted(Power[i], j) = Power[(i + j) % 255]
    BY <1>1, PowerShifted, ZenonT(30)
  <1>3. Shifted(Power[j], i) = Power[(j + i) % 255]
    BY <1>1, PowerShifted, ZenonT(30)
  <1>. QED
    BY <1>1, <1>2, <1>3

\* One bit more of a factor: its place is a power, whose doubles are those of
\* the other factor.
LEMMA OneBit ==
    ASSUME NEW o \in Octet, o # 0, NEW k \in 0 .. 7,
           NEW w \in {1, 2, 4, 8, 16, 32, 64, 128}, Goes(k, w),
           NEW n \in Octet, n < w, NEW b \in Bit
    PROVE  (IF b = 1 THEN Xor[Shifted(n, OCT_LOG[o])][Shifted(o, k)]
            ELSE Shifted(n, OCT_LOG[o]))
           = Shifted(n + w * b, OCT_LOG[o])
  <1>1. PICK i \in 0 .. 254 : i = OCT_LOG[o] /\ OCT_EXP[i] = o
    BY LogIs, SMTT(30)
  <1>2. i % 255 = i /\ i \in 0 .. 509 /\ i \in Nat /\ k \in Nat /\ k \in 0 .. 254
    OBVIOUS
  <1>3. Power[i] = o
    BY <1>1, <1>2, ExpIs, SMTT(30)
  <1>4. Power[k] = w /\ w \in Octet
    BY DEF Goes
  <1>5. Shifted(o, k) = Shifted(w, i)
    <2>1. Shifted(Power[i], k) = Shifted(Power[k], i)
      BY <1>2, PowersCommute, Zenon
    <2>. QED
      BY <1>3, <1>4, <2>1
  <1>6. CASE b = 1
    <2>1. Xor[n][w] = n + w
      BY <1>4, BitAbove
    <2>2. Shifted(Xor[n][w], i) = Xor[Shifted(n, i)][Shifted(w, i)]
      BY <1>2, <1>4, ShiftedSum DEF SumKept
    <2>3. n + w * b = n + w
      BY <1>4, <1>6 DEF Octet
    <2>. QED
      BY <1>1, <1>5, <1>6, <2>1, <2>2, <2>3
  <1>7. CASE b # 1
    <2>1. b = 0
      BY <1>7 DEF Bit
    <2>2. n + w * b = n
      BY <1>4, <2>1 DEF Octet
    <2>. QED
      BY <1>1, <1>7, <2>2
  <1>. QED
    BY <1>6, <1>7

\* The bits of an octet, each by its place
LEMMA PlacesOfBits ==
    ASSUME NEW u, NEW b7, NEW b6, NEW b5, NEW b4, NEW b3, NEW b2, NEW b1, NEW b0,
           HasBits(u, b7, b6, b5, b4, b3, b2, b1, b0)
    PROVE  /\ (u \div 1) % 2 = b0 /\ (u \div 2) % 2 = b1 /\ (u \div 4) % 2 = b2
           /\ (u \div 8) % 2 = b3 /\ (u \div 16) % 2 = b4 /\ (u \div 32) % 2 = b5
           /\ (u \div 64) % 2 = b6 /\ (u \div 128) % 2 = b7
  <1>1. /\ b7 \in Bit /\ b6 \in Bit /\ b5 \in Bit /\ b4 \in Bit
        /\ b3 \in Bit /\ b2 \in Bit /\ b1 \in Bit /\ b0 \in Bit
        /\ u = 128 * b7 + 64 * b6 + 32 * b5 + 16 * b4 + 8 * b3 + 4 * b2 + 2 * b1 + b0
    BY DEF HasBits
  <1>2. \A n \in Nat, b \in Bit : (2 * n + b) % 2 = b /\ (2 * n + b) \div 2 = n
    BY DEF Bit
  <1>3. PICK n1 \in Nat : n1 = 64 * b7 + 32 * b6 + 16 * b5 + 8 * b4 + 4 * b3 + 2 * b2 + b1
    BY <1>1 DEF Bit
  <1>4. PICK n2 \in Nat : n2 = 32 * b7 + 16 * b6 + 8 * b5 + 4 * b4 + 2 * b3 + b2
    BY <1>1 DEF Bit
  <1>5. PICK n3 \in Nat : n3 = 16 * b7 + 8 * b6 + 4 * b5 + 2 * b4 + b3
    BY <1>1 DEF Bit
  <1>6. PICK n4 \in Nat : n4 = 8 * b7 + 4 * b6 + 2 * b5 + b4
    BY <1>1 DEF Bit
  <1>7. PICK n5 \in Nat : n5 = 4 * b7 + 2 * b6 + b5
    BY <1>1 DEF Bit
  <1>8. PICK n6 \in Nat : n6 = 2 * b7 + b6
    BY <1>1 DEF Bit
  <1>9. /\ u = 2 * n1 + b0 /\ n1 = 2 * n2 + b1 /\ n2 = 2 * n3 + b2 /\ n3 = 2 * n4 + b3
        /\ n4 = 2 * n5 + b4 /\ n5 = 2 * n6 + b5 /\ n6 = 2 * b7 + b6
    BY <1>1, <1>3, <1>4, <1>5, <1>6, <1>7, <1>8 DEF Bit
  <1>20. n2 % 2 = b2 /\ n3 % 2 = b3 /\ n4 % 2 = b4 /\ n5 % 2 = b5 /\ n6 % 2 = b6
    <2>1. n2 % 2 = b2
      BY <1>1, <1>2, <1>9
    <2>2. n3 % 2 = b3
      BY <1>1, <1>2, <1>9
    <2>3. n4 % 2 = b4
      BY <1>1, <1>2, <1>9
    <2>4. n5 % 2 = b5
      BY <1>1, <1>2, <1>9
    <2>5. n6 % 2 = b6
      BY <1>1, <1>9 DEF Bit
    <2>. QED
      BY <2>1, <2>2, <2>3, <2>4, <2>5
  <1>10. u \div 1 = u
    BY <1>1 DEF Bit
  <1>11. u \div 2 = n1 /\ u % 2 = b0 /\ n1 % 2 = b1
    BY <1>1, <1>2, <1>9
  <1>12. u \div 4 = n2 /\ n2 % 2 = b2
    <2>1. u = 4 * n2 + (2 * b1 + b0)
      BY <1>1, <1>9 DEF Bit
    <2>2. u \div 4 = n2
      BY <1>1, <2>1 DEF Bit
    <2>. QED
      BY <1>1, <1>9, <1>20, <2>2
  <1>13. u \div 8 = n3 /\ n3 % 2 = b3
    <2>1. u = 8 * n3 + (4 * b2 + 2 * b1 + b0)
      BY <1>1, <1>9 DEF Bit
    <2>2. u \div 8 = n3
      BY <1>1, <2>1 DEF Bit
    <2>. QED
      BY <1>1, <1>9, <1>20, <2>2
  <1>14. u \div 16 = n4 /\ n4 % 2 = b4
    <2>1. u = 16 * n4 + (8 * b3 + 4 * b2 + 2 * b1 + b0)
      BY <1>1, <1>9 DEF Bit
    <2>2. u \div 16 = n4
      BY <1>1, <2>1 DEF Bit
    <2>. QED
      BY <1>1, <1>9, <1>20, <2>2
  <1>15. u \div 32 = n5 /\ n5 % 2 = b5
    <2>1. u = 32 * n5 + (16 * b4 + 8 * b3 + 4 * b2 + 2 * b1 + b0)
      BY <1>1, <1>9 DEF Bit
    <2>2. u \div 32 = n5
      BY <1>1, <2>1 DEF Bit
    <2>3. n5 % 2 = b5
      BY <1>1, <1>2, <1>9
    <2>. QED
      BY <2>2, <2>3
  <1>16. u \div 64 = n6 /\ n6 % 2 = b6
    <2>1. u = 64 * n6 + (32 * b5 + 16 * b4 + 8 * b3 + 4 * b2 + 2 * b1 + b0)
      BY <1>1, <1>9 DEF Bit
    <2>2. u \div 64 = n6
      BY <1>1, <2>1 DEF Bit
    <2>. QED
      BY <1>1, <1>9, <1>20, <2>2
  <1>17. u \div 128 = b7 /\ b7 % 2 = b7
    <2>1. u = 128 * b7 + (64 * b6 + 32 * b5 + 16 * b4 + 8 * b3 + 4 * b2 + 2 * b1 + b0)
      BY <1>1, <1>9 DEF Bit
    <2>2. u \div 128 = b7
      BY <1>1, <2>1 DEF Bit
    <2>3. b7 % 2 = b7
      BY <1>1 DEF Bit
    <2>. QED
      BY <2>2, <2>3
  <1>. QED
    BY <1>10, <1>11, <1>12, <1>13, <1>14, <1>15, <1>16, <1>17

LEMMA SumExists ==
    ASSUME NEW u \in Octet, NEW o \in Octet
    PROVE  \E f : IsSum(f, u, o)
  <1>. DEFINE F == [z \in Octet \X Nat |->
                       IF z[2] # 0 /\ (u \div PlaceValue[z[2]]) % 2 = 1
                       THEN Xor[z[1]][Shifted(o, z[2] - 1)] ELSE z[1]]
  <1>1. F \in [Octet \X Nat -> Octet]
    <2>1. ASSUME NEW z \in Octet \X Nat, z[2] # 0
          PROVE  Xor[z[1]][Shifted(o, z[2] - 1)] \in Octet
      <3>1. z[1] \in Octet /\ z[2] - 1 \in Nat
        BY <2>1
      <3>2. Shifted(o, z[2] - 1) \in Octet
        BY <3>1, ShiftedIs
      <3>. QED
        BY <3>1, <3>2, XorIs
    <2>. QED
      BY <2>1
  <1>2. 0 \in Octet /\ 8 \in Nat
    BY DEF Octet
  <1>3. PICK g \in [0 .. 8 -> Octet] : Follows(g, F, 0, 8)
    <2>. HIDE DEF F
    <2>. QED
      BY <1>1, <1>2, Recursion
  <1>4. g[0] = 0 /\ \A i \in 1 .. 8 : g[i] = F[<<g[i - 1], i>>]
    BY <1>3, Zenon DEF Follows
  <1>5. ASSUME NEW k \in 0 .. 8
        PROVE  g[k] = IF k = 0 THEN 0
                      ELSE IF (u \div PlaceValue[k]) % 2 = 1
                           THEN Xor[g[k - 1]][Shifted(o, k - 1)] ELSE g[k - 1]
    <2>1. CASE k = 0
      BY <1>4, <2>1
    <2>2. CASE k # 0
      <3>1. k \in 1 .. 8 /\ k - 1 \in 0 .. 8 /\ k \in Nat
        BY <2>2
      <3>2. PICK x : x = g[k - 1]
        OBVIOUS
      <3>3. x \in Octet
        BY <1>3, <3>1, <3>2
      <3>4. <<x, k>> \in Octet \X Nat
        BY <3>1, <3>3
      <3>5. F[<<x, k>>] = IF <<x, k>>[2] # 0 /\ (u \div PlaceValue[<<x, k>>[2]]) % 2 = 1
                          THEN Xor[<<x, k>>[1]][Shifted(o, <<x, k>>[2] - 1)] ELSE <<x, k>>[1]
        BY <3>4
      <3>6. <<x, k>>[1] = x /\ <<x, k>>[2] = k
        OBVIOUS
      <3>7. g[k] = F[<<x, k>>]
        BY <1>4, <3>1, <3>2, Zenon
      <3>8. F[<<x, k>>] = IF k # 0 /\ (u \div PlaceValue[k]) % 2 = 1
                          THEN Xor[x][Shifted(o, k - 1)] ELSE x
        <4>. HIDE DEF F
        <4>. QED
          BY <3>5, <3>6, Zenon
      <3>. HIDE DEF F
      <3>. QED
        BY <2>2, <3>2, <3>7, <3>8
    <2>. QED
      BY <2>1, <2>2
  <1>6. g = [k \in 0 .. 8 |-> g[k]]
    BY <1>3
  <1>. HIDE DEF F
  <1>7. IsSum(g, u, o)
    BY <1>5, <1>6 DEF IsSum
  <1>. QED
    BY <1>7

\* The product of the field doubles one factor as often as the other tells.
LEMMA ProductTimes ==
    ASSUME NEW u \in Octet, NEW o \in Octet, o # 0
    PROVE  Product(u, o) = Shifted(u, OCT_LOG[o])
  <1>1. PICK f : f = CHOOSE g : IsSum(g, u, o)
    OBVIOUS
  <1>2. IsSum(f, u, o)
    BY <1>1, SumExists
  <1>3. Product(u, o) = f[8]
    BY <1>1 DEF Product, IsSum
  <1>4. \A k \in 0 .. 8 :
            f[k] = IF k = 0 THEN 0
                   ELSE IF (u \div PlaceValue[k]) % 2 = 1
                        THEN Xor[f[k - 1]][Shifted(o, k - 1)] ELSE f[k - 1]
    BY <1>2 DEF IsSum
  <1>5. PICK b7, b6, b5, b4, b3, b2, b1, b0 : HasBits(u, b7, b6, b5, b4, b3, b2, b1, b0)
    BY OctetBits
  <1>6. /\ b7 \in Bit /\ b6 \in Bit /\ b5 \in Bit /\ b4 \in Bit
        /\ b3 \in Bit /\ b2 \in Bit /\ b1 \in Bit /\ b0 \in Bit
        /\ u = 128 * b7 + 64 * b6 + 32 * b5 + 16 * b4 + 8 * b3 + 4 * b2 + 2 * b1 + b0
    BY <1>5 DEF HasBits
  <1>7. /\ (u \div 1) % 2 = b0 /\ (u \div 2) % 2 = b1 /\ (u \div 4) % 2 = b2
        /\ (u \div 8) % 2 = b3 /\ (u \div 16) % 2 = b4 /\ (u \div 32) % 2 = b5
        /\ (u \div 64) % 2 = b6 /\ (u \div 128) % 2 = b7
    BY <1>5, PlacesOfBits
  <1>. DEFINE Lifted(n) == Shifted(n, OCT_LOG[o])
  <1>8. f[0] = Lifted(0)
    <2>1. OCT_LOG[o] \in Nat /\ 0 \in Octet
      <3>1. OCT_LOG[o] \in 0 .. 255
        BY LogIs
      <3>. QED
        BY <3>1 DEF Octet
    <2>2. Shifted(0, OCT_LOG[o]) = 0
      BY <2>1, ShiftedSum
    <2>3. f[0] = 0
      BY <1>4
    <2>. QED
      BY <2>2, <2>3
  <1>9. ASSUME NEW k \in 1 .. 8, NEW w, w = PlaceValue[k], NEW n \in Nat, n < w,
               NEW b \in Bit, (u \div w) % 2 = b, f[k - 1] = Lifted(n)
        PROVE  f[k] = Lifted(n + w * b)
    <2>1. w \in {1, 2, 4, 8, 16, 32, 64, 128} /\ k - 1 \in 0 .. 7 /\ k \in 0 .. 8 /\ k # 0
      BY <1>9 DEF PlaceValue
    <2>2. Goes(k - 1, w)
      <3>1. k \in {1, 2, 3, 4, 5, 6, 7, 8}
        OBVIOUS
      <3>. QED
        BY <1>9, <3>1, EveryOctetIsPower DEF PlaceValue
    <2>3. n \in Octet
      BY <1>9, <2>1 DEF Octet
    <2>4. f[k] = IF b = 1 THEN Xor[f[k - 1]][Shifted(o, k - 1)] ELSE f[k - 1]
      BY <1>4, <1>9, <2>1
    <2>5. PICK j \in 0 .. 7 : j = k - 1
      BY <2>1
    <2>6. Goes(j, w) /\ n < w /\ w \in {1, 2, 4, 8, 16, 32, 64, 128}
      BY <1>9, <2>1, <2>2, <2>5
    <2>7. (IF b = 1 THEN Xor[Shifted(n, OCT_LOG[o])][Shifted(o, j)] ELSE Shifted(n, OCT_LOG[o]))
          = Shifted(n + w * b, OCT_LOG[o])
      BY <2>3, <2>6, OneBit, SMTT(30)
    <2>. QED
      BY <1>9, <2>4, <2>5, <2>7
  <1>10. f[1] = Lifted(b0)
    <2>1. f[0] = Lifted(0) /\ 0 \in Nat /\ 0 < 1 /\ PlaceValue[1] = 1
      BY <1>6, <1>8 DEF Bit, PlaceValue
    <2>2. 0 + 1 * b0 = b0
      BY <1>6 DEF Bit
    <2>. QED
      BY <1>6, <1>7, <1>9, <2>1, <2>2
  <1>11. f[2] = Lifted(b0 + 2 * b1)
    <2>1. f[1] = Lifted(b0) /\ b0 \in Nat /\ b0 < 2 /\ PlaceValue[2] = 2
      BY <1>6, <1>10 DEF Bit, PlaceValue
    <2>. QED
      BY <1>6, <1>7, <1>9, <2>1 DEF Bit
  <1>12. f[3] = Lifted(b0 + 2 * b1 + 4 * b2)
    <2>1. f[2] = Lifted(b0 + 2 * b1) /\ b0 + 2 * b1 \in Nat /\ b0 + 2 * b1 < 4 /\ PlaceValue[3] = 4
      BY <1>6, <1>11 DEF Bit, PlaceValue
    <2>. QED
      BY <1>6, <1>7, <1>9, <2>1 DEF Bit
  <1>13. f[4] = Lifted(b0 + 2 * b1 + 4 * b2 + 8 * b3)
    <2>1. /\ f[3] = Lifted(b0 + 2 * b1 + 4 * b2) /\ b0 + 2 * b1 + 4 * b2 \in Nat
          /\ b0 + 2 * b1 + 4 * b2 < 8 /\ PlaceValue[4] = 8
      BY <1>6, <1>12 DEF Bit, PlaceValue
    <2>. QED
      BY <1>6, <1>7, <1>9, <2>1 DEF Bit
  <1>14. f[5] = Lifted(b0 + 2 * b1 + 4 * b2 + 8 * b3 + 16 * b4)
    <2>1. /\ f[4] = Lifted(b0 + 2 * b1 + 4 * b2 + 8 * b3) /\ b0 + 2 * b1 + 4 * b2 + 8 * b3 \in Nat
          /\ b0 + 2 * b1 + 4 * b2 + 8 * b3 < 16 /\ PlaceValue[5] = 16
      BY <1>6, <1>13 DEF Bit, PlaceValue
    <2>. QED
      BY <1>6, <1>7, <1>9, <2>1 DEF Bit
  <1>15. f[6] = Lifted(b0 + 2 * b1 + 4 * b2 + 8 * b3 + 16 * b4 + 32 * b5)
    <2>1. /\ f[5] = Lifted(b0 + 2 * b1 + 4 * b2 + 8 * b3 + 16 * b4) /\ b0 + 2 * b1 + 4 * b2 + 8 * b3 + 16 * b4 \in Nat
          /\ b0 + 2 * b1 + 4 * b2 + 8 * b3 + 16 * b4 < 32 /\ PlaceValue[6] = 32
      BY <1>6, <1>14 DEF Bit, PlaceValue
    <2>. QED
      BY <1>6, <1>7, <1>9, <2>1 DEF Bit
  <1>16. f[7] = Lifted(b0 + 2 * b1 + 4 * b2 + 8 * b3 + 16 * b4 + 32 * b5 + 64 * b6)
    <2>1. /\ f[6] = Lifted(b0 + 2 * b1 + 4 * b2 + 8 * b3 + 16 * b4 + 32 * b5) /\ b0 + 2 * b1 + 4 * b2 + 8 * b3 + 16 * b4 + 32 * b5 \in Nat
          /\ b0 + 2 * b1 + 4 * b2 + 8 * b3 + 16 * b4 + 32 * b5 < 64 /\ PlaceValue[7] = 64
      BY <1>6, <1>15 DEF Bit, PlaceValue
    <2>. QED
      BY <1>6, <1>7, <1>9, <2>1 DEF Bit
  <1>17. f[8] = Lifted(b0 + 2 * b1 + 4 * b2 + 8 * b3 + 16 * b4 + 32 * b5 + 64 * b6 + 128 * b7)
    <2>1. /\ f[7] = Lifted(b0 + 2 * b1 + 4 * b2 + 8 * b3 + 16 * b4 + 32 * b5 + 64 * b6) /\ b0 + 2 * b1 + 4 * b2 + 8 * b3 + 16 * b4 + 32 * b5 + 64 * b6 \in Nat
          /\ b0 + 2 * b1 + 4 * b2 + 8 * b3 + 16 * b4 + 32 * b5 + 64 * b6 < 128 /\ PlaceValue[8] = 128
      BY <1>6, <1>16 DEF Bit, PlaceValue
    <2>. QED
      BY <1>6, <1>7, <1>9, <2>1 DEF Bit
  <1>18. u = b0 + 2 * b1 + 4 * b2 + 8 * b3 + 16 * b4 + 32 * b5 + 64 * b6 + 128 * b7
    BY <1>6 DEF Bit
  <1>. QED
    BY <1>3, <1>17, <1>18

LEMMA ProductOfZero ==
    ASSUME NEW u \in Octet
    PROVE  Product(u, 0) = 0
  <1>0. 0 \in Octet
    BY DEF Octet
  <1>1. PICK f : f = CHOOSE g : IsSum(g, u, 0)
    OBVIOUS
  <1>2. IsSum(f, u, 0)
    BY <1>0, <1>1, SumExists
  <1>3. Product(u, 0) = f[8]
    BY <1>1 DEF Product, IsSum
  <1>4. \A k \in 0 .. 8 :
            f[k] = IF k = 0 THEN 0
                   ELSE IF (u \div PlaceValue[k]) % 2 = 1
                        THEN Xor[f[k - 1]][Shifted(0, k - 1)] ELSE f[k - 1]
    BY <1>2 DEF IsSum
  <1>5. Xor[0][0] = 0 /\ \A n \in Nat : Shifted(0, n) = 0
    BY <1>0, XorLaws, ShiftedSum
  <1>6. f[0] = 0
    BY <1>4
  <1>7. ASSUME NEW k \in 0 .. 7, f[k] = 0
        PROVE  f[k + 1] = 0
    <2>1. k + 1 \in 0 .. 8 /\ k + 1 # 0 /\ (k + 1) - 1 = k /\ k \in Nat
      OBVIOUS
    <2>2. f[k + 1] = IF (u \div PlaceValue[k + 1]) % 2 = 1
                     THEN Xor[f[k]][Shifted(0, k)] ELSE f[k]
      BY <1>4, <2>1
    <2>3. Shifted(0, k) = 0
      BY <1>5, <2>1
    <2>. QED
      BY <1>5, <1>7, <2>2, <2>3
  <1>8. f[1] = 0 /\ f[2] = 0 /\ f[3] = 0 /\ f[4] = 0
    BY <1>6, <1>7
  <1>9. f[5] = 0 /\ f[6] = 0 /\ f[7] = 0 /\ f[8] = 0
    BY <1>7, <1>8
  <1>. QED
    BY <1>3, <1>9

-----------------------------------------------------------------------------
\* What is written at the receiver.

LEMMA EncoderLayout ==
    /\ ObjectBlocks \in Nat \ {0} /\ ObjectSymbols \in Nat
    /\ IsLayout(Encoder, 1, ObjectSymbols, ObjectBlocks, SymbolSize, 1)
    /\ HasBlocks(Encoder, ObjectBlocks, SymbolSize)
    /\ Encoder.F = Cardinality(DOMAIN File) /\ Encoder.T = SymbolSize
    /\ CoversObject(Encoder)
  <1>1. PICK F : F = Cardinality(DOMAIN File)
    OBVIOUS
  <1>2. PICK T : T = SymbolSize
    OBVIOUS
  <1>3. IsCase(F, T)
    BY <1>1, <1>2, ObjectAssumption, SMT DEF IsCase
  <1>4. F \in Nat \ {0} /\ T \in Nat \ {0} /\ T % 1 = 0 /\ 1 <= T \div 1 /\ T \div 1 = T
    BY <1>3, SMT DEF IsCase
  <1>5. PICK Z \in Nat \ {0} : Z = SchemeZ(DivCeil(F, T))
    <2>1. SchemeZ(DivCeil(F, T)) \in 1 .. 256
      BY <1>3, CaseScheme
    <2>. QED
      BY <2>1
  <1>6. PICK rq : rq = Nanorq(F, T, 1, Z, 1) /\ rq = Encoder
    BY <1>1, <1>2, <1>5 DEF Encoder, EncoderNew
  <1>7. IsLayout(rq, 1, DivCeil(F, T), Z, T, 1)
    BY <1>4, <1>6, NanorqLayout
  <1>8. DivCeil(F, T) \in Nat
    BY <1>4, Covers
  <1>9. rq.F = F /\ rq.T = T /\ rq.Z = Z
    BY <1>6 DEF Nanorq
  <1>10. HasBlocks(rq, Z, T)
    BY <1>4, <1>7, <1>8, LayoutBlocks
  <1>11. CoversObject(rq)
    BY <1>1, <1>2, <1>3, <1>6, CaseCovered DEF Encoder
  <1>. QED
    BY <1>1, <1>2, <1>5, <1>6, <1>7, <1>8, <1>9, <1>10, <1>11 DEF ObjectBlocks, ObjectSymbols

\* The octets of a symbol, each at one place; two symbols share none.
LEMMA PlacesAre ==
    ASSUME Followed, NEW e \in Upto(K)
    PROVE  /\ \A x \in Transfer(Encoder, sbn, e) :
                 x.octet \in 0 .. SymbolSize - 1 /\ x.at \in DOMAIN File
           /\ \A x, y \in Transfer(Encoder, sbn, e) : x.at = y.at <=> x.octet = y.octet
           /\ \A f \in Upto(K) : \A at : at \in PlacesOf(e) /\ at \in PlacesOf(f) => e = f
  <1>1. \A f \in Upto(K) : <<sbn, f>> \in Symbols(Encoder)
    BY DEF Followed, Upto, K, Symbols
  <1>2. DOMAIN File = 0 .. Encoder.F - 1
    BY EncoderLayout, ObjectAssumption DEF Upto
  <1>3. PICK s : s = <<sbn, e>>
    OBVIOUS
  <1>4. s[1] = sbn /\ s[2] = e /\ s \in Symbols(Encoder)
    BY <1>1, <1>3
  <1>5. \A x, y \in Transfer(Encoder, s[1], s[2]) :
               /\ x.octet \in 0 .. Encoder.T - 1 /\ x.at \in 0 .. Encoder.F - 1
               /\ x.at = y.at <=> x.octet = y.octet
    BY <1>4, EncoderLayout, Zenon DEF CoversObject
  <1>6. \A x, y \in Transfer(Encoder, sbn, e) :
               /\ x.octet \in 0 .. SymbolSize - 1 /\ x.at \in DOMAIN File
               /\ x.at = y.at <=> x.octet = y.octet
    BY <1>2, <1>4, <1>5, EncoderLayout, ZenonT(30)
  <1>7. ASSUME NEW f \in Upto(K), NEW at, at \in PlacesOf(e), at \in PlacesOf(f)
        PROVE  e = f
    <2>. DEFINE Holds(z) == \E x \in Transfer(Encoder, z[1], z[2]) : x.at = at
    <2>1. at \in 0 .. Encoder.F - 1
      BY <1>2, <1>6, <1>7 DEF PlacesOf
    <2>2. PICK z : {w \in Symbols(Encoder) : Holds(w)} = {z}
      BY <2>1, EncoderLayout, Zenon DEF CoversObject
    <2>3. PICK w : w = <<sbn, f>>
      OBVIOUS
    <2>4. w[1] = sbn /\ w[2] = f /\ w \in Symbols(Encoder)
      BY <1>1, <2>3
    <2>5. Holds(s) /\ Holds(w)
      BY <1>4, <1>7, <2>4, Zenon DEF PlacesOf
    <2>. HIDE DEF Holds
    <2>6. s \in {z} /\ w \in {z}
      BY <1>4, <2>2, <2>4, <2>5, Zenon
    <2>. QED
      BY <1>3, <2>3, <2>6
  <1>. QED
    BY <1>6, <1>7, Zenon

LEMMA WriteSymbolIs ==
    ASSUME Followed, NEW e \in Upto(K), NEW file \in Files, NEW symbol \in Symbol
    PROVE  IsWritten(file, WriteSymbol(file, Encoder, e, symbol), e, symbol)
  <1>1. PICK moved : moved = Transfer(Encoder, sbn, e)
    OBVIOUS
  <1>2. \A x, y \in moved : /\ x.octet \in 0 .. SymbolSize - 1 /\ x.at \in DOMAIN File
                            /\ x.at = y.at <=> x.octet = y.octet
    BY <1>1, PlacesAre
  <1>. DEFINE Place == {x.at : x \in moved}
              piece == [at \in Place |-> symbol[1 + (CHOOSE x \in moved : x.at = at).octet]]
              next == WriteSymbol(file, Encoder, e, symbol)
  <1>3. Place = PlacesOf(e)
    BY <1>1 DEF PlacesOf
  <1>4. next = [at \in Place \union DOMAIN file |-> IF at \in Place THEN piece[at] ELSE file[at]]
    <2>1. next = [at \in Place \union DOMAIN file |->
                    IF at \in Place THEN symbol[1 + (CHOOSE x \in moved : x.at = at).octet]
                    ELSE file[at]]
      BY <1>1 DEF WriteSymbol
    <2>2. \A at \in Place : piece[at] = symbol[1 + (CHOOSE x \in moved : x.at = at).octet]
      OBVIOUS
    <2>. HIDE DEF piece, next, Place
    <2>. QED
      BY <2>1, <2>2
  <1>5. ASSUME NEW x \in moved
        PROVE  piece[x.at] = symbol[1 + x.octet]
    <2>1. PICK y : y = CHOOSE z \in moved : z.at = x.at
      OBVIOUS
    <2>2. y \in moved /\ y.at = x.at
      BY <2>1
    <2>3. y.octet = x.octet
      BY <1>2, <2>2
    <2>4. x.at \in Place
      OBVIOUS
    <2>. QED
      BY <2>1, <2>3, <2>4
  <1>6. \A x \in moved : symbol[1 + x.octet] \in Octet
    <2>1. ASSUME NEW x \in moved
          PROVE  1 + x.octet \in 1 .. SymbolSize
      <3>1. PICK n \in 0 .. SymbolSize - 1 : n = x.octet
        BY <1>2
      <3>2. SymbolSize \in Nat
        BY ObjectIs
      <3>. QED
        BY <3>1, <3>2
    <2>. QED
      BY <2>1 DEF Symbol
  <1>. HIDE DEF piece
  <1>7. \A at \in Place : piece[at] \in Octet /\ at \in DOMAIN File
    BY <1>2, <1>5, <1>6
  <1>8. PICK places \in SUBSET (DOMAIN File) : file \in [places -> Octet]
    BY Zenon DEF Files
  <1>. HIDE DEF Place, next
  <1>9. next \in [Place \union places -> Octet]
    <2>1. DOMAIN file = places
      BY <1>8
    <2>2. \A at \in Place \union places :
              (IF at \in Place THEN piece[at] ELSE file[at]) \in Octet
      BY <1>7, <1>8
    <2>. QED
      BY <1>4, <2>1, <2>2
  <1>10. Place \union places \in SUBSET (DOMAIN File)
    BY <1>7, <1>8
  <1>11. next \in Files
    BY <1>9, <1>10, Zenon DEF Files
  <1>12. DOMAIN next = DOMAIN file \union PlacesOf(e)
    BY <1>3, <1>4
  <1>13. \A x \in moved : next[x.at] = symbol[1 + x.octet]
    <2>1. \A x \in moved : x.at \in Place
      BY DEF Place
    <2>. QED
      BY <1>4, <1>5, <2>1
  <1>14. \A at \in DOMAIN file : at \notin PlacesOf(e) => next[at] = file[at]
    BY <1>3, <1>4
  <1>. QED
    BY <1>1, <1>11, <1>12, <1>13, <1>14 DEF IsWritten, next

LEMMA PlacesOfAllAre ==
    ASSUME NEW symbols, NEW at
    PROVE  at \in PlacesOfAll(symbols) <=> \E e \in symbols : at \in PlacesOf(e)
  BY Zenon DEF PlacesOfAll

LEMMA WritingExists ==
    ASSUME Followed, out \in Files, \A e \in Upto(K) : DecodeRow(P, D, e) \in Symbol
    PROVE  \E f : IsWriting(f) /\ f \in [0 .. K -> Files]
  <1>. DEFINE F == [z \in Files \X Nat |->
                       IF z[2] - 1 \in Gaps
                       THEN WriteSymbol(z[1], Encoder, z[2] - 1, DecodeRow(P, D, z[2] - 1))
                       ELSE z[1]]
  <1>1. F \in [Files \X Nat -> Files]
    <2>1. ASSUME NEW file \in Files, NEW e \in Gaps
          PROVE  WriteSymbol(file, Encoder, e, DecodeRow(P, D, e)) \in Files
      <3>1. e \in Upto(K)
        BY DEF Gaps
      <3>. QED
        BY <3>1, WriteSymbolIs DEF IsWritten
    <2>2. ASSUME NEW z \in Files \X Nat
          PROVE  (IF z[2] - 1 \in Gaps
                  THEN WriteSymbol(z[1], Encoder, z[2] - 1, DecodeRow(P, D, z[2] - 1))
                  ELSE z[1]) \in Files
      <3>1. z[1] \in Files
        OBVIOUS
      <3>2. PICK e : e = z[2] - 1
        OBVIOUS
      <3>. QED
        BY <2>1, <3>1, <3>2
    <2>. QED
      BY <2>2
  <1>2. PICK k \in Nat : k = K
    BY BlockIs
  <1>3. PICK g \in [0 .. k -> Files] : Follows(g, F, out, k)
    <2>. HIDE DEF F
    <2>. QED
      BY <1>1, Recursion
  <1>4. g[0] = out /\ \A i \in 1 .. k : g[i] = F[<<g[i - 1], i>>]
    BY <1>3 DEF Follows
  <1>5. ASSUME NEW i \in 0 .. k
        PROVE  g[i] = IF i = 0 THEN out
                      ELSE IF i - 1 \in Gaps
                      THEN WriteSymbol(g[i - 1], Encoder, i - 1, DecodeRow(P, D, i - 1))
                      ELSE g[i - 1]
    <2>1. CASE i = 0
      BY <1>4, <2>1
    <2>2. CASE i # 0
      <3>1. i \in 1 .. k /\ i - 1 \in 0 .. k /\ i \in Nat
        BY <2>2
      <3>2. PICK x \in Files : x = g[i - 1]
        BY <1>3, <3>1
      <3>3. <<x, i>> \in Files \X Nat
        BY <3>1
      <3>4. F[<<x, i>>] = IF <<x, i>>[2] - 1 \in Gaps
                          THEN WriteSymbol(<<x, i>>[1], Encoder, <<x, i>>[2] - 1,
                                           DecodeRow(P, D, <<x, i>>[2] - 1))
                          ELSE <<x, i>>[1]
        BY <3>3
      <3>5. <<x, i>>[1] = x /\ <<x, i>>[2] = i
        OBVIOUS
      <3>. HIDE DEF F
      <3>6. F[<<x, i>>] = IF i - 1 \in Gaps
                          THEN WriteSymbol(x, Encoder, i - 1, DecodeRow(P, D, i - 1)) ELSE x
        BY <3>4, <3>5, Zenon
      <3>7. g[i] = F[<<x, i>>]
        BY <1>4, <3>1, <3>2
      <3>. QED
        BY <2>2, <3>2, <3>6, <3>7
    <2>. QED
      BY <2>1, <2>2
  <1>6. g = [i \in 0 .. k |-> g[i]]
    BY <1>3
  <1>. HIDE DEF F
  <1>7. g = [i \in 0 .. k |->
                IF i = 0 THEN out
                ELSE IF i - 1 \in Gaps
                THEN WriteSymbol(g[i - 1], Encoder, i - 1, DecodeRow(P, D, i - 1))
                ELSE g[i - 1]]
    BY <1>5, <1>6
  <1>. QED
    BY <1>2, <1>3, <1>7 DEF IsWriting

\* decode_repair_rows and write_repair_rows fill the gaps and nothing else.
LEMMA RepairedFills ==
    ASSUME Followed, Written, NEW f, IsWriting(f),
           \A e \in Upto(K) : DecodeRow(P, D, e) \in Symbol
    PROVE  IsFilledTo(f[K], K)
  <1>1. PICK n \in Nat : n = K
    BY BlockIs
  <1>2. \A g \in 0 .. n : f[g] = IF g = 0 THEN out
                                 ELSE IF g - 1 \in Gaps
                                 THEN WriteSymbol(f[g - 1], Encoder, g - 1, DecodeRow(P, D, g - 1))
                                 ELSE f[g - 1]
    BY <1>1 DEF IsWriting
  <1>3. \A g \in Gaps : g \in Upto(K) /\ g \notin mask
    BY DEF Gaps
  <1>. DEFINE Q == {k \in Nat : k <= n => IsFilledTo(f[k], k)}
  <1>4. 0 \in Q
    <2>1. f[0] = out
      BY <1>2
    <2>2. {g \in Gaps : g < 0} = {} /\ PlacesOfAll({}) = {}
      BY <1>3, PlacesOfAllAre DEF Upto
    <2>3. IsFilledTo(out, 0)
      BY <2>2 DEF IsFilledTo, Written
    <2>. QED
      BY <2>1, <2>3
  <1>5. ASSUME NEW k \in Q
        PROVE  k + 1 \in Q
    <2>1. SUFFICES ASSUME k + 1 <= n
                   PROVE  IsFilledTo(f[k + 1], k + 1)
      OBVIOUS
    <2>2. k \in Nat /\ k + 1 \in 0 .. n /\ k + 1 # 0 /\ (k + 1) - 1 = k /\ k \in 0 .. n - 1
      BY <2>1
    <2>3. PICK file : file = f[k]
      OBVIOUS
    <2>4. IsFilledTo(file, k)
      BY <2>2, <2>3
    <2>5. PICK next : next = f[k + 1]
      OBVIOUS
    <2>6. next = IF k \in Gaps THEN WriteSymbol(file, Encoder, k, DecodeRow(P, D, k)) ELSE file
      BY <1>2, <2>2, <2>3, <2>5
    <2>7. CASE k \in Gaps
      <3>1. k \in Upto(K) /\ k \notin mask
        BY <1>3, <2>7
      <3>2. IsWritten(file, next, k, DecodeRow(P, D, k))
        BY <2>4, <2>6, <2>7, <3>1, WriteSymbolIs DEF IsFilledTo
      <3>3. {g \in Gaps : g < k + 1} = {g \in Gaps : g < k} \union {k}
        <4>1. \A g \in Gaps : g < k + 1 <=> g < k \/ g = k
          BY <1>3, <2>2 DEF Upto
        <4>. QED
          BY <2>7, <4>1
      <3>4. PlacesOfAll({g \in Gaps : g < k + 1})
            = PlacesOfAll({g \in Gaps : g < k}) \union PlacesOf(k)
        <4>1. PICK B : B = {g \in Gaps : g < k}
          OBVIOUS
        <4>2. \A at : at \in PlacesOfAll(B \union {k}) <=> at \in PlacesOfAll(B) \/ at \in PlacesOf(k)
          BY PlacesOfAllAre
        <4>. QED
          BY <3>3, <4>1, <4>2
      <3>5. \A at \in DOMAIN out : at \notin PlacesOf(k)
        <4>1. ASSUME NEW at \in DOMAIN out, at \in PlacesOf(k)
              PROVE  FALSE
          <5>1. PICK e \in mask \intersect Upto(K) : at \in PlacesOf(e)
            BY <4>1, PlacesOfAllAre DEF Written
          <5>2. e = k
            BY <3>1, <4>1, <5>1, PlacesAre
          <5>. QED
            BY <3>1, <5>1, <5>2
        <4>. QED
          BY <4>1
      <3>6. \A at \in DOMAIN out : at \in DOMAIN file /\ next[at] = out[at]
        BY <2>4, <3>2, <3>5 DEF IsFilledTo, IsWritten
      <3>7. DOMAIN next = DOMAIN out \union PlacesOfAll({g \in Gaps : g < k + 1})
        BY <2>4, <3>2, <3>4 DEF IsFilledTo, IsWritten
      <3>. QED
        BY <2>5, <3>2, <3>6, <3>7 DEF IsFilledTo, IsWritten
    <2>8. CASE k \notin Gaps
      <3>1. {g \in Gaps : g < k + 1} = {g \in Gaps : g < k}
        <4>1. \A g \in Gaps : g < k + 1 <=> g < k
          BY <1>3, <2>2, <2>8 DEF Upto
        <4>. QED
          BY <4>1
      <3>. QED
        BY <2>4, <2>5, <2>6, <2>8, <3>1 DEF IsFilledTo
    <2>. QED
      BY <2>7, <2>8
  <1>6. Q = Nat
    <2>1. Q \subseteq Nat
      OBVIOUS
    <2>. HIDE DEF Q
    <2>. QED
      BY <1>4, <1>5, <2>1, SetInduction
  <1>. QED
    BY <1>1, <1>6

\* A step of an inversion begins and ends before the block is decoded; only
\* the permutation ends it.
LEMMA InvertPhases ==
    ASSUME Invert
    PROVE  pc # "decoded" /\ pc' # "decoded" /\ (pc' = "inverted" => Permute)
  <1>1. CASE \E b \in 1 .. 2 : PrecondStep(b)
    BY <1>1 DEF PrecondStep
  <1>2. CASE PrecondEnd
    BY <1>2 DEF PrecondEnd
  <1>3. CASE Forward \/ Below
    BY <1>3 DEF Forward, Below, FwdStep
  <1>4. CASE ForwardEnd \/ BelowEnd
    BY <1>4 DEF ForwardEnd, BelowEnd
  <1>5. CASE Gf2Step \/ Gf2Fails
    <2>1. pc = "gf2" /\ (pc' = pc \/ pc' = "hdpc")
      BY <1>5, Zenon DEF Gf2Step, Gf2Fails
    <2>. QED
      BY <2>1
  <1>6. CASE HdpcBegin \/ HdpcStep \/ HdpcEnd
    BY <1>6, Zenon DEF HdpcBegin, HdpcStep, HdpcEnd
  <1>7. CASE Gf256Step
    <2>1. pc = "gf256" /\ (pc' = pc \/ pc' = "aborted")
      BY <1>7 DEF Gf256Step
    <2>. QED
      BY <2>1
  <1>8. CASE Gf256Fails \/ Triangular
    BY <1>8 DEF Gf256Fails, Triangular
  <1>9. CASE Backsolve \/ BacksolveEnd
    BY <1>9 DEF Backsolve, BacksolveEnd
  <1>10. CASE ApplySched
    <2>1. \A advance : Apply(advance) => pc' = pc \/ pc' = "overrun"
      BY DEF Apply
    <2>2. \A next, first : EndLoop(next, first) => pc' = next
      BY DEF EndLoop
    <2>. QED
      BY <1>10, <2>1, <2>2 DEF ApplySched
  <1>11. CASE Permute
    BY <1>11 DEF Permute
  <1>. QED
    BY <1>1, <1>2, <1>3, <1>4, <1>5, <1>6, <1>7, <1>8, <1>9, <1>10, <1>11 DEF Invert

\* A step that leaves the file and what is known of the symbols
LEMMA WrittenStays ==
    ASSUME Written, UNCHANGED <<sbn, encoded, mask, out>>, pc # "decoded", pc' # "decoded",
           pc' = "inverted" => (P.L <= Room)'
    PROVE  Written'
  BY DEF Written, PlacesOfAll, PlacesOf, Encode, Isi, K

\* The encoder is done: nothing has arrived yet.
LEMMA WrittenGenerated ==
    ASSUME Written, Generated
    PROVE  Written'
  <1>1. mask = {} /\ mask' = {} /\ out' = out /\ sbn' = sbn /\ pc' = "receive"
    BY DEF Generated, Written
  <1>2. out \in Files /\ DOMAIN out = PlacesOfAll(mask \intersect Upto(K))
    BY DEF Written
  <1>3. (DOMAIN out = PlacesOfAll(mask \intersect Upto(K)))'
    BY <1>1, <1>2 DEF PlacesOfAll
  <1>. QED
    BY <1>1, <1>2, <1>3 DEF Written

\* An inversion that is done has as many rows as there are intermediate symbols.
LEMMA WrittenInverts ==
    ASSUME CodecInv, Written, Invert, UNCHANGED codecVars
    PROVE  Written'
  <1>1. UNCHANGED <<sbn, encoded, mask, out>> /\ pc # "decoded" /\ pc' # "decoded"
    BY InvertPhases DEF codecVars
  <1>2. ASSUME pc' = "inverted"
        PROVE  (P.L <= Room)'
    <2>1. pc = "permute" /\ P' = P
      BY <1>2, InvertPhases DEF Permute
    <2>2. Inverting /\ pc # "start"
      BY <2>1 DEF Inverting, Applying
    <2>3. NumRows <= Room /\ NumRows \in Nat /\ NumRows >= P.L /\ IsCode(P)
      BY <2>2, InInversion
    <2>4. Room \in Int /\ P.L \in Nat
      BY <2>2, <2>3, RoomIs DEF IsCode
    <2>5. P.L <= Room
      BY <2>3, <2>4
    <2>6. Room' = Room
      BY <1>1, <2>1 DEF Room, K
    <2>. QED
      BY <2>1, <2>5, <2>6
  <1>. QED
    BY <1>1, <1>2, WrittenStays

\* What the receiver makes of a frame: the layout of the sender, and the symbol
LEMMA FrameTells ==
    ASSUME CodecInv, encoded # << >>, NEW sent \in 0 .. MaxEsi,
           NEW frame, frame = MakeFrame(Oti(Encoder), sbn, sent, Encode(sent))
    PROVE  /\ DecoderNew(OtiOf(frame)) = Encoder
           /\ TagEsi(TagOf(frame)) = sent /\ SymbolOf(frame) = Encode(sent)
  <1>1. Followed
    BY DEF CodecInv, SourceTyped
  <1>2. IsFrame(frame, Oti(Encoder), sbn, sent, Encode(sent))
    BY <1>1, EncodeIs, OtiIs, BlockIs, FrameIs
  <1>3. SameAtBothEnds(Encoder)
    <2>1. IsCase(Cardinality(DOMAIN File), SymbolSize)
      BY ObjectAssumption, SMT DEF IsCase
    <2>. QED
      BY <2>1, Agrees DEF Encoder
  <1>. QED
    BY <1>2, <1>3 DEF IsFrame, SameAtBothEnds

LEMMA ReceivedIs ==
    ASSUME CodecInv, Written, NEW sent \in 0 .. MaxEsi, Receive(sent)
    PROVE  IsReceived(sent)
  <1>1. /\ pc = "receive" /\ pc' = "receive" /\ UNCHANGED <<sbn, encoded, P>> /\ sent \notin mask
    BY DEF Receive, Arrives
  <1>2. encoded # << >> /\ Followed
    BY <1>1 DEF CodecInv, SourceTyped
  <1>3. PICK frame : frame = MakeFrame(Oti(Encoder), sbn, sent, Encode(sent))
    OBVIOUS
  <1>4. /\ DecoderNew(OtiOf(frame)) = Encoder
        /\ TagEsi(TagOf(frame)) = sent /\ SymbolOf(frame) = Encode(sent)
    BY <1>2, <1>3, FrameTells
  <1>5. /\ mask' = mask \union {sent}
        /\ IF sent < K THEN out' = WriteSymbol(out, Encoder, sent, Encode(sent)) ELSE out' = out
    BY <1>3, <1>4 DEF Receive, K
  <1>6. sent \in Upto(K) <=> sent < K
    <2>1. K \in Nat /\ MaxEsi \in Nat
      BY <1>2, BlockIs, ObjectIs
    <2>. QED
      BY <2>1 DEF Upto
  <1>7. out \in Files /\ Encode(sent) \in Symbol
    BY <1>2, EncodeIs DEF Written
  <1>. QED
    BY <1>1, <1>2, <1>5, <1>6, <1>7, WriteSymbolIs DEF IsReceived

\* The file has the symbol of the frame, and what it had.
LEMMA ReceivedKeeps ==
    ASSUME CodecInv, Written, NEW sent \in 0 .. MaxEsi, IsReceived(sent)
    PROVE  /\ Written'
           /\ \A at \in DOMAIN out : at \in DOMAIN out' /\ out'[at] = out[at]
  <1>1. /\ pc # "decoded" /\ pc' # "decoded" /\ pc' # "inverted" /\ encoded' # << >> /\ Followed
        /\ UNCHANGED <<sbn, encoded>> /\ sent \notin mask /\ mask' = mask \union {sent}
    BY DEF IsReceived
  <1>2. PICK had : had = mask \intersect Upto(K)
    OBVIOUS
  <1>3. PICK has : has = mask' \intersect Upto(K)
    OBVIOUS
  <1>4. DOMAIN out = PlacesOfAll(had) /\ out \in Files
    BY <1>2 DEF Written
  <1>5. \A e \in had : e \in Upto(K) /\ \A x \in Transfer(Encoder, sbn, e) : out[x.at] = Encode(e)[1 + x.octet]
    BY <1>1, <1>2 DEF Written
  <1>6. /\ out' \in Files
        /\ DOMAIN out' = PlacesOfAll(has)
        /\ \A e \in has : \A x \in Transfer(Encoder, sbn, e) : out'[x.at] = Encode(e)[1 + x.octet]
        /\ \A at \in DOMAIN out : at \in DOMAIN out' /\ out'[at] = out[at]
    <2>1. CASE sent \in Upto(K)
      <3>1. IsWritten(out, out', sent, Encode(sent))
        BY <2>1 DEF IsReceived
      <3>2. has = had \union {sent} /\ sent \notin had
        BY <1>1, <1>2, <1>3, <2>1
      <3>3. \A at : at \in PlacesOfAll(has) <=> at \in PlacesOfAll(had) \/ at \in PlacesOf(sent)
        BY <3>2, PlacesOfAllAre
      <3>4. out' \in Files /\ DOMAIN out' = PlacesOfAll(has)
        BY <1>4, <3>1, <3>3 DEF IsWritten
      <3>5. ASSUME NEW e \in had, NEW at \in PlacesOf(e)
            PROVE  at \in DOMAIN out /\ at \notin PlacesOf(sent) /\ out'[at] = out[at]
        <4>1. at \in DOMAIN out
          BY <1>4, <3>5, PlacesOfAllAre
        <4>2. at \notin PlacesOf(sent)
          <5>1. e \in Upto(K) /\ e # sent
            BY <1>5, <3>2, <3>5
          <5>. QED
            BY <1>1, <2>1, <3>5, <5>1, PlacesAre
        <4>. QED
          BY <3>1, <4>1, <4>2 DEF IsWritten
      <3>6. \A at \in DOMAIN out : at \in DOMAIN out' /\ out'[at] = out[at]
        BY <1>4, <3>3, <3>4, <3>5, PlacesOfAllAre
      <3>7. ASSUME NEW e \in has, NEW x \in Transfer(Encoder, sbn, e)
            PROVE  out'[x.at] = Encode(e)[1 + x.octet]
        <4>1. CASE e = sent
          BY <3>1, <3>7, <4>1 DEF IsWritten
        <4>2. CASE e # sent
          <5>1. e \in had
            BY <3>2, <3>7, <4>2
          <5>2. x.at \in PlacesOf(e)
            BY <3>7 DEF PlacesOf
          <5>. QED
            BY <1>5, <3>5, <3>7, <5>1, <5>2
        <4>. QED
          BY <4>1, <4>2
      <3>. QED
        BY <3>4, <3>6, <3>7
    <2>2. CASE sent \notin Upto(K)
      <3>1. out' = out
        BY <2>2 DEF IsReceived
      <3>2. has = had
        BY <1>1, <1>2, <1>3, <2>2
      <3>. QED
        BY <1>4, <1>5, <3>1, <3>2
    <2>. QED
      BY <2>1, <2>2
  <1>7. K' = K /\ \A e : PlacesOf(e)' = PlacesOf(e) /\ Encode(e)' = Encode(e)
    BY <1>1 DEF K, PlacesOf, Encode, Isi
  <1>8. has = (mask \intersect Upto(K))' /\ PlacesOfAll(has) = PlacesOfAll(mask \intersect Upto(K))'
    BY <1>1, <1>3, <1>7 DEF PlacesOfAll
  <1>. QED
    BY <1>1, <1>6, <1>7, <1>8, ZenonT(30) DEF Written

LEMMA RepairedIs ==
    ASSUME CodecInv, Written, Repaired
    PROVE  IsRepaired
  <1>1. /\ pc = "inverted" /\ pc' = "decoded" /\ encoded # << >> /\ UNCHANGED <<sbn, encoded>>
        /\ mask' = mask \union Gaps
    BY DEF Repaired
  <1>2. Followed /\ P = EncoderParams /\ D \in [Upto(Room) -> Symbol] /\ P.L <= Room
    BY <1>1 DEF CodecInv, SourceTyped, SymbolsTyped, Written
  <1>3. IsCode(P) /\ Room \in Int /\ P.L \in Nat
    BY <1>1, <1>2, ObjectIs, RoomIs DEF IsCode
  <1>4. ASSUME NEW e \in Upto(K)
        PROVE  DecodeRow(P, D, e) \in Symbol
    <2>2. Upto(P.L) \subseteq Upto(Room)
      BY <1>2, <1>3 DEF Upto
    <2>4. TupleInRange(e, P)
      <3>1. PICK k \in Nat, kp \in Nat, most \in Nat :
                k = K /\ kp = P.Kprime /\ k <= kp /\ most = MaxEsi
        BY <1>2, <1>3, BlockIs, ObjectIs DEF IsCode
      <3>2. e \in 0 .. kp + most
        BY <1>4, <3>1 DEF Upto
      <3>. QED
        BY <1>2, <3>1, <3>2, ObjectIs
    <2>. QED
      BY <1>2, <1>3, <2>2, <2>4, DecodeRowIs
  <1>5. PICK f : IsWriting(f) /\ f \in [0 .. K -> Files]
    BY <1>2, <1>4, WritingExists DEF Written
  <1>6. PICK g : g = CHOOSE f_1 : IsWriting(f_1)
    OBVIOUS
  <1>7. IsWriting(g)
    BY <1>5, <1>6
  <1>8. out' = g[K]
    <2>1. out' = (CHOOSE written : written = [k \in 0 .. K |->
                    IF k = 0 THEN out
                    ELSE IF k - 1 \in Gaps
                    THEN WriteSymbol(written[k - 1], Encoder, k - 1, DecodeRow(P, D, k - 1))
                    ELSE written[k - 1]])[K]
      BY DEF Repaired
    <2>. QED
      BY <1>6, <2>1 DEF IsWriting
  <1>9. IsFilledTo(g[K], K)
    BY <1>2, <1>4, <1>7, RepairedFills
  <1>. QED
    BY <1>1, <1>2, <1>8, <1>9 DEF IsRepaired

\* The file has every symbol of the block, and what it had.
LEMMA RepairedKeeps ==
    ASSUME CodecInv, Written, IsRepaired
    PROVE  /\ Written'
           /\ \A at \in DOMAIN out : at \in DOMAIN out' /\ out'[at] = out[at]
  <1>1. /\ out' \in Files /\ \A at \in DOMAIN out : out'[at] = out[at]
        /\ DOMAIN out' = DOMAIN out \union PlacesOfAll({g \in Gaps : g < K})
    BY DEF IsRepaired, IsFilledTo
  <1>2. UNCHANGED sbn /\ encoded' # << >> /\ pc' = "decoded" /\ mask' = mask \union Gaps
    BY DEF IsRepaired
  <1>3. PICK k \in Nat : k = K
    BY BlockIs DEF IsRepaired
  <1>4. PICK filled : filled = {g \in Gaps : g < K}
    OBVIOUS
  <1>5. filled = Gaps
    BY <1>3, <1>4 DEF Gaps, Upto
  <1>6. PICK had : had = mask \intersect Upto(K)
    OBVIOUS
  <1>7. PICK has : has = mask' \intersect Upto(K)
    OBVIOUS
  <1>8. has = had \union filled /\ Upto(K) \subseteq mask'
    BY <1>2, <1>5, <1>6, <1>7 DEF Gaps
  <1>9. DOMAIN out = PlacesOfAll(had)
    BY <1>6 DEF Written
  <1>10. \A at : at \in PlacesOfAll(has) <=> at \in PlacesOfAll(had) \/ at \in PlacesOfAll(filled)
    BY <1>8, PlacesOfAllAre
  <1>11. DOMAIN out' = PlacesOfAll(has)
    BY <1>1, <1>4, <1>9, <1>10
  <1>12. K' = K /\ \A e : PlacesOf(e)' = PlacesOf(e)
    BY <1>2 DEF K, PlacesOf
  <1>13. has = (mask \intersect Upto(K))' /\ PlacesOfAll(has) = PlacesOfAll(mask \intersect Upto(K))'
    BY <1>7, <1>12 DEF PlacesOfAll
  <1>14. (Upto(K) \subseteq mask)'
    BY <1>8, <1>12
  <1>. QED
    BY <1>1, <1>2, <1>11, <1>13, <1>14 DEF Written

\* At the start nothing is written.
LEMMA WrittenAtStart == Init => Written
  <1>1. SUFFICES ASSUME Init
                 PROVE  Written
    OBVIOUS
  <1>2. pc = "start" /\ encoded = << >> /\ mask = {} /\ out = << >>
    BY <1>1 DEF Init
  <1>3. PICK none : none = {}
    OBVIOUS
  <1>4. out \in [none -> Octet] /\ DOMAIN out = {}
    BY <1>2, <1>3
  <1>5. none \in SUBSET (DOMAIN File)
    BY <1>3
  <1>6. out \in Files
    BY <1>4, <1>5, Zenon DEF Files
  <1>7. mask \intersect Upto(K) = {}
    BY <1>2
  <1>8. PlacesOfAll({}) = {}
    BY PlacesOfAllAre
  <1>9. DOMAIN out = PlacesOfAll(mask \intersect Upto(K))
    BY <1>4, <1>7, <1>8
  <1>. QED
    BY <1>2, <1>6, <1>7, <1>9 DEF Written

LEMMA WrittenKept ==
    ASSUME CodecInv, Written, [Next]_vars
    PROVE  Written' /\ KeepsOctets
  <1>1. ASSUME UNCHANGED vars
        PROVE  Written' /\ KeepsOctets
    BY <1>1 DEF Written, PlacesOfAll, PlacesOf, Encode, Isi, K, Room, KeepsOctets, vars, codecVars,
                precodeVars
  <1>2. CASE Generate
    <2>1. UNCHANGED <<sbn, encoded, mask, out>> /\ pc # "decoded" /\ pc' = "precond"
      BY <1>2 DEF Generate, BeginInvert, codecVars
    <2>. QED
      BY <2>1, WrittenStays DEF KeepsOctets
  <1>3. CASE Generated
    <2>1. out' = out
      BY <1>3 DEF Generated
    <2>. QED
      BY <1>3, <2>1, WrittenGenerated DEF KeepsOctets
  <1>4. CASE Invert /\ UNCHANGED codecVars
    <2>1. out' = out
      BY <1>4 DEF codecVars
    <2>. QED
      BY <1>4, <2>1, WrittenInverts DEF KeepsOctets
  <1>5. ASSUME NEW esi \in 0 .. MaxEsi, Receive(esi)
        PROVE  Written' /\ KeepsOctets
    BY <1>5, ReceivedIs, ReceivedKeeps DEF KeepsOctets
  <1>6. CASE NothingMissing
    <2>1. UNCHANGED <<sbn, encoded, mask, out>> /\ pc' = "decoded" /\ pc = "receive" /\ Gaps = {}
      BY <1>6 DEF NothingMissing, codecVars
    <2>2. Upto(K) \subseteq mask
      BY <2>1 DEF Gaps
    <2>. QED
      BY <2>1, <2>2 DEF Written, PlacesOfAll, PlacesOf, K, KeepsOctets
  <1>7. CASE Repair
    <2>1. UNCHANGED <<sbn, encoded, mask, out>> /\ pc # "decoded" /\ pc' = "precond"
      BY <1>7 DEF Repair, BeginInvert, codecVars
    <2>. QED
      BY <2>1, WrittenStays DEF KeepsOctets
  <1>8. CASE Failed
    <2>1. UNCHANGED <<sbn, encoded, mask, out>> /\ pc # "decoded" /\ pc' = "receive"
      BY <1>8 DEF Failed
    <2>. QED
      BY <2>1, WrittenStays DEF KeepsOctets
  <1>9. CASE Repaired
    BY <1>9, RepairedIs, RepairedKeeps DEF KeepsOctets
  <1>10. CASE Ended
    BY <1>1, <1>10 DEF Ended
  <1>. QED
    BY <1>1, <1>2, <1>3, <1>4, <1>5, <1>6, <1>7, <1>8, <1>9, <1>10 DEF Next

LEMMA WrittenInvariant == Spec => [](CodecInv /\ Written)
  <1>1. CodecInv /\ Written /\ [Next]_vars => (CodecInv /\ Written)'
    BY WrittenKept, NextKeeps, NothingChanges
  <1>2. Init => CodecInv /\ Written
    BY StartIs, WrittenAtStart
  <1>. QED
    BY <1>1, <1>2, PTL DEF Spec

\* The places of a symbol, by the units that make it up
LEMMA PlacesByUnit ==
    ASSUME Followed, NEW e \in Upto(K), NEW at
    PROVE  at \in PlacesOf(e) <=>
               \E j, a, c : /\ IsOctet(Encoder, 1, ObjectBlocks, 1, sbn, e, j, a, c)
                            /\ AtOfUnit(Encoder, 1, SymbolSize, sbn, e, j, a, c) = at
                            /\ at < Encoder.F
  <1>1. PICK rq : rq = Encoder
    OBVIOUS
  <1>2. PICK Z \in Nat \ {0}, Kt \in Nat, T \in Nat :
            /\ Z = ObjectBlocks /\ Kt = ObjectSymbols /\ T = SymbolSize
            /\ IsLayout(rq, 1, Kt, Z, T, 1) /\ HasBlocks(rq, Z, T)
    BY <1>1, EncoderLayout, ObjectIs
  <1>3. IsPlace(rq.src, Z, sbn, e)
    <2>1. sbn \in 0 .. Z - 1
      BY <1>1, <1>2 DEF Followed, HasBlocks, Upto
    <2>2. K = Size(rq.src, sbn)
      BY <1>1, <1>2, <2>1 DEF HasBlocks, K
    <2>. QED
      BY <2>1, <2>2 DEF IsPlace, Upto
  <1>4. \A x : x \in Placed(rq, sbn, e) <=>
                   \E j, a, c : /\ IsOctet(rq, 1, Z, 1, sbn, e, j, a, c)
                                /\ x = MovedAs(rq, 1, T, sbn, e, j, a, c)
    BY <1>2, <1>3, IsPlaced
  <1>5. \A j, a, c : MovedAs(rq, 1, T, sbn, e, j, a, c).at = AtOfUnit(rq, 1, T, sbn, e, j, a, c)
    BY DEF MovedAs
  <1>6. at \in PlacesOf(e) <=> \E x \in Placed(rq, sbn, e) : x.at = at /\ at < rq.F
    BY <1>1 DEF PlacesOf, Transfer
  <1>7. ASSUME NEW x \in Placed(rq, sbn, e), x.at = at
        PROVE  \E j, a, c : /\ IsOctet(rq, 1, Z, 1, sbn, e, j, a, c)
                            /\ AtOfUnit(rq, 1, T, sbn, e, j, a, c) = at
    <2>1. PICK j, a, c : /\ IsOctet(rq, 1, Z, 1, sbn, e, j, a, c)
                         /\ x = MovedAs(rq, 1, T, sbn, e, j, a, c)
      BY <1>4, <1>7
    <2>2. AtOfUnit(rq, 1, T, sbn, e, j, a, c) = at
      BY <1>5, <1>7, <2>1, Zenon
    <2>. QED
      BY <2>1, <2>2, Zenon
  <1>8. ASSUME NEW j, NEW a, NEW c, IsOctet(rq, 1, Z, 1, sbn, e, j, a, c),
               AtOfUnit(rq, 1, T, sbn, e, j, a, c) = at
        PROVE  \E x \in Placed(rq, sbn, e) : x.at = at
    BY <1>4, <1>5, <1>8, Zenon
  <1>. QED
    BY <1>1, <1>2, <1>6, <1>7, <1>8, Zenon

\* A part of a partition begins where the one before it ends.
LEMMA NextFirst ==
    ASSUME NEW p, NEW I \in Nat, NEW J \in Nat, IsPartition(p, I, J)
    PROVE  /\ First(p, 0) = 0
           /\ \A b \in Nat : First(p, b + 1) = First(p, b) + Size(p, b)
  <1>1. PICK JL \in Nat, JS \in Nat \ {0}, IL \in Nat, IS \in Nat :
            p.JL = JL /\ p.JS = JS /\ p.IL = IL /\ p.IS = IS
    BY DEF IsPartition
  <1>2. First(p, 0) = 0
    <2>1. CASE 0 < JL
      BY <1>1, <2>1 DEF First
    <2>2. CASE ~(0 < JL)
      <3>1. JL = 0
        BY <2>2
      <3>. QED
        BY <1>1, <3>1 DEF First
    <2>. QED
      BY <2>1, <2>2
  <1>3. ASSUME NEW b \in Nat
        PROVE  First(p, b + 1) = First(p, b) + Size(p, b)
    <2>1. CASE b + 1 < JL
      <3>1. First(p, b + 1) = IL * (b + 1) /\ First(p, b) = IL * b /\ Size(p, b) = IL
        BY <1>1, <2>1 DEF First, Size
      <3>. QED
        BY <3>1
    <2>2. CASE b + 1 = JL
      <3>1. /\ First(p, b + 1) = IL * (b + 1) + IS * 0 /\ First(p, b) = IL * b
            /\ Size(p, b) = IL
        BY <1>1, <2>2 DEF First, Size
      <3>2. IL * (b + 1) = IL * b + IL /\ IS * 0 = 0 /\ IL * b \in Nat
        OBVIOUS
      <3>. QED
        BY <3>1, <3>2
    <2>3. CASE b >= JL
      <3>1. PICK l \in Nat : b = JL + l
        <4>1. b - JL \in Nat /\ b = JL + (b - JL)
          BY <2>3
        <4>. QED
          BY <4>1
      <3>2. /\ First(p, b + 1) = IL * JL + IS * (l + 1) /\ First(p, b) = IL * JL + IS * l
            /\ Size(p, b) = IS
        BY <1>1, <3>1 DEF First, Size
      <3>3. IS * (l + 1) = IS * l + IS /\ IS * l \in Nat /\ IL * JL \in Nat
        OBVIOUS
      <3>. QED
        BY <3>2, <3>3
    <2>. QED
      BY <2>1, <2>2, <2>3
  <1>. QED
    BY <1>2, <1>3

LEMMA BlockPlacesAre ==
    ASSUME Followed
    PROVE  BlockPlaces = {at \in DOMAIN File : /\ BlockBegin <= at
                                               /\ at < BlockBegin + SymbolSize * K}
  <1>1. PICK p : p = Encoder.src
    OBVIOUS
  <1>2. PICK Z \in Nat \ {0}, Kt \in Nat, T \in Nat, n \in Nat :
            /\ Z = ObjectBlocks /\ Kt = ObjectSymbols /\ T = SymbolSize /\ n = sbn
            /\ IsPartition(p, Kt, Z) /\ HasBlocks(Encoder, Z, T) /\ n < Z
    <2>1. sbn \in 0 .. ObjectBlocks - 1
      BY EncoderLayout DEF Followed, HasBlocks, Upto
    <2>2. IsPartition(p, ObjectSymbols, ObjectBlocks)
      BY <1>1, EncoderLayout DEF IsLayout
    <2>. QED
      BY <2>1, <2>2, EncoderLayout, ObjectIs
  <1>3. /\ First(p, 0) = 0 /\ \A b \in Nat : First(p, b + 1) = First(p, b) + Size(p, b)
    BY <1>2, NextFirst
  <1>4. \A b \in 0 .. n : /\ First(p, b) \in Nat /\ Size(p, b) \in Nat
                          /\ BlockSymbols(Encoder, b) = Size(p, b)
    <2>1. IsTimes(T, p, Z, Times(T, p))
      BY <1>2, TimesScales
    <2>. QED
      BY <1>1, <1>2, <2>1 DEF IsTimes, HasBlocks
  <1>. DEFINE Sums(f) == f = [b \in 0 .. sbn |->
                                IF b = 0 THEN 0
                                ELSE f[b - 1] + SymbolSize * BlockSymbols(Encoder, b - 1)]
  <1>5. Sums([b \in 0 .. n |-> T * First(p, b)])
    <2>1. PICK f : f = [b \in 0 .. n |-> T * First(p, b)]
      OBVIOUS
    <2>2. ASSUME NEW b \in 0 .. n
          PROVE  T * First(p, b) = IF b = 0 THEN 0
                                   ELSE f[b - 1] + T * BlockSymbols(Encoder, b - 1)
      <3>1. CASE b = 0
        BY <1>3, <3>1
      <3>2. CASE b # 0
        <4>1. PICK c \in Nat : b = c + 1 /\ c \in 0 .. n
          <5>1. b - 1 \in Nat /\ b = (b - 1) + 1 /\ b - 1 \in 0 .. n
            BY <3>2
          <5>. QED
            BY <5>1
        <4>2. PICK x \in Nat, y \in Nat : x = First(p, c) /\ y = Size(p, c)
          BY <1>4, <4>1
        <4>3. First(p, b) = x + y
          BY <1>3, <4>1, <4>2
        <4>4. f[b - 1] = T * x /\ BlockSymbols(Encoder, b - 1) = y
          BY <1>4, <2>1, <4>1, <4>2
        <4>5. T * (x + y) = T * x + T * y
          OBVIOUS
        <4>. QED
          BY <3>2, <4>3, <4>4, <4>5
      <3>. QED
        BY <3>1, <3>2
    <2>. QED
      BY <1>2, <2>1, <2>2
  <1>6. PICK f : f = CHOOSE g : Sums(g)
    OBVIOUS
  <1>7. Sums(f)
    BY <1>5, <1>6
  <1>8. \A b \in 0 .. n : f[b] = IF b = 0 THEN 0
                                 ELSE f[b - 1] + T * BlockSymbols(Encoder, b - 1)
    BY <1>2, <1>7
  <1>9. f[sbn] = T * First(p, sbn)
    <2>. DEFINE Q == {b \in Nat : b <= n => f[b] = T * First(p, b)}
    <2>1. 0 \in Q
      BY <1>3, <1>8
    <2>2. ASSUME NEW b \in Q
          PROVE  b + 1 \in Q
      <3>1. SUFFICES ASSUME b + 1 <= n
                     PROVE  f[b + 1] = T * First(p, b + 1)
        OBVIOUS
      <3>2. b \in Nat /\ b \in 0 .. n /\ b + 1 \in 0 .. n /\ b + 1 # 0 /\ (b + 1) - 1 = b
        BY <3>1
      <3>3. PICK x \in Nat, y \in Nat : x = First(p, b) /\ y = Size(p, b)
        BY <1>4, <3>2
      <3>4. f[b] = T * x
        BY <3>2, <3>3
      <3>5. f[b + 1] = T * x + T * y
        BY <1>4, <1>8, <3>2, <3>3, <3>4
      <3>6. First(p, b + 1) = x + y
        BY <1>3, <3>2, <3>3
      <3>. QED
        BY <3>5, <3>6
    <2>3. Q = Nat
      <3>1. Q \subseteq Nat
        OBVIOUS
      <3>. HIDE DEF Q
      <3>. QED
        BY <2>1, <2>2, <3>1, SetInduction
    <2>. QED
      BY <1>2, <2>3
  <1>10. BlockPlaces = {at \in DOMAIN File : /\ f[sbn] <= at
                                             /\ at < f[sbn] + SymbolSize * BlockSymbols(Encoder, sbn)}
    BY <1>6 DEF BlockPlaces
  <1>. HIDE DEF Sums
  <1>. QED
    BY <1>1, <1>2, <1>9, <1>10 DEF BlockBegin, K

\* The symbols of the block have all of its places between them, and no other.
LEMMA BlockIsItsSymbols ==
    ASSUME Followed
    PROVE  BlockPlaces = PlacesOfAll(Upto(K))
  <1>1. PICK rq : rq = Encoder
    OBVIOUS
  <1>2. PICK Z \in Nat \ {0}, Kt \in Nat, T \in Nat, n \in Nat :
            /\ n \in 0 .. Z - 1
            /\ Z = ObjectBlocks /\ Kt = ObjectSymbols /\ T = SymbolSize /\ n = sbn
            /\ IsLayout(rq, 1, Kt, Z, T, 1) /\ HasBlocks(rq, Z, T)
    <2>1. sbn \in 0 .. ObjectBlocks - 1
      BY EncoderLayout DEF Followed, HasBlocks, Upto
    <2>. QED
      BY <1>1, <2>1, EncoderLayout, ObjectIs
  <1>3. PICK p : p = rq.src /\ IsPartition(p, Kt, Z) /\ IsPartition(rq.sub, T, 1)
    BY <1>2 DEF IsLayout
  <1>4. PICK t : t = Times(T, p)
    OBVIOUS
  <1>5. IsPartition(t, T * Kt, Z) /\ IsTimes(T, p, Z, t) /\ T * Kt \in Nat
    BY <1>2, <1>3, <1>4, TimesScales
  <1>6. PICK k \in Nat : k = K /\ k = Size(p, n)
    BY <1>1, <1>2, <1>3, BlockIs DEF HasBlocks, K
  <1>7. PICK begin \in Nat : begin = BlockBegin /\ begin = First(t, n) /\ Size(t, n) = T * k
    <2>1. First(p, n) \in Nat /\ First(t, n) = T * First(p, n) /\ Size(t, n) = T * Size(p, n)
      BY <1>2, <1>5 DEF IsTimes
    <2>2. T * First(p, n) \in Nat
      BY <2>1
    <2>. QED
      BY <1>1, <1>2, <1>3, <1>6, <2>1, <2>2 DEF BlockBegin
  <1>8. \A at : at \in BlockPlaces <=> at \in DOMAIN File /\ begin <= at /\ at < begin + T * k
    BY <1>2, <1>6, <1>7, BlockPlacesAre
  <1>9. DOMAIN File = 0 .. rq.F - 1 /\ rq.F \in Nat
    BY <1>1, EncoderLayout, ObjectAssumption DEF Upto
  <1>10. ASSUME NEW b, NEW e, NEW j, NEW a, NEW c, IsOctet(rq, 1, Z, 1, b, e, j, a, c)
         PROVE  \E m \in Nat : /\ IsPlace(t, Z, b, m)
                               /\ AtOfUnit(rq, 1, T, b, e, j, a, c) = First(t, b) + m
                               /\ First(t, b) \in Nat
    <2>1. IsUnit(p, rq.sub, Z, 1, b, e, j, a) /\ c \in 0 .. 1 - 1
      BY <1>3, <1>10 DEF IsOctet
    <2>2. HasParts(p, rq.sub, Z, T, 1, Kt, b, e, j, a)
      BY <1>2, <1>3, <2>1, UnitParts
    <2>3. PICK m : m = InBlock(Size(p, b), rq.sub, e, j, a)
      OBVIOUS
    <2>4. IsPlace(t, Z, b, m) /\ UnitAt(p, rq.sub, T, b, e, j, a) = First(t, b) + m
      BY <1>4, <2>2, <2>3 DEF HasParts
    <2>5. m \in Nat /\ b \in 0 .. Z - 1
      BY <2>4 DEF IsPlace
    <2>6. First(p, b) \in Nat /\ First(t, b) = T * First(p, b)
      BY <1>5, <2>5 DEF IsTimes
    <2>7. PICK x \in Nat : x = First(t, b)
      <3>1. T * First(p, b) \in Nat
        BY <2>6
      <3>. QED
        BY <2>6, <3>1
    <2>8. PICK u \in Nat : u = UnitAt(p, rq.sub, T, b, e, j, a) /\ u = x + m
      BY <2>4, <2>5, <2>7
    <2>9. c = 0
      BY <2>1
    <2>10. AtOfUnit(rq, 1, T, b, e, j, a, c) = 1 * u + 0
      BY <1>3, <2>8, <2>9 DEF AtOfUnit
    <2>. QED
      BY <2>4, <2>5, <2>7, <2>8, <2>10
  <1>11. ASSUME NEW at, at \in PlacesOfAll(Upto(K))
         PROVE  at \in BlockPlaces
    <2>1. PICK e \in Upto(K) : at \in PlacesOf(e)
      BY <1>11, PlacesOfAllAre
    <2>2. at \in DOMAIN File
      BY <2>1, PlacesAre DEF PlacesOf
    <2>3. PICK j, a, c : /\ IsOctet(rq, 1, Z, 1, n, e, j, a, c)
                         /\ AtOfUnit(rq, 1, T, n, e, j, a, c) = at
      BY <1>1, <1>2, <2>1, PlacesByUnit
    <2>4. PICK m \in Nat : IsPlace(t, Z, n, m) /\ at = First(t, n) + m
      BY <1>10, <2>3
    <2>5. m < T * k
      <3>1. m \in 0 .. T * k - 1
        BY <1>7, <2>4 DEF IsPlace
      <3>2. T * k \in Nat
        OBVIOUS
      <3>. QED
        BY <3>1, <3>2
    <2>6. begin <= begin + m /\ begin + m < begin + T * k
      <3>1. PICK y \in Nat : y = T * k
        OBVIOUS
      <3>. QED
        BY <2>5, <3>1
    <2>. QED
      BY <1>7, <1>8, <2>2, <2>4, <2>6
  <1>12. ASSUME NEW at, at \in BlockPlaces
         PROVE  at \in PlacesOfAll(Upto(K))
    <2>1. at \in 0 .. rq.F - 1 /\ at \in Nat /\ at < rq.F /\ begin <= at /\ at < begin + T * k
      BY <1>8, <1>9, <1>12
    <2>2. PICK b, e, j, a, c : /\ IsOctet(rq, 1, Z, 1, b, e, j, a, c)
                               /\ AtOfUnit(rq, 1, T, b, e, j, a, c) = at
      BY <1>2, <2>1, SomeOctet
    <2>3. PICK m \in Nat : IsPlace(t, Z, b, m) /\ at = First(t, b) + m
      BY <1>10, <2>2
    <2>4. PICK l \in Nat : l < T * k /\ at = begin + l
      <3>1. PICK y \in Nat : y = T * k
        OBVIOUS
      <3>2. at - begin \in Nat /\ at - begin < y /\ at = begin + (at - begin)
        BY <2>1, <3>1
      <3>. QED
        BY <3>1, <3>2
    <2>5. IsPlace(t, Z, n, l)
      <3>1. PICK y \in Nat : y = T * k
        OBVIOUS
      <3>2. l \in 0 .. y - 1
        BY <2>4, <3>1
      <3>. QED
        BY <1>2, <1>7, <3>1, <3>2 DEF IsPlace
    <2>6. b = n
      BY <1>2, <1>5, <1>7, <2>3, <2>4, <2>5, OnePlace
    <2>7. e \in Upto(K)
      BY <1>3, <1>6, <2>2, <2>6 DEF IsOctet, IsUnit, Upto
    <2>8. at \in PlacesOf(e)
      BY <1>1, <1>2, <2>1, <2>2, <2>6, <2>7, PlacesByUnit
    <2>. QED
      BY <2>7, <2>8, PlacesOfAllAre
  <1>. QED
    BY <1>11, <1>12

-----------------------------------------------------------------------------
\* The theorems.

\* gen_scheme_specific finds a division for every file that the OTI has room
\* for: at most Z_max = 256 blocks, none of them empty or of more than K_max
\* symbols, so that nanorq_encoder_new refuses no file for its length.
THEOREM EveryFileFits ==
    ASSUME NEW F \in Lengths, NEW T \in Sizes, NEW rq, rq = EncoderNew(F, T, 1)
    PROVE  /\ NumBlocks(rq) \in 1 .. 256 /\ NumBlocks(rq) = rq.Z
           /\ \A b \in 0 .. NumBlocks(rq) - 1 : BlockSymbols(rq, b) \in 1 .. KMax
  <1>1. IsCase(F, T)
    BY CasesAre
  <1>2. Divided(rq)
    BY <1>1, DivisionIs
  <1>. QED
    BY <1>2 DEF Divided

\* The octets of every file are divided among the symbols of its blocks without
\* a gap and without an overlap (get_source_block, get_symbol_offset,
\* transfer_esi).
THEOREM EveryFileIsCovered ==
    \A F \in Lengths, T \in Sizes : CoversObject(EncoderNew(F, T, 1))
  <1>1. SUFFICES ASSUME NEW F \in Lengths, NEW T \in Sizes
                 PROVE  CoversObject(EncoderNew(F, T, 1))
    BY Zenon
  <1>2. IsCase(F, T)
    BY CasesAre
  <1>. QED
    BY <1>2, CaseCovered

\* LayoutCoversObject holds, for every length, size, alignment and number of
\* blocks and sub-symbols.
THEOREM LayoutsCover == Spec => []LayoutCoversObject
  <1>1. ASSUME NEW rq \in Layouts
        PROVE  CoversObject(rq)
    <2>1. PICK F \in Nat \ {0}, T \in Nat \ {0}, Al \in Nat \ {0}, Z \in Nat \ {0}, N \in Nat \ {0} :
              T % Al = 0 /\ N <= T \div Al /\ N < 65536 /\ rq = Nanorq(F, T, Al, Z, N)
      BY LayoutsAssumption
    <2>2. IsLayout(rq, Al, DivCeil(F, T), Z, T \div Al, N)
      BY <2>1, NanorqLayout
    <2>3. DivCeil(F, T) \in Nat /\ T \div Al \in Nat
      BY Covers, Quotient
    <2>. QED
      BY <2>2, <2>3, Covered
  <1>2. LayoutCoversObject
    BY <1>1 DEF LayoutCoversObject
  <1>. QED
    BY <1>2, PTL

\* BothEndsAgree holds: for every length of a file and every size of a symbol
\* the OTI has room for, the division the encoder chooses is the one a receiver
\* computes from the eight octets of the OTI.
THEOREM LayoutsAgree == Spec => []BothEndsAgree
  <1>1. BothEndsAgree
    BY CasesAre, Agrees DEF BothEndsAgree
  <1>. QED
    BY <1>1, PTL

\* What the inversion may rely on holds in every state: the block is the one that
\* both ends agree on, every symbol has the size of the OTI, the matrix and its
\* schedule name rows and columns of one another (the permutations c, d and their
\* inverses included), the counters of ones are those of the rows still to be
\* chosen from while the matrix is being grown, and each phase of
\* precode_matrix_invert and precode_matrix_sched_apply finds its work within
\* the matrix it works on.
THEOREM CodecInvariant == Spec => []CodecInv
  <1>1. CodecInv /\ [Next]_vars => CodecInv'
    BY NextKeeps, NothingChanges
  <1>. QED
    BY <1>1, StartIs, PTL DEF Spec

\* DamageIsSeen holds, for every code, symbol size and encoding symbol that can be
\* sent: a frame whose damaged bits lie within six neighbouring bits of its payload
\* does not pass hermes_crc6 (crc6.c, checked by receive).  The CRC is linear, its
\* table takes an octet of damage to another remainder for every damage of at
\* most six neighbouring bits, and a step over undamaged octets takes different
\* remainders to different remainders.
THEOREM EveryBurstIsSeen == Spec => []DamageIsSeen
  <1>1. CodecInv => DamageIsSeen
    <2>1. SUFFICES ASSUME CodecInv, pc = "receive"
                   PROVE  BurstsAreSeen(MakeFrame(Oti(Encoder), sbn, MaxEsi, Encode(MaxEsi)))
      BY DEF DamageIsSeen
    <2>2. encoded # << >> /\ Followed
      BY <2>1 DEF CodecInv, SourceTyped
    <2>3. MaxEsi \in 0 .. MaxEsi
      BY ObjectIs
    <2>4. PICK frame : frame = MakeFrame(Oti(Encoder), sbn, MaxEsi, Encode(MaxEsi))
      OBVIOUS
    <2>5. IsFrame(frame, Oti(Encoder), sbn, MaxEsi, Encode(MaxEsi))
      BY <2>1, <2>2, <2>3, <2>4, EncodeIs, OtiIs, BlockIs, FrameIs
    <2>. QED
      BY <2>4, <2>5, BurstsSeen DEF IsFrame
  <1>. QED
    BY <1>1, CodecInvariant, PTL

\* ScheduleTracksMatrix holds for every code and every set of symbols received:
\* through all of precode_matrix_precond the schedule's permutations are
\* permutations with their inverses, its chosen rows and columns form the
\* triangle, and the counters nnz are the ones that each row has among the
\* columns not yet chosen, whatever was exchanged on the way.
THEOREM ScheduleIsTrue == Spec => []ScheduleTracksMatrix
  <1>1. CodecInv => ScheduleTracksMatrix
    <2>1. SUFFICES ASSUME CodecInv, pc = "precond"
                   PROVE  ScheduleTracksMatrix
      BY DEF ScheduleTracksMatrix
    <2>2. PICK n : n = NumRows
      OBVIOUS
    <2>3. Growing(A, S, NZT, P, n)
      BY <2>1, <2>2 DEF CodecInv, PrecondTrue, Precond
    <2>4. /\ IsSchedule(S, n, P) /\ S.u >= P.P /\ S.i + S.u <= P.L
          /\ CountersTrue(A, S, P, n) /\ TriangleTrue(A, S, P)
      BY <2>3 DEF Growing
    <2>5. P.L \in Nat /\ P.P \in Nat
      BY <2>1, ObjectIs DEF CodecInv, SymbolsTyped, IsCode
    <2>6. Inverses(S.d, S.di, Upto(n)) /\ Inverses(S.c, S.ci, Upto(P.L))
      BY <2>4 DEF IsSchedule
    <2>7. \A r \in Upto(n) : S.d[S.di[r]] = r
      BY <2>6 DEF Inverses
    <2>8. \A col \in Upto(P.L) : S.c[S.ci[col]] = col
      BY <2>6 DEF Inverses
    <2>9. ASSUME NEW r \in Upto(n), S.di[r] >= S.i
          PROVE  S.nz[r] = Cardinality({q \in S.i .. P.L - S.u - 1 : HasCol(A[r], S.c[q])})
                           + (IF InitialNnz(P, A[r]) = P.L THEN P.L ELSE 0)
      <3>1. CounterTrue(A, S, P, r)
        BY <2>4, <2>9 DEF CountersTrue
      <3>. QED
        BY <2>4, <2>5, <3>1, PlacesCount DEF CounterTrue
    <2>10. \A m \in Upto(S.i) :
              /\ HasCol(A[S.d[m]], S.c[m])
              /\ \A q \in m + 1 .. P.L - S.u - 1 : ~HasCol(A[S.d[m]], S.c[q])
      BY <2>4 DEF TriangleTrue, TriangleRow
    <2>. QED
      BY <2>2, <2>7, <2>8, <2>9, <2>10, Zenon DEF ScheduleTracksMatrix
  <1>. QED
    BY <1>1, CodecInvariant, PTL

\* In every state from which an attempt starts, as in every other, the tables
\* that tablegen.c computes and octtables.h holds multiply: for all octets u and
\* o the sum of the two nibbles' entries is the product of u and o in the field,
\* and OCT_INV names the inverse of every octet but 0.  The argument is that of
\* the logarithms: each octet but 0 is a power of 2, doubling keeps sums, and
\* the powers return to 1 after 255 steps and not before.
THEOREM TablesAreOfAField == Spec => []TablesAreAField
  <1>1. ASSUME NEW u \in Octet, NEW o \in Octet
        PROVE  Mul(u, o) = Product(u, o)
    <2>1. Mul(u, o) = ProductEntry(u, o)
      BY MulIsEntry
    <2>2. CASE o = 0
      <3>1. ProductEntry(u, o) = 0
        BY <2>2 DEF ProductEntry
      <3>. QED
        BY <2>1, <2>2, <3>1, ProductOfZero
    <2>3. CASE o # 0
      BY <2>1, <2>3, EntryTimes, ProductTimes
    <2>. QED
      BY <2>2, <2>3
  <1>2. TablesAreAField
    BY <1>1, InverseInverts DEF TablesAreAField, TablesMultiply
  <1>. QED
    BY <1>2, PTL

\* What has once been written at the receiver is not written again with other
\* octets, whether its symbol arrived or was repaired: no later frame, failed
\* inversion or repair reaches it (nanorq_decoder_add_symbol writes a source
\* symbol at once, nanorq_repair_block only what is missing).
THEOREM NothingIsRewritten == Spec => OctetsStay
  <1>1. CodecInv /\ Written /\ [Next]_vars => [KeepsOctets]_vars
    BY WrittenKept
  <1>. QED
    BY <1>1, WrittenInvariant, PTL DEF Spec, OctetsStay

\* BlockIsWhole holds for every object, every code and every order of arrival:
\* what the receiver writes for a block (transfer_esi, on arrival and after the
\* repair) lies within the block's octets of the file, and once the block counts
\* as decoded none of these is missing.
THEOREM BlockIsItsOwn == Spec => []BlockIsWhole
  <1>1. CodecInv /\ Written => BlockIsWhole
    <2>1. SUFFICES ASSUME CodecInv, Written
                   PROVE  BlockIsWhole
      OBVIOUS
    <2>2. Followed
      BY <2>1 DEF CodecInv, SourceTyped
    <2>3. BlockPlaces = PlacesOfAll(Upto(K))
      BY <2>2, BlockIsItsSymbols
    <2>4. PICK had : had = mask \intersect Upto(K)
      OBVIOUS
    <2>5. DOMAIN out = PlacesOfAll(had) /\ (pc = "decoded" => had = Upto(K))
      BY <2>1, <2>4 DEF Written
    <2>6. \A at : at \in PlacesOfAll(had) => at \in PlacesOfAll(Upto(K))
      BY <2>4, PlacesOfAllAre
    <2>. QED
      BY <2>3, <2>5, <2>6 DEF BlockIsWhole
  <1>. QED
    BY <1>1, WrittenInvariant, PTL

\* The octets of the source symbols that have arrived are those of the file:
\* while the block is not decoded, what is written is what the sender's encoding
\* symbols hold, and those are the file's as long as the code is systematic.
THEOREM ArrivedIsSource ==
    Spec => [](IsSystematic /\ pc # "decoded" => OctetsAreSource)
  <1>1. CodecInv /\ Written => (IsSystematic /\ pc # "decoded" => OctetsAreSource)
    <2>1. SUFFICES ASSUME CodecInv, Written, IsSystematic, pc # "decoded", NEW at \in DOMAIN out
                   PROVE  out[at] = File[at]
      BY DEF OctetsAreSource
    <2>2. Followed
      BY <2>1 DEF CodecInv, SourceTyped
    <2>3. PICK e \in mask \intersect Upto(K) : at \in PlacesOf(e)
      BY <2>1, PlacesOfAllAre DEF Written
    <2>4. PICK moved : moved = Transfer(Encoder, sbn, e)
      OBVIOUS
    <2>5. PICK x \in moved : x.at = at
      BY <2>3, <2>4 DEF PlacesOf
    <2>6. \A y, z \in moved : y.at = z.at <=> y.octet = z.octet
      BY <2>2, <2>3, <2>4, PlacesAre
    <2>7. x.octet \in 0 .. SymbolSize - 1
      BY <2>2, <2>3, <2>4, PlacesAre
    <2>8. PICK n \in 1 .. SymbolSize : n = 1 + x.octet /\ n - 1 = x.octet
      <3>1. PICK o \in 0 .. SymbolSize - 1 : o = x.octet
        BY <2>7
      <3>2. o + 1 \in 1 .. SymbolSize /\ (o + 1) - 1 = o /\ 1 + o = o + 1
        BY ObjectIs
      <3>. QED
        BY <3>1, <3>2
    <2>9. out[at] = Encode(e)[n]
      BY <2>1, <2>3, <2>4, <2>5, <2>8 DEF Written
    <2>10. Encode(e) = ReadSymbol(Encoder, e)
      <3>1. encoded # << >>
        BY <2>1, <2>3 DEF Written
      <3>. QED
        BY <2>1, <2>3, <3>1 DEF IsSystematic
    <2>11. ReadSymbol(Encoder, e)[n] = File[at]
      <3>1. {y.at : y \in {z \in moved : z.octet = n - 1}} = {at}
        BY <2>5, <2>6, <2>8
      <3>2. ReadSymbol(Encoder, e)[n]
            = IF {at} = {} THEN 0 ELSE File[CHOOSE z \in {at} : TRUE]
        BY <2>4, <3>1 DEF ReadSymbol
      <3>. QED
        BY <3>2
    <2>. QED
      BY <2>9, <2>10, <2>11
  <1>. QED
    BY <1>1, WrittenInvariant, PTL
=============================================================================
