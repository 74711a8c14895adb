---------------------------- MODULE DaemonProofs ----------------------------
(***************************************************************************)
(* Theorems about Daemon, for any frames, any MAX_PAYLOAD and size of the  *)
(* receive buffer, any budgets and any room in the socket's buffer.        *)
(*                                                                         *)
(* What the receive thread returns is compared with a reader that gets the *)
(* bytes one by one: what it makes of a stream does not depend on where    *)
(* recv and Feed cut it (Compose, Decompose, FeedReads), and what it makes *)
(* of a frame, whole or cut, is what Expect says (PutReads).               *)
(***************************************************************************)
EXTENDS Daemon, SequenceTheorems, WellFoundedInduction, TLAPS

-----------------------------------------------------------------------------
(***************************************************************************)
(* Induction over the numbers.                                             *)
(***************************************************************************)

LEMMA LeastElement ==
    ASSUME NEW T, T \subseteq Nat, T # {}
    PROVE  \E n \in T : \A m \in T : n <= m
  <1>. DEFINE R == OpToRel(<, Nat)
  <1>1. PICK n \in T : \A m \in T : ~(<<m, n>> \in R)
    <2>. HIDE DEF R
    <2>1. IsWellFoundedOn(R, Nat)
      BY NatLessThanWellFounded DEF R
    <2>. QED
      BY <2>1, WFMin
  <1>2. \A m \in T : <<m, n>> \in R <=> m < n
    BY DEF OpToRel
  <1>3. \A m \in T : ~(m < n) /\ m \in Nat /\ n \in Nat
    BY <1>1, <1>2
  <1>. QED
    BY <1>3

LEMMA SetInduction ==
    ASSUME NEW S, S \subseteq Nat, 0 \in S, \A n \in S : n + 1 \in S
    PROVE  S = Nat
  <1>1. SUFFICES ASSUME Nat \ S # {}
                 PROVE  FALSE
    OBVIOUS
  <1>2. PICK n \in Nat \ S : \A m \in Nat \ S : n <= m
    <2>. DEFINE T == Nat \ S
    <2>1. T \subseteq Nat /\ T # {}
      BY <1>1
    <2>. HIDE DEF T
    <2>2. \E n \in T : \A m \in T : n <= m
      BY <2>1, LeastElement
    <2>. QED
      BY <2>2 DEF T
  <1>3. n # 0
    OBVIOUS
  <1>4. n - 1 \in S
    BY <1>2, <1>3
  <1>5. (n - 1) + 1 \in S
    BY <1>4
  <1>. QED
    BY <1>2, <1>5

\* What holds at 0 and goes on from one number to the next up to n, holds up to n.
LEMMA Bounded ==
    ASSUME NEW n \in Nat, NEW S, 0 \in S, \A i \in 0 .. n - 1 : i \in S => i + 1 \in S
    PROVE  \A i \in 0 .. n : i \in S
  <1>. DEFINE T == {i \in Nat : i <= n => i \in S}
  <1>1. 0 \in T
    OBVIOUS
  <1>2. ASSUME NEW i \in T
        PROVE  i + 1 \in T
    <2>1. CASE i + 1 <= n
      <3>1. i \in 0 .. n - 1 /\ i \in S
        BY <2>1
      <3>. QED
        BY <3>1
    <2>2. CASE ~(i + 1 <= n)
      BY <2>2
    <2>. QED
      BY <2>1, <2>2
  <1>3. T \subseteq Nat
    OBVIOUS
  <1>4. T = Nat
    <2>. HIDE DEF T
    <2>. QED
      BY <1>1, <1>2, <1>3, SetInduction
  <1>. QED
    BY <1>4

\* g: x, and then what F makes of the last value.
Follows(g, F, x, n) == g[0] = x /\ \A i \in 1 .. n : g[i] = F[<<g[i - 1], i>>]

\* A function that is defined by recursion, each value from the last one, exists.
LEMMA Recursion ==
    ASSUME NEW X, NEW F \in [X \X Nat -> X], NEW x \in X, NEW n \in Nat
    PROVE  \E g \in [0 .. n -> X] : Follows(g, F, x, n)
  <1>. DEFINE S == {k \in Nat : \E g \in [0 .. k -> X] :
                       g[0] = x /\ \A i \in 1 .. k : g[i] = F[<<g[i - 1], i>>]}
  <1>1. 0 \in S
    <2>1. PICK g : g = [i \in 0 .. 0 |-> x]
      OBVIOUS
    <2>2. g \in [0 .. 0 -> X] /\ g[0] = x
      BY <2>1
    <2>3. \A i \in 1 .. 0 : g[i] = F[<<g[i - 1], i>>]
      OBVIOUS
    <2>. QED
      BY <2>2, <2>3
  <1>2. ASSUME NEW k \in S
        PROVE  k + 1 \in S
    <2>1. PICK g \in [0 .. k -> X] :
              g[0] = x /\ \A i \in 1 .. k : g[i] = F[<<g[i - 1], i>>]
      OBVIOUS
    <2>2. k \in Nat /\ g[k] \in X
      OBVIOUS
    <2>3. PICK y \in X : y = F[<<g[k], k + 1>>]
      BY <2>2
    <2>4. PICK h : h = [i \in 0 .. k + 1 |-> IF i <= k THEN g[i] ELSE y]
      OBVIOUS
    <2>5. h \in [0 .. k + 1 -> X]
      BY <2>2, <2>4
    <2>6. h[0] = x
      BY <2>1, <2>2, <2>4
    <2>7. ASSUME NEW i \in 1 .. k + 1
          PROVE  h[i] = F[<<h[i - 1], i>>]
      <3>1. CASE i <= k
        BY <2>1, <2>2, <2>4, <3>1
      <3>2. CASE ~(i <= k)
        <4>1. i = k + 1 /\ h[i] = y /\ h[i - 1] = g[k]
          BY <2>2, <2>4, <3>2
        <4>. QED
          BY <2>3, <4>1
      <3>. QED
        BY <3>1, <3>2
    <2>. QED
      BY <2>2, <2>5, <2>6, <2>7
  <1>3. S \subseteq Nat
    OBVIOUS
  <1>4. S = Nat
    <2>. HIDE DEF S
    <2>. QED
      BY <1>1, <1>2, <1>3, SetInduction
  <1>. QED
    BY <1>4 DEF Follows

-----------------------------------------------------------------------------
(***************************************************************************)
(* A reader of the stream: the state of the decoder and the frames it has  *)
(* returned, taken byte by byte and without regard to how the bytes come.  *)
(***************************************************************************)

Bytes == Seq(Byte)

Kisses == [in_frame : BOOLEAN, command : 0 .. 15 \union {CmdUnknown},
           escape : BOOLEAN, collected : {s \in Bytes : Len(s) <= MaxPayload}]
Readers == [kiss : Kisses, out : Seq(Bytes)]

ReadByte(c, b) ==
    [kiss |-> KissState(c.kiss, b),
     out |-> IF KissFrame(c.kiss, b) = NoFrame THEN c.out
             ELSE Append(c.out, KissFrame(c.kiss, b))]

\* r: the states of the reader while it reads the bytes s.
IsRun(c, s, r) ==
    /\ r \in [0 .. Len(s) -> Readers]
    /\ r[0] = c
    /\ \A i \in 1 .. Len(s) : r[i] = ReadByte(r[i - 1], s[i])

Reaches(c, s, d) == \E r : IsRun(c, s, r) /\ r[Len(s)] = d

LEMMA KissStateOK ==
    ASSUME NEW s \in Kisses, NEW b \in Byte
    PROVE  KissState(s, b) \in Kisses /\ KissFrame(s, b) \in Bytes
  <1>1. MaxPayload \in Nat /\ MaxPayload >= 1
    BY MaxPayloadAssumption
  <1>2. KissFrame(s, b) \in Bytes
    BY DEF KissFrame, NoFrame, Kisses, Bytes
  <1>3. CASE b = FEND
    <2>1. << >> \in Bytes /\ Len(<< >>) <= MaxPayload
      BY <1>1 DEF Bytes
    <2>. QED
      BY <1>2, <1>3, <2>1 DEF KissState, Kisses
  <1>4. CASE b # FEND /\ (~s.in_frame \/ Full(s))
    BY <1>2, <1>4 DEF KissState
  <1>5. CASE b # FEND /\ s.in_frame /\ ~Full(s)
    <2>1. b % 16 \in 0 .. 15
      BY DEF Byte
    <2>2. Collect(s, b) \in Kisses
      <3>1. CASE b = FESC
        BY <3>1 DEF Collect, Kisses
      <3>2. CASE b # FESC
        <4>1. PICK x \in Byte : x = IF s.escape THEN Unescape(b) ELSE b
          BY DEF Unescape, Byte, FEND, FESC
        <4>2. s.collected \in Seq(Byte) /\ Len(s.collected) <= MaxPayload
              /\ ~(Len(s.collected) >= MaxPayload)
          BY <1>5 DEF Kisses, Bytes, Full
        <4>3. Append(s.collected, x) \in Bytes /\ Len(Append(s.collected, x)) <= MaxPayload
          BY <1>1, <4>1, <4>2 DEF Bytes
        <4>4. Collect(s, b) = [s EXCEPT !.collected = Append(s.collected, x), !.escape = FALSE]
          BY <3>2, <4>1 DEF Collect
        <4>. QED
          BY <4>3, <4>4 DEF Kisses
      <3>. QED
        BY <3>1, <3>2
    <2>3. [s EXCEPT !.command = b % 16] \in Kisses
      BY <2>1 DEF Kisses
    <2>4. KissState(s, b) \in {s, Collect(s, b), [s EXCEPT !.command = b % 16]}
      BY <1>5 DEF KissState
    <2>. QED
      BY <1>2, <2>2, <2>3, <2>4
  <1>. QED
    BY <1>3, <1>4, <1>5

LEMMA ReadByteOK ==
    ASSUME NEW c \in Readers, NEW b \in Byte
    PROVE  ReadByte(c, b) \in Readers
  <1>1. KissState(c.kiss, b) \in Kisses /\ KissFrame(c.kiss, b) \in Bytes
    BY KissStateOK DEF Readers
  <1>. QED
    BY <1>1 DEF ReadByte, Readers

\* A reader can read any bytes.
LEMMA RunExists ==
    ASSUME NEW c \in Readers, NEW s \in Bytes
    PROVE  \E d \in Readers : Reaches(c, s, d)
  <1>. DEFINE n == Len(s)
  <1>. DEFINE F == [p \in Readers \X Nat |->
                       IF p[2] \in 1 .. n THEN ReadByte(p[1], s[p[2]]) ELSE p[1]]
  <1>1. n \in Nat /\ \A i \in 1 .. n : s[i] \in Byte
    BY DEF Bytes
  <1>2. F \in [Readers \X Nat -> Readers]
    BY <1>1, ReadByteOK
  <1>3. PICK g \in [0 .. n -> Readers] : Follows(g, F, c, n)
    <2>. HIDE DEF F, n
    <2>. QED
      BY <1>1, <1>2, Recursion
  <1>4. g[0] = c /\ \A i \in 1 .. n : g[i] = F[<<g[i - 1], i>>]
    <2>. HIDE DEF F, n
    <2>. QED
      BY <1>3 DEF Follows
  <1>5. ASSUME NEW i \in 1 .. n
        PROVE  g[i] = ReadByte(g[i - 1], s[i])
    <2>1. i \in Nat /\ g[i - 1] \in Readers
      BY <1>1
    <2>2. <<g[i - 1], i>> \in Readers \X Nat
      BY <2>1
    <2>3. g[i] = F[<<g[i - 1], i>>]
      BY <1>4
    <2>. QED
      BY <2>2, <2>3
  <1>6. IsRun(c, s, g) /\ g[n] \in Readers
    BY <1>1, <1>4, <1>5 DEF IsRun
  <1>. QED
    BY <1>6 DEF Reaches

\* It ends in one state only.
LEMMA RunIsUnique ==
    ASSUME NEW c, NEW s \in Bytes, NEW d, NEW e, Reaches(c, s, d), Reaches(c, s, e)
    PROVE  d = e
  <1>. DEFINE n == Len(s)
  <1>1. PICK r : IsRun(c, s, r) /\ r[n] = d
    BY DEF Reaches
  <1>2. PICK q : IsRun(c, s, q) /\ q[n] = e
    BY DEF Reaches
  <1>. DEFINE S == {i \in Nat : r[i] = q[i]}
  <1>3. n \in Nat /\ 0 \in S
    BY <1>1, <1>2 DEF IsRun, Bytes
  <1>4. ASSUME NEW i \in 0 .. n - 1, i \in S
        PROVE  i + 1 \in S
    <2>1. i + 1 \in 1 .. n /\ (i + 1) - 1 = i
      BY <1>3
    <2>2. r[i + 1] = ReadByte(r[i], s[i + 1]) /\ q[i + 1] = ReadByte(q[i], s[i + 1])
      BY <1>1, <1>2, <2>1 DEF IsRun
    <2>. QED
      BY <1>4, <2>1, <2>2
  <1>5. n \in S
    <2>. HIDE DEF S, n
    <2>1. \A i \in 0 .. n : i \in S
      BY <1>3, <1>4, Bounded
    <2>. QED
      BY <1>3, <2>1
  <1>. QED
    BY <1>1, <1>2, <1>5

LEMMA ReachesNothing ==
    ASSUME NEW c \in Readers
    PROVE  Reaches(c, << >>, c) /\ \A d : Reaches(c, << >>, d) => d = c
  <1>1. PICK r : r = [i \in 0 .. 0 |-> c]
    OBVIOUS
  <1>2. Len(<< >>) = 0 /\ r \in [0 .. 0 -> Readers] /\ r[0] = c /\ 1 .. 0 = {}
    BY <1>1
  <1>3. IsRun(c, << >>, r)
    BY <1>2 DEF IsRun
  <1>4. \A d : Reaches(c, << >>, d) => d = c
    BY <1>2 DEF Reaches, IsRun
  <1>. QED
    BY <1>2, <1>3, <1>4 DEF Reaches

LEMMA ReachesByte ==
    ASSUME NEW c \in Readers, NEW b \in Byte
    PROVE  Reaches(c, <<b>>, ReadByte(c, b))
  <1>1. PICK r : r = [i \in 0 .. 1 |-> IF i = 0 THEN c ELSE ReadByte(c, b)]
    OBVIOUS
  <1>2. r \in [0 .. 1 -> Readers] /\ r[0] = c /\ r[1] = ReadByte(c, b)
    BY <1>1, ReadByteOK
  <1>3. Len(<<b>>) = 1 /\ <<b>>[1] = b
    OBVIOUS
  <1>4. ASSUME NEW i \in 1 .. 1
        PROVE  r[i] = ReadByte(r[i - 1], <<b>>[i])
    <2>1. i = 1 /\ i - 1 = 0
      OBVIOUS
    <2>. QED
      BY <1>2, <1>3, <2>1
  <1>5. IsRun(c, <<b>>, r)
    BY <1>2, <1>3, <1>4 DEF IsRun
  <1>. QED
    BY <1>2, <1>3, <1>5 DEF Reaches

LEMMA Compose ==
    ASSUME NEW c, NEW s \in Bytes, NEW d, NEW t \in Bytes, NEW e,
           Reaches(c, s, d), Reaches(d, t, e)
    PROVE  Reaches(c, s \o t, e)
  <1>1. PICK r : IsRun(c, s, r) /\ r[Len(s)] = d
    BY DEF Reaches
  <1>2. PICK q : IsRun(d, t, q) /\ q[Len(t)] = e
    BY DEF Reaches
  <1>3. PICK m \in Nat, n \in Nat : m = Len(s) /\ n = Len(t)
    BY DEF Bytes
  <1>4. /\ Len(s \o t) = m + n
        /\ \A i \in 1 .. m + n : (s \o t)[i] = IF i <= m THEN s[i] ELSE t[i - m]
    BY <1>3, ConcatProperties DEF Bytes
  <1>5. PICK p : p = [i \in 0 .. m + n |-> IF i <= m THEN r[i] ELSE q[i - m]]
    OBVIOUS
  <1>6. /\ r \in [0 .. m -> Readers] /\ r[0] = c /\ r[m] = d
        /\ q \in [0 .. n -> Readers] /\ q[0] = d /\ q[n] = e
    BY <1>1, <1>2, <1>3 DEF IsRun
  <1>7. p \in [0 .. m + n -> Readers] /\ p[0] = c
    BY <1>3, <1>5, <1>6
  <1>8. p[m + n] = e
    <2>1. CASE n = 0
      BY <1>3, <1>5, <1>6, <2>1
    <2>2. CASE n # 0
      <3>1. ~(m + n <= m) /\ (m + n) - m = n /\ m + n \in 0 .. m + n
        BY <1>3, <2>2
      <3>. QED
        BY <1>5, <1>6, <3>1
    <2>. QED
      BY <2>1, <2>2
  <1>9. ASSUME NEW i \in 1 .. m + n
        PROVE  p[i] = ReadByte(p[i - 1], (s \o t)[i])
    <2>1. CASE i <= m
      <3>1. i \in 1 .. m /\ p[i] = r[i] /\ p[i - 1] = r[i - 1] /\ (s \o t)[i] = s[i]
        BY <1>3, <1>4, <1>5, <2>1
      <3>. QED
        BY <1>1, <1>3, <3>1 DEF IsRun
    <2>2. CASE ~(i <= m)
      <3>1. i - m \in 1 .. n /\ p[i] = q[i - m] /\ (s \o t)[i] = t[i - m]
        BY <1>3, <1>4, <1>5, <2>2
      <3>2. p[i - 1] = q[(i - m) - 1]
        <4>1. CASE i = m + 1
          BY <1>3, <1>5, <1>6, <4>1
        <4>2. CASE i # m + 1
          <5>1. ~(i - 1 <= m) /\ i - 1 \in 0 .. m + n /\ (i - 1) - m = (i - m) - 1
            BY <1>3, <2>2, <4>2
          <5>. QED
            BY <1>5, <5>1
        <4>. QED
          BY <4>1, <4>2
      <3>. QED
        BY <1>2, <1>3, <3>1, <3>2 DEF IsRun
    <2>. QED
      BY <2>1, <2>2
  <1>10. IsRun(c, s \o t, p)
    BY <1>4, <1>7, <1>9 DEF IsRun
  <1>. QED
    BY <1>4, <1>8, <1>10 DEF Reaches

\* What has been read is behind what has been reached on the way.
LEMMA Decompose ==
    ASSUME NEW c \in Readers, NEW s \in Bytes, NEW t \in Bytes, NEW d, NEW e,
           Reaches(c, s \o t, e), Reaches(c, s, d)
    PROVE  d \in Readers /\ Reaches(d, t, e)
  <1>1. d \in Readers
    <2>1. PICK r : IsRun(c, s, r) /\ r[Len(s)] = d
      BY DEF Reaches
    <2>2. Len(s) \in 0 .. Len(s)
      BY DEF Bytes
    <2>. QED
      BY <2>1, <2>2 DEF IsRun
  <1>2. PICK f \in Readers : Reaches(d, t, f)
    BY <1>1, RunExists
  <1>3. Reaches(c, s \o t, f)
    BY <1>2, Compose
  <1>4. s \o t \in Bytes
    BY ConcatProperties DEF Bytes
  <1>5. e = f
    BY <1>3, <1>4, RunIsUnique
  <1>. QED
    BY <1>1, <1>2, <1>5

\* Frames are only added to those that have been returned.
LEMMA OutGrows ==
    ASSUME NEW c \in Readers, NEW s \in Bytes, NEW d, Reaches(c, s, d)
    PROVE  IsPrefix(c.out, d.out)
  <1>1. PICK r : IsRun(c, s, r) /\ r[Len(s)] = d
    BY DEF Reaches
  <1>2. PICK n \in Nat : n = Len(s)
    BY DEF Bytes
  <1>. DEFINE S == {i \in Nat : /\ Len(c.out) <= Len(r[i].out)
                                /\ \A k \in 1 .. Len(c.out) : r[i].out[k] = c.out[k]}
  <1>3. c.out \in Seq(Bytes) /\ \A i \in 0 .. n : r[i] \in Readers /\ r[i].out \in Seq(Bytes)
    BY <1>1, <1>2 DEF IsRun, Readers
  <1>4. 0 \in S
    BY <1>1, <1>3 DEF IsRun
  <1>5. ASSUME NEW i \in 0 .. n - 1, i \in S
        PROVE  i + 1 \in S
    <2>1. i + 1 \in 1 .. n /\ (i + 1) - 1 = i /\ i \in 0 .. n
      BY <1>2
    <2>2. s[i + 1] \in Byte
      BY <1>2, <2>1 DEF Bytes
    <2>3. PICK p \in Readers : p = r[i]
      BY <1>3, <2>1
    <2>4. r[i + 1] = ReadByte(p, s[i + 1])
      BY <1>1, <1>2, <2>1, <2>3 DEF IsRun
    <2>5. r[i + 1].out = p.out \/ r[i + 1].out = Append(p.out, KissFrame(p.kiss, s[i + 1]))
      BY <2>4 DEF ReadByte
    <2>6. KissFrame(p.kiss, s[i + 1]) \in Bytes /\ p.out \in Seq(Bytes)
      BY <2>2, <2>3, KissStateOK DEF Readers
    <2>7. CASE r[i + 1].out = p.out
      BY <1>5, <2>1, <2>3, <2>7
    <2>8. CASE r[i + 1].out = Append(p.out, KissFrame(p.kiss, s[i + 1]))
      <3>1. /\ Len(r[i + 1].out) = Len(p.out) + 1
            /\ \A k \in 1 .. Len(p.out) : r[i + 1].out[k] = p.out[k]
        BY <2>6, <2>8
      <3>2. Len(c.out) \in Nat /\ Len(p.out) \in Nat /\ Len(c.out) <= Len(p.out)
        BY <1>3, <1>5, <2>3, <2>6
      <3>3. ASSUME NEW k \in 1 .. Len(c.out)
            PROVE  r[i + 1].out[k] = c.out[k]
        <4>1. k \in 1 .. Len(p.out)
          BY <3>2
        <4>. QED
          BY <1>5, <2>3, <3>1, <4>1
      <3>. QED
        BY <2>1, <3>1, <3>2, <3>3
    <2>. QED
      BY <2>5, <2>7, <2>8
  <1>6. n \in S
    <2>. HIDE DEF S
    <2>1. \A i \in 0 .. n : i \in S
      BY <1>2, <1>4, <1>5, Bounded
    <2>. QED
      BY <1>2, <2>1
  <1>7. d.out \in Seq(Bytes) /\ Len(c.out) <= Len(d.out)
        /\ \A k \in 1 .. Len(c.out) : d.out[k] = c.out[k]
    BY <1>1, <1>2, <1>3, <1>6
  <1>8. SubSeq(c.out, 1, Len(c.out)) = SubSeq(d.out, 1, Len(c.out))
    <2>. DEFINE m == Len(c.out)
    <2>1. m \in Nat /\ m <= Len(d.out) /\ m = Len(c.out)
      BY <1>3, <1>7
    <2>2. SubSeq(c.out, 1, m) \in Seq(Bytes) /\ SubSeq(d.out, 1, m) \in Seq(Bytes)
          /\ Len(SubSeq(c.out, 1, m)) = m /\ Len(SubSeq(d.out, 1, m)) = m
          /\ \A k \in 1 .. m : SubSeq(c.out, 1, m)[k] = SubSeq(d.out, 1, m)[k]
      BY <1>3, <1>7, <2>1
    <2>. QED
      BY <2>2, SeqEqual
  <1>. QED
    BY <1>7, <1>8 DEF IsPrefix

-----------------------------------------------------------------------------
(***************************************************************************)
(* One call's share of the bytes: Feed reads up to the first frame.        *)
(***************************************************************************)

\* What Feed has after i bytes.
Fed == [frame : Bytes, kiss : Kisses, rest : Bytes]
FeedByte(f, b, rest) ==
    IF f.frame # NoFrame THEN f
    ELSE [frame |-> KissFrame(f.kiss, b), kiss |-> KissState(f.kiss, b), rest |-> rest]
FedFrom(k) == [frame |-> NoFrame, kiss |-> k, rest |-> << >>]

LEMMA FeedSteps ==
    ASSUME kiss \in Kisses, NEW s \in Bytes
    PROVE  \E g \in [0 .. Len(s) -> Fed] :
               /\ g[0] = FedFrom(kiss)
               /\ \A i \in 1 .. Len(s) : g[i] = FeedByte(g[i - 1], s[i], SubSeq(s, i + 1, Len(s)))
               /\ Feed(s) = g[Len(s)]
  <1>. DEFINE n == Len(s)
              rest(i) == SubSeq(s, i + 1, n)
              F == [p \in Fed \X Nat |->
                       IF p[2] \in 1 .. n THEN FeedByte(p[1], s[p[2]], rest(p[2])) ELSE p[1]]
              G(f) == [i \in 0 .. n |->
                          IF i = 0 THEN [frame |-> NoFrame, kiss |-> kiss, rest |-> << >>]
                          ELSE LET before == f[i - 1]
                               IN  IF before.frame # NoFrame THEN before
                                   ELSE [frame |-> KissFrame(before.kiss, s[i]),
                                         kiss |-> KissState(before.kiss, s[i]),
                                         rest |-> SubSeq(s, i + 1, n)]]
  <1>1. n \in Nat /\ \A i \in 1 .. n : s[i] \in Byte /\ rest(i) \in Bytes
    BY DEF Bytes
  <1>2. \A f \in Fed, i \in 1 .. n : FeedByte(f, s[i], rest(i)) \in Fed
    BY <1>1, KissStateOK DEF FeedByte, Fed
  <1>3. F \in [Fed \X Nat -> Fed]
    BY <1>2
  <1>4. FedFrom(kiss) \in Fed
    BY DEF FedFrom, Fed, Bytes, NoFrame
  <1>5. PICK g \in [0 .. n -> Fed] : Follows(g, F, FedFrom(kiss), n)
    <2>. HIDE DEF F, n
    <2>. QED
      BY <1>1, <1>3, <1>4, Recursion
  <1>6. g[0] = FedFrom(kiss) /\ \A i \in 1 .. n : g[i] = F[<<g[i - 1], i>>]
    <2>. HIDE DEF F, n
    <2>. QED
      BY <1>5 DEF Follows
  <1>7. ASSUME NEW i \in 1 .. n
        PROVE  g[i] = FeedByte(g[i - 1], s[i], rest(i))
    <2>1. <<g[i - 1], i>> \in Fed \X Nat
      BY <1>1
    <2>2. g[i] = F[<<g[i - 1], i>>]
      BY <1>6
    <2>. QED
      BY <2>1, <2>2
  <1>8. g = G(g)
    <2>1. ASSUME NEW i \in 0 .. n
          PROVE  g[i] = G(g)[i]
      <3>1. CASE i = 0
        BY <1>6, <3>1 DEF FedFrom
      <3>2. CASE i # 0
        <4>1. i \in 1 .. n
          BY <1>1, <3>2
        <4>. QED
          BY <1>7, <3>2, <4>1 DEF FeedByte
      <3>. QED
        BY <3>1, <3>2
    <2>. QED
      BY <1>5, <2>1
  <1>9. PICK h : h = CHOOSE f : f = G(f)
    OBVIOUS
  <1>10. h = G(h)
    BY <1>8, <1>9, ZenonT(30)
  <1>11. \A i \in 0 .. n : h[i] = g[i]
    <2>. DEFINE S == {i \in Nat : h[i] = g[i]}
    <2>1. G(h)[0] = G(g)[0]
      BY <1>1
    <2>2. ASSUME NEW i \in 1 .. n, h[i - 1] = g[i - 1]
          PROVE  G(h)[i] = G(g)[i]
      <3>1. i # 0 /\ i \in 0 .. n
        BY <1>1
      <3>. QED
        BY <2>2, <3>1
    <2>. HIDE DEF G
    <2>3. 0 \in S
      BY <1>8, <1>10, <2>1
    <2>4. ASSUME NEW i \in 0 .. n - 1, i \in S
          PROVE  i + 1 \in S
      <3>1. i + 1 \in 1 .. n /\ (i + 1) - 1 = i
        BY <1>1
      <3>2. G(h)[i + 1] = G(g)[i + 1]
        BY <2>2, <2>4, <3>1
      <3>. QED
        BY <1>8, <1>10, <3>2
    <2>5. \A i \in 0 .. n : i \in S
      <3>. HIDE DEF S, n
      <3>. QED
        BY <1>1, <2>3, <2>4, Bounded, ZenonT(30)
    <2>. QED
      BY <2>5
  <1>12. Feed(s) = h[n]
    BY <1>9, Zenon DEF Feed
  <1>13. n \in 0 .. n /\ h[n] = g[n]
    BY <1>1, <1>11
  <1>. QED
    BY <1>5, <1>6, <1>7, <1>12, <1>13

\* Bytes of a stream, cut in two.
LEMMA Cut ==
    ASSUME NEW S, NEW s \in Seq(S), NEW n \in 0 .. Len(s)
    PROVE  /\ SubSeq(s, 1, n) \in Seq(S) /\ Len(SubSeq(s, 1, n)) = n
           /\ SubSeq(s, n + 1, Len(s)) \in Seq(S)
           /\ s = SubSeq(s, 1, n) \o SubSeq(s, n + 1, Len(s))
  <1>1. Len(s) \in Nat /\ 1 \in 1 .. Len(s) + 1 /\ n \in 0 .. Len(s) /\ 1 - 1 = 0
        /\ Len(s) \in n .. Len(s)
    OBVIOUS
  <1>2. SubSeq(s, 1, n) \o SubSeq(s, n + 1, Len(s)) = SubSeq(s, 1, Len(s))
    BY <1>1, ConcatAdjacentSubSeq
  <1>3. SubSeq(s, 1, Len(s)) = s
    BY SubSeqFull
  <1>4. SubSeq(s, 1, n) \in Seq(S) /\ Len(SubSeq(s, 1, n)) = n
        /\ SubSeq(s, n + 1, Len(s)) \in Seq(S)
    BY <1>1
  <1>. QED
    BY <1>2, <1>3, <1>4, ZenonT(30)

LEMMA CutOne ==
    ASSUME NEW S, NEW s \in Seq(S), NEW n \in 1 .. Len(s)
    PROVE  SubSeq(s, 1, n) = SubSeq(s, 1, n - 1) \o <<s[n]>>
  <1>1. 1 \in 1 .. Len(s) /\ n \in 1 .. Len(s)
    OBVIOUS
  <1>. QED
    BY <1>1, SubSeqRecursiveSecond

\* What the caller of Feed knows when it holds f.
Returned(o, f) ==
    [kiss |-> f.kiss, out |-> IF f.frame = NoFrame THEN o ELSE Append(o, f.frame)]

\* Feed reads a first part of the bytes: all of them, or up to the end of a
\* frame.
LEMMA FeedReads ==
    ASSUME kiss \in Kisses, NEW s \in Bytes, NEW o \in Seq(Bytes)
    PROVE  \E t \in Bytes :
               /\ s = t \o Feed(s).rest
               /\ Reaches([kiss |-> kiss, out |-> o], t, Returned(o, Feed(s)))
               /\ Feed(s) \in Fed
               /\ Feed(s).frame = NoFrame => Feed(s).rest = << >>
  <1>1. PICK g \in [0 .. Len(s) -> Fed] :
            /\ g[0] = FedFrom(kiss)
            /\ \A i \in 1 .. Len(s) : g[i] = FeedByte(g[i - 1], s[i], SubSeq(s, i + 1, Len(s)))
            /\ Feed(s) = g[Len(s)]
    BY FeedSteps
  <1>2. PICK n \in Nat : n = Len(s)
    BY DEF Bytes
  <1>3. PICK c \in Readers : c = [kiss |-> kiss, out |-> o]
    BY DEF Readers
  <1>. DEFINE At(i, j) == /\ Reaches(c, SubSeq(s, 1, j), Returned(o, g[i]))
                          /\ g[i].frame = NoFrame => j = i
                          /\ i > 0 => g[i].rest = SubSeq(s, j + 1, n)
  <1>. DEFINE S == {i \in 0 .. n : \E j \in 0 .. i : At(i, j)}
  <1>4. 0 \in S
    <2>1. SubSeq(s, 1, 0) = << >>
      BY SubSeqEmpty
    <2>2. Returned(o, g[0]) = c
      BY <1>1, <1>3 DEF Returned, FedFrom
    <2>3. Reaches(c, << >>, c)
      BY ReachesNothing
    <2>4. At(0, 0)
      BY <2>1, <2>2, <2>3, SMTT(30)
    <2>. QED
      BY <1>2, <2>4
  <1>5. ASSUME NEW i \in 0 .. n - 1, i \in S
        PROVE  i + 1 \in S
    <2>1. i + 1 \in 1 .. n /\ (i + 1) - 1 = i /\ i \in 0 .. n /\ i + 1 \in 0 .. n
      BY <1>2
    <2>2. PICK j \in 0 .. i : At(i, j)
      BY <1>5
    <2>3. g[i + 1] = FeedByte(g[i], s[i + 1], SubSeq(s, (i + 1) + 1, n))
      BY <1>1, <1>2, <2>1
    <2>4. CASE g[i].frame # NoFrame
      <3>1. g[i + 1] = g[i]
        BY <2>3, <2>4 DEF FeedByte
      <3>2. i > 0
        BY <1>1, <2>1, <2>4 DEF FedFrom
      <3>3. At(i + 1, j)
        BY <2>2, <2>4, <3>1, <3>2
      <3>. QED
        BY <2>1, <3>3
    <2>5. CASE g[i].frame = NoFrame
      <3>1. j = i /\ s[i + 1] \in Byte /\ g[i] \in Fed
        <4>1. j = i
          BY <2>2, <2>5
        <4>2. s[i + 1] \in Byte
          BY <1>2, <2>1 DEF Bytes
        <4>3. g[i] \in Fed
          BY <1>1, <1>2, <2>1
        <4>. QED
          BY <4>1, <4>2, <4>3
      <3>2. PICK d \in Readers : d = [kiss |-> g[i].kiss, out |-> o]
        BY <3>1 DEF Readers, Fed
      <3>3. Reaches(c, SubSeq(s, 1, i), d)
        BY <2>2, <2>5, <3>1, <3>2 DEF Returned
      <3>4. Reaches(d, <<s[i + 1]>>, ReadByte(d, s[i + 1]))
        BY <3>1, ReachesByte
      <3>5. SubSeq(s, 1, i) \in Bytes /\ <<s[i + 1]>> \in Bytes
        BY <1>2, <2>1, <3>1, Cut DEF Bytes
      <3>6. SubSeq(s, 1, i + 1) = SubSeq(s, 1, i) \o <<s[i + 1]>>
        BY <1>2, <2>1, CutOne DEF Bytes
      <3>7. Reaches(c, SubSeq(s, 1, i + 1), ReadByte(d, s[i + 1]))
        BY <3>3, <3>4, <3>5, <3>6, Compose
      <3>8. g[i + 1] = [frame |-> KissFrame(g[i].kiss, s[i + 1]),
                        kiss |-> KissState(g[i].kiss, s[i + 1]),
                        rest |-> SubSeq(s, (i + 1) + 1, n)]
        BY <2>3, <2>5 DEF FeedByte
      <3>9. ReadByte(d, s[i + 1]) = Returned(o, g[i + 1])
        BY <3>2, <3>8 DEF ReadByte, Returned
      <3>10. At(i + 1, i + 1)
        BY <3>7, <3>8, <3>9
      <3>. QED
        BY <2>1, <3>10
    <2>. QED
      BY <2>4, <2>5
  <1>6. n \in S
    <2>. HIDE DEF S
    <2>1. \A i \in 0 .. n : i \in S
      BY <1>2, <1>4, <1>5, Bounded
    <2>. QED
      BY <1>2, <2>1
  <1>7. PICK j \in 0 .. n : At(n, j)
    BY <1>6
  <1>8. SubSeq(s, 1, j) \in Bytes /\ s = SubSeq(s, 1, j) \o SubSeq(s, j + 1, n)
    BY <1>2, <1>7, Cut DEF Bytes
  <1>9. g[n].rest = SubSeq(s, j + 1, n)
    <2>1. CASE n > 0
      BY <1>7, <2>1
    <2>2. CASE n = 0
      <3>1. g[n].rest = << >> /\ j = 0
        BY <1>1, <2>2 DEF FedFrom
      <3>. QED
        BY <2>2, <3>1, SubSeqEmpty
    <2>. QED
      BY <2>1, <2>2
  <1>10. g[n].frame = NoFrame => g[n].rest = << >>
    BY <1>7, <1>9, SubSeqEmpty
  <1>11. Feed(s) = g[n] /\ g[n] \in Fed
    BY <1>1, <1>2
  <1>. QED
    BY <1>3, <1>7, <1>8, <1>9, <1>10, <1>11

-----------------------------------------------------------------------------
(***************************************************************************)
(* The escapes: the bytes of a frame, each as one byte or as two.          *)
(***************************************************************************)

Plain == Byte \ {FEND}

LEMMA TwoBytes ==
    ASSUME NEW S, NEW a \in S, NEW b \in S
    PROVE  <<a, b>> \in Seq(S) /\ <<a, b>> = <<a>> \o <<b>>
  <1>1. <<a>> \in Seq(S) /\ <<b>> \in Seq(S) /\ <<a, b>> \in Seq(S)
    OBVIOUS
  <1>2. Len(<<a, b>>) = 2 /\ <<a, b>>[1] = a /\ <<a, b>>[2] = b
    OBVIOUS
  <1>3. Len(<<a>>) = 1 /\ Len(<<b>>) = 1 /\ <<a>>[1] = a /\ <<b>>[1] = b
    OBVIOUS
  <1>4. Append(<<a>>, b) = <<a>> \o <<b>>
    BY <1>1, AppendIsConcat
  <1>5. /\ Append(<<a>>, b) \in Seq(S)
        /\ Len(Append(<<a>>, b)) = 2
        /\ Append(<<a>>, b)[1] = a /\ Append(<<a>>, b)[2] = b
    <2>1. 1 \in 1 .. Len(<<a>>)
      BY <1>3
    <2>2. /\ Append(<<a>>, b) \in Seq(S)
          /\ Len(Append(<<a>>, b)) = Len(<<a>>) + 1
          /\ \A i \in 1 .. Len(<<a>>) : Append(<<a>>, b)[i] = <<a>>[i]
          /\ Append(<<a>>, b)[Len(<<a>>) + 1] = b
      BY <1>1, AppendProperties
    <2>. QED
      BY <1>3, <2>1, <2>2
  <1>6. \A i \in 1 .. 2 : <<a, b>>[i] = Append(<<a>>, b)[i]
    <2>1. ASSUME NEW i \in 1 .. 2
          PROVE  i = 1 \/ i = 2
      OBVIOUS
    <2>. QED
      BY <1>2, <1>5, <2>1
  <1>7. <<a, b>> = Append(<<a>>, b)
    <2>. DEFINE s == <<a, b>>
                t == Append(<<a>>, b)
    <2>1. s \in Seq(S) /\ t \in Seq(S) /\ Len(s) = 2 /\ Len(t) = 2
          /\ \A i \in 1 .. 2 : s[i] = t[i]
      BY <1>1, <1>2, <1>5, <1>6
    <2>. HIDE DEF s, t
    <2>. QED
      BY <2>1, SeqEqual DEF s, t
  <1>. QED
    BY <1>1, <1>4, <1>7

LEMMA EscapeOK ==
    ASSUME NEW b \in Byte
    PROVE  /\ Escape(b) \in Seq(Plain) /\ Escape(b) # << >>
           /\ \/ b # FEND /\ b # FESC /\ Escape(b) = <<b>>
              \/ b = FEND /\ Escape(b) = <<FESC>> \o <<TFEND>>
              \/ b = FESC /\ Escape(b) = <<FESC>> \o <<TFESC>>
  <1>1. FESC \in Plain /\ TFEND \in Plain /\ TFESC \in Plain
    BY DEF Plain, Byte, FEND, FESC, TFEND, TFESC
  <1>2. <<FESC, TFEND>> = <<FESC>> \o <<TFEND>> /\ <<FESC, TFESC>> = <<FESC>> \o <<TFESC>>
    BY <1>1, TwoBytes
  <1>3. <<FESC, TFEND>> \in Seq(Plain) /\ <<FESC, TFESC>> \in Seq(Plain)
    BY <1>1, TwoBytes
  <1>4. CASE b = FEND
    BY <1>2, <1>3, <1>4 DEF Escape
  <1>5. CASE b = FESC
    BY <1>2, <1>3, <1>5 DEF Escape, FEND, FESC
  <1>6. CASE b \notin {FEND, FESC}
    <2>1. <<b>> \in Seq(Plain) /\ <<b>> # << >>
      BY <1>6 DEF Plain
    <2>2. Escape(b) = <<b>>
      BY <1>6 DEF Escape
    <2>3. <<b>> # << >>
      BY <2>1
    <2>4. Escape(b) \in Seq(Plain) /\ Escape(b) # << >>
      BY <2>1, <2>2, <2>3, Zenon
    <2>5. b # FEND /\ b # FESC
      BY <1>6
    <2>. QED
      BY <2>2, <2>4, <2>5
  <1>. QED
    BY <1>4, <1>5, <1>6

\* The pieces put together, one after the other.
Flattened(h, ss) ==
    /\ h[1] = ss[1]
    /\ \A i \in 2 .. Len(ss) : h[i] = h[i - 1] \o ss[i]

LEMMA Flatten ==
    ASSUME NEW X, NEW ss \in Seq(Seq(X)), ss # << >>
    PROVE  \E h \in [1 .. Len(ss) -> Seq(X)] :
               Flattened(h, ss) /\ FlattenSeq(ss) = h[Len(ss)]
  <1>1. PICK n \in Nat : n = Len(ss) /\ n >= 1
    OBVIOUS
  <1>2. \A i \in 1 .. n : ss[i] \in Seq(X)
    BY <1>1
  <1>. DEFINE F == [p \in Seq(X) \X Nat |-> IF p[2] \in 1 .. n THEN p[1] \o ss[p[2]] ELSE p[1]]
  <1>3. F \in [Seq(X) \X Nat -> Seq(X)]
    BY <1>2, ConcatProperties
  <1>4. PICK g \in [0 .. n -> Seq(X)] : Follows(g, F, << >>, n)
    <2>1. << >> \in Seq(X)
      OBVIOUS
    <2>. HIDE DEF F
    <2>. QED
      BY <1>1, <1>3, <2>1, Recursion
  <1>5. g[0] = << >> /\ \A i \in 1 .. n : g[i] = F[<<g[i - 1], i>>]
    <2>. HIDE DEF F
    <2>. QED
      BY <1>4 DEF Follows
  <1>6. ASSUME NEW i \in 1 .. n
        PROVE  g[i] = g[i - 1] \o ss[i]
    <2>1. <<g[i - 1], i>> \in Seq(X) \X Nat
      BY <1>4
    <2>2. g[i] = F[<<g[i - 1], i>>]
      BY <1>5
    <2>. QED
      BY <2>1, <2>2
  <1>7. g[1] = ss[1]
    <2>1. 1 \in 1 .. n /\ 1 - 1 = 0
      BY <1>1
    <2>2. g[1] = g[0] \o ss[1]
      BY <1>6, <2>1
    <2>. QED
      BY <1>2, <1>5, <2>1, <2>2, ConcatEmptySeq
  <1>8. PICK e : e = [i \in 1 .. n |-> g[i]]
    OBVIOUS
  <1>. DEFINE G(f) == [i \in 1 .. n |-> IF i = 1 THEN ss[i] ELSE f[i - 1] \o ss[i]]
  <1>9. e = G(e)
    <2>1. ASSUME NEW i \in 1 .. n
          PROVE  e[i] = G(e)[i]
      <3>1. CASE i = 1
        BY <1>7, <1>8, <3>1
      <3>2. CASE i # 1
        <4>1. i - 1 \in 1 .. n
          BY <3>2
        <4>. QED
          BY <1>6, <1>8, <3>2, <4>1
      <3>. QED
        BY <3>1, <3>2
    <2>. QED
      BY <1>8, <2>1
  <1>10. PICK h : h = CHOOSE f : f = G(f)
    OBVIOUS
  <1>11. h = G(h)
    BY <1>9, <1>10, ZenonT(30)
  <1>12. h[1] = ss[1]
    <2>1. 1 \in 1 .. n
      BY <1>1
    <2>. QED
      BY <1>11, <2>1
  <1>13. ASSUME NEW i \in 2 .. n
         PROVE  h[i] = h[i - 1] \o ss[i]
    <2>1. i \in 1 .. n /\ i # 1
      OBVIOUS
    <2>2. G(h)[i] = h[i - 1] \o ss[i]
      BY <2>1
    <2>. HIDE DEF G
    <2>. QED
      BY <1>11, <2>2
  <1>14. \A i \in 0 .. n : i > 0 => h[i] \in Seq(X)
    <2>. DEFINE S == {i \in Nat : i > 0 => h[i] \in Seq(X)}
    <2>1. 0 \in S
      OBVIOUS
    <2>2. ASSUME NEW i \in 0 .. n - 1, i \in S
          PROVE  i + 1 \in S
      <3>1. CASE i = 0
        BY <1>1, <1>2, <1>12, <3>1
      <3>2. CASE i # 0
        <4>1. PICK j \in 2 .. n : j = i + 1 /\ j - 1 = i /\ j \in 1 .. n /\ h[i] \in Seq(X)
          BY <1>1, <2>2, <3>2
        <4>2. h[j] = h[i] \o ss[j] /\ ss[j] \in Seq(X)
          BY <1>2, <1>13, <4>1
        <4>3. PICK v \in Seq(X) : v = h[i] \o ss[j]
          BY <4>1, <4>2, ConcatProperties
        <4>4. h[j] \in Seq(X)
          BY <4>2, <4>3, Zenon
        <4>. QED
          BY <4>1, <4>4
      <3>. QED
        BY <3>1, <3>2
    <2>3. \A i \in 0 .. n : i \in S
      <3>. HIDE DEF S
      <3>. QED
        BY <1>1, <2>1, <2>2, Bounded
    <2>. QED
      BY <2>3
  <1>15. h \in [1 .. n -> Seq(X)]
    <2>1. h = [i \in 1 .. n |-> h[i]]
      <3>1. DOMAIN h = 1 .. n
        BY <1>11
      <3>2. h = [i \in DOMAIN h |-> h[i]]
        BY <1>11
      <3>. QED
        BY <3>1, <3>2
    <2>2. \A i \in 1 .. n : h[i] \in Seq(X)
      BY <1>14
    <2>. QED
      BY <2>1, <2>2
  <1>16. FlattenSeq(ss) = h[n]
    <2>1. Len(ss) # 0 /\ Len(ss) = n
      BY <1>1
    <2>2. FlattenSeq(ss) = LET flatten[i \in 1 .. Len(ss)] ==
                                  IF i = 1 THEN ss[i] ELSE flatten[i - 1] \o ss[i]
                           IN  flatten[Len(ss)]
      BY <2>1, Zenon DEF FlattenSeq
    <2>. QED
      BY <1>10, <2>1, <2>2, Zenon
  <1>17. Flattened(h, ss)
    BY <1>1, <1>12, <1>13 DEF Flattened
  <1>. QED
    BY <1>1, <1>15, <1>16, <1>17

\* The frame's bytes, each escaped.
Escapes(f) == [i \in DOMAIN f |-> Escape(f[i])]

LEMMA EscapesOK ==
    ASSUME NEW f \in Bytes
    PROVE  /\ Escapes(f) \in Seq(Seq(Plain))
           /\ Len(Escapes(f)) = Len(f)
           /\ \A i \in 1 .. Len(f) : Escapes(f)[i] = Escape(f[i])
  <1>1. PICK n \in Nat : n = Len(f) /\ DOMAIN f = 1 .. n
    BY DEF Bytes
  <1>2. \A i \in 1 .. n : f[i] \in Byte
    BY <1>1 DEF Bytes
  <1>3. \A i \in 1 .. n : Escape(f[i]) \in Seq(Plain)
    BY <1>2, EscapeOK
  <1>4. Escapes(f) \in [1 .. n -> Seq(Plain)]
    BY <1>1, <1>3 DEF Escapes
  <1>. QED
    BY <1>1, <1>4 DEF Escapes

LEMMA EscapeNothing == EscapeAll(<< >>) = << >>
  <1>1. Escapes(<< >>) = << >>
    BY DEF Escapes
  <1>2. FlattenSeq(<< >>) = << >>
    BY DEF FlattenSeq
  <1>. QED
    BY <1>1, <1>2 DEF EscapeAll, Escapes

LEMMA EscapeAllOK ==
    ASSUME NEW f \in Bytes
    PROVE  EscapeAll(f) \in Seq(Plain)
  <1>1. CASE f = << >>
    <2>1. << >> \in Seq(Plain)
      OBVIOUS
    <2>. QED
      BY <1>1, <2>1, EscapeNothing
  <1>2. CASE f # << >>
    <2>1. Escapes(f) \in Seq(Seq(Plain)) /\ Escapes(f) # << >>
      <3>1. Len(f) # 0
        BY <1>2 DEF Bytes
      <3>2. Escapes(f) \in Seq(Seq(Plain)) /\ Len(Escapes(f)) # 0
        BY <3>1, EscapesOK
      <3>. QED
        BY <3>2
    <2>2. PICK h \in [1 .. Len(Escapes(f)) -> Seq(Plain)] :
              FlattenSeq(Escapes(f)) = h[Len(Escapes(f))]
      BY <2>1, Flatten
    <2>3. Len(Escapes(f)) \in 1 .. Len(Escapes(f))
      BY <2>1
    <2>. QED
      BY <2>2, <2>3 DEF EscapeAll, Escapes
  <1>. QED
    BY <1>1, <1>2

\* What is escaped of a frame grows by a byte's escape with each byte.
LEMMA EscapeNext ==
    ASSUME NEW f \in Bytes, NEW k \in 1 .. Len(f)
    PROVE  EscapeAll(SubSeq(f, 1, k)) = EscapeAll(SubSeq(f, 1, k - 1)) \o Escape(f[k])
  <1>. DEFINE m == k - 1
  <1>0. m \in 0 .. Len(f) /\ k \in 0 .. Len(f)
    OBVIOUS
  <1>1. PICK p \in Bytes : p = SubSeq(f, 1, k)
    BY <1>0, Cut DEF Bytes
  <1>2. PICK q \in Bytes : q = SubSeq(f, 1, m)
    <2>. HIDE DEF m
    <2>. QED
      BY <1>0, Cut DEF Bytes
  <1>3. Len(p) = k /\ Len(q) = k - 1 /\ k \in Nat /\ k >= 1
        /\ (\A i \in 1 .. k : p[i] = f[i]) /\ (\A i \in 1 .. k - 1 : q[i] = f[i])
    BY <1>1, <1>2 DEF Bytes
  <1>4. PICK ps \in Seq(Seq(Plain)) : ps = Escapes(p)
    BY EscapesOK
  <1>5. PICK qs \in Seq(Seq(Plain)) : qs = Escapes(q)
    BY EscapesOK
  <1>6. Len(ps) = k /\ Len(qs) = k - 1 /\ ps[k] = Escape(f[k])
        /\ (\A i \in 1 .. k : ps[i] = Escape(f[i]))
        /\ (\A i \in 1 .. k - 1 : qs[i] = Escape(f[i]))
    <2>1. Len(ps) = k /\ \A i \in 1 .. k : ps[i] = Escape(p[i])
      BY <1>3, <1>4, EscapesOK
    <2>2. Len(qs) = k - 1 /\ \A i \in 1 .. k - 1 : qs[i] = Escape(q[i])
      BY <1>3, <1>5, EscapesOK
    <2>. QED
      BY <1>3, <2>1, <2>2
  <1>7. PICK hp \in [1 .. k -> Seq(Plain)] : Flattened(hp, ps) /\ FlattenSeq(ps) = hp[k]
    <2>1. ps # << >>
      BY <1>3, <1>6
    <2>. QED
      BY <1>6, <2>1, Flatten
  <1>8. EscapeAll(p) = hp[k] /\ EscapeAll(q) = FlattenSeq(qs)
    BY <1>4, <1>5, <1>7 DEF EscapeAll, Escapes
  <1>9. CASE k = 1
    <2>1. q = << >>
      BY <1>3, <1>9 DEF Bytes
    <2>2. EscapeAll(p) = ps[1] /\ ps[1] = Escape(f[k])
      BY <1>6, <1>7, <1>8, <1>9 DEF Flattened
    <2>3. << >> \o ps[1] = ps[1]
      <3>1. ps[1] \in Seq(Plain)
        BY <1>6, <1>9
      <3>. QED
        BY <3>1, ConcatEmptySeq
    <2>. QED
      BY <1>1, <1>2, <2>1, <2>2, <2>3, EscapeNothing
  <1>10. CASE k # 1
    <2>1. qs # << >> /\ Len(qs) = k - 1
      BY <1>3, <1>6, <1>10
    <2>2. PICK hq \in [1 .. k - 1 -> Seq(Plain)] : Flattened(hq, qs) /\ FlattenSeq(qs) = hq[k - 1]
      BY <2>1, Flatten
    <2>. DEFINE S == {i \in Nat : i > 0 => hp[i] = hq[i]}
    <2>3. 0 \in S
      OBVIOUS
    <2>4. ASSUME NEW i \in 0 .. (k - 1) - 1, i \in S
          PROVE  i + 1 \in S
      <3>1. CASE i = 0
        <4>1. hp[1] = ps[1] /\ hq[1] = qs[1]
          BY <1>7, <2>2 DEF Flattened
        <4>2. ps[1] = qs[1]
          BY <1>3, <1>6, <1>10, SMTT(30)
        <4>. QED
          BY <3>1, <4>1, <4>2
      <3>2. CASE i # 0
        <4>1. PICK j \in 2 .. k - 1 : j = i + 1 /\ j - 1 = i /\ hp[i] = hq[i] /\ j \in 2 .. k
                                     /\ j \in 1 .. k
          BY <1>3, <2>4, <3>2
        <4>2. hp[j] = hp[i] \o ps[j]
          BY <1>6, <1>7, <4>1 DEF Flattened
        <4>3. hq[j] = hq[i] \o qs[j]
          BY <1>6, <2>2, <4>1 DEF Flattened
        <4>4. ps[j] = qs[j]
          <5>1. ps[j] = Escape(f[j])
            BY <1>6, <4>1
          <5>2. qs[j] = Escape(f[j])
            BY <1>6, <4>1
          <5>. QED
            BY <5>1, <5>2
        <4>5. hp[j] = hq[j]
          BY <4>1, <4>2, <4>3, <4>4, Zenon
        <4>. QED
          BY <4>1, <4>5
      <3>. QED
        BY <3>1, <3>2
    <2>5. k - 1 \in S
      <3>. HIDE DEF S
      <3>0. PICK l \in Nat : l = k - 1
        BY <1>3
      <3>1. \A i \in 0 .. l : i \in S
        BY <2>3, <2>4, <3>0, Bounded
      <3>. QED
        BY <3>0, <3>1
    <2>6. hp[k - 1] = FlattenSeq(qs)
      BY <1>3, <1>10, <2>2, <2>5
    <2>7. hp[k] = hp[k - 1] \o ps[k]
      <3>1. k \in 2 .. Len(ps)
        BY <1>3, <1>6, <1>10
      <3>. QED
        BY <1>7, <3>1 DEF Flattened
    <2>. QED
      BY <1>1, <1>2, <1>6, <1>8, <2>6, <2>7
  <1>. QED
    BY <1>9, <1>10

\* So the escapes of a first part are a first part of the escapes.
Begins(a, s) == \E u \in Seq(Plain) : s = a \o u

LEMMA BeginsSelf ==
    ASSUME NEW a \in Seq(Plain)
    PROVE  Begins(a, a)
  <1>1. << >> \in Seq(Plain) /\ a = a \o << >>
    BY ConcatEmptySeq
  <1>. QED
    BY <1>1 DEF Begins

LEMMA BeginsMore ==
    ASSUME NEW a \in Seq(Plain), NEW s, NEW w \in Seq(Plain), Begins(a, s)
    PROVE  Begins(a, s \o w)
  <1>1. PICK u \in Seq(Plain) : s = a \o u
    BY DEF Begins
  <1>2. (a \o u) \o w = a \o (u \o w) /\ u \o w \in Seq(Plain)
    BY ConcatAssociative, ConcatProperties
  <1>. QED
    BY <1>1, <1>2 DEF Begins

LEMMA EscapePrefix ==
    ASSUME NEW f \in Bytes, NEW k \in 0 .. Len(f)
    PROVE  /\ EscapeAll(SubSeq(f, 1, k)) \in Seq(Plain)
           /\ Begins(EscapeAll(SubSeq(f, 1, k)), EscapeAll(f))
  <1>1. PICK n \in Nat : n = Len(f)
    BY DEF Bytes
  <1>2. \A i \in 0 .. n : SubSeq(f, 1, i) \in Bytes /\ EscapeAll(SubSeq(f, 1, i)) \in Seq(Plain)
    BY <1>1, Cut, EscapeAllOK DEF Bytes
  <1>3. PICK a \in Seq(Plain) : a = EscapeAll(SubSeq(f, 1, k))
    BY <1>1, <1>2
  <1>. DEFINE S == {i \in Nat : i >= k => Begins(a, EscapeAll(SubSeq(f, 1, i)))}
  <1>4. ASSUME NEW i \in 0 .. n - 1, i \in S
        PROVE  i + 1 \in S
    <2>0. PICK j \in 1 .. n : j = i + 1 /\ j - 1 = i
      BY <1>1
    <2>1. CASE j < k
      BY <1>1, <2>0, <2>1
    <2>2. CASE j = k
      <3>1. Begins(a, EscapeAll(SubSeq(f, 1, j)))
        BY <1>3, <2>2, BeginsSelf
      <3>. QED
        BY <2>0, <3>1
    <2>3. CASE i >= k
      <3>1. Begins(a, EscapeAll(SubSeq(f, 1, i)))
        BY <1>4, <2>3
      <3>2. EscapeAll(SubSeq(f, 1, j)) = EscapeAll(SubSeq(f, 1, i)) \o Escape(f[j])
        BY <1>1, <2>0, EscapeNext
      <3>3. Escape(f[j]) \in Seq(Plain)
        <4>1. f[j] \in Byte
          BY <1>1 DEF Bytes
        <4>. QED
          BY <4>1, EscapeOK
      <3>4. Begins(a, EscapeAll(SubSeq(f, 1, j)))
        BY <3>1, <3>2, <3>3, BeginsMore
      <3>. QED
        BY <2>0, <3>4
    <2>. QED
      BY <1>1, <2>0, <2>1, <2>2, <2>3
  <1>5. 0 \in S
    <2>1. CASE k = 0
      BY <1>3, <2>1, BeginsSelf
    <2>2. CASE k # 0
      BY <1>1, <2>2
    <2>. QED
      BY <2>1, <2>2
  <1>6. n \in S
    <2>. HIDE DEF S
    <2>1. \A i \in 0 .. n : i \in S
      BY <1>1, <1>4, <1>5, Bounded
    <2>. QED
      BY <1>1, <2>1
  <1>7. SubSeq(f, 1, n) = f
    BY <1>1, SubSeqFull DEF Bytes
  <1>8. n >= k
    BY <1>1
  <1>9. Begins(a, EscapeAll(SubSeq(f, 1, n)))
    BY <1>6, <1>8
  <1>. QED
    BY <1>3, <1>7, <1>9

-----------------------------------------------------------------------------
(***************************************************************************)
(* What a reader makes of bytes among which there is no frame end.         *)
(***************************************************************************)

Ignores(k) == ~k.in_frame \/ Full(k) \/ k.command \notin {CmdData, CmdUnknown}

\* Outside of a frame, in the frame of another command and when the buffer is
\* full, they are skipped.
LEMMA Skipped ==
    ASSUME NEW c \in Readers, Ignores(c.kiss), NEW s \in Seq(Plain)
    PROVE  Reaches(c, s, c)
  <1>1. PICK n \in Nat : n = Len(s)
    OBVIOUS
  <1>2. ASSUME NEW b \in Plain
        PROVE  ReadByte(c, b) = c
    <2>1. b # FEND
      BY DEF Plain
    <2>2. KissState(c.kiss, b) = c.kiss
      <3>1. CASE ~c.kiss.in_frame \/ Full(c.kiss)
        BY <2>1, <3>1 DEF KissState
      <3>2. CASE c.kiss.command \notin {CmdData, CmdUnknown}
        BY <2>1, <3>2 DEF KissState
      <3>. QED
        BY <3>1, <3>2 DEF Ignores
    <2>3. KissFrame(c.kiss, b) = NoFrame
      BY <2>1 DEF KissFrame
    <2>4. c = [kiss |-> c.kiss, out |-> c.out]
      BY DEF Readers
    <2>. QED
      BY <2>2, <2>3, <2>4 DEF ReadByte
  <1>3. PICK r : r = [i \in 0 .. n |-> c]
    OBVIOUS
  <1>4. r \in [0 .. n -> Readers] /\ r[0] = c /\ r[n] = c
    BY <1>1, <1>3
  <1>5. ASSUME NEW i \in 1 .. n
        PROVE  r[i] = ReadByte(r[i - 1], s[i])
    <2>1. s[i] \in Plain /\ r[i] = c /\ r[i - 1] = c
      BY <1>1, <1>3
    <2>. QED
      BY <1>2, <2>1
  <1>6. IsRun(c, s, r)
    BY <1>1, <1>4, <1>5 DEF IsRun
  <1>. QED
    BY <1>1, <1>4, <1>6 DEF Reaches

\* In a frame of ours, with x of it collected and o returned before it.
Holding(c, o, x) ==
    /\ c.kiss.in_frame /\ c.kiss.command = CmdData
    /\ c.kiss.collected = x
    /\ c.out = o

\* One byte that is not a frame end is collected, or it is an escape.
LEMMA HoldingByte ==
    ASSUME NEW c \in Readers, NEW o, NEW x, Holding(c, o, x), ~Full(c.kiss),
           NEW b \in Plain
    PROVE  /\ ReadByte(c, b) \in Readers
           /\ Reaches(c, <<b>>, ReadByte(c, b))
           /\ b = FESC => Holding(ReadByte(c, b), o, x) /\ ReadByte(c, b).kiss.escape
           /\ b # FESC => /\ Holding(ReadByte(c, b), o,
                                     Append(x, IF c.kiss.escape THEN Unescape(b) ELSE b))
                          /\ ~ReadByte(c, b).kiss.escape
  <1>1. b \in Byte /\ b # FEND
    BY DEF Plain
  <1>2. ReadByte(c, b) \in Readers /\ Reaches(c, <<b>>, ReadByte(c, b))
    BY <1>1, ReadByteOK, ReachesByte
  <1>3. PICK k \in Kisses : k = c.kiss
    BY DEF Readers
  <1>4. KissState(k, b) = Collect(k, b)
    BY <1>1, <1>3 DEF KissState, Holding, CmdData, CmdUnknown
  <1>5. ReadByte(c, b) = [kiss |-> Collect(k, b), out |-> c.out]
    BY <1>1, <1>3, <1>4 DEF ReadByte, KissFrame, NoFrame
  <1>6. CASE b = FESC
    <2>1. Collect(k, b) = [k EXCEPT !.escape = TRUE]
      BY <1>6 DEF Collect
    <2>. QED
      BY <1>2, <1>3, <1>5, <1>6, <2>1 DEF Holding, Kisses
  <1>7. CASE b # FESC
    <2>1. PICK y : y = Append(k.collected, IF k.escape THEN Unescape(b) ELSE b)
      OBVIOUS
    <2>2. Collect(k, b) = [k EXCEPT !.collected = y, !.escape = FALSE]
      BY <1>7, <2>1 DEF Collect
    <2>3. Collect(k, b).in_frame = k.in_frame /\ Collect(k, b).command = k.command
          /\ Collect(k, b).collected = y /\ Collect(k, b).escape = FALSE
      BY <2>2 DEF Kisses
    <2>. QED
      BY <1>2, <1>3, <1>5, <1>7, <2>1, <2>3 DEF Holding
  <1>. QED
    BY <1>6, <1>7

\* A lone escape leaves what has been collected.
LEMMA LoneEscape ==
    ASSUME NEW c \in Readers, NEW o, NEW x, Holding(c, o, x)
    PROVE  \E d \in Readers : Reaches(c, <<FESC>>, d) /\ Holding(d, o, x)
  <1>1. FESC \in Plain /\ <<FESC>> \in Seq(Plain)
    BY DEF Plain, Byte, FEND, FESC
  <1>2. CASE Full(c.kiss)
    <2>1. Reaches(c, <<FESC>>, c)
      BY <1>1, <1>2, Skipped DEF Ignores
    <2>. QED
      BY <2>1
  <1>3. CASE ~Full(c.kiss)
    BY <1>1, <1>3, HoldingByte
  <1>. QED
    BY <1>2, <1>3

\* With its escape, every byte is collected as it was; a pending escape does no
\* harm to a byte that is not the second half of one.
LEMMA HoldingEscape ==
    ASSUME NEW c \in Readers, NEW o, NEW x, Holding(c, o, x), ~Full(c.kiss),
           NEW b \in Byte, c.kiss.escape => b \notin {TFEND, TFESC}
    PROVE  \E d \in Readers : /\ Reaches(c, Escape(b), d)
                              /\ Holding(d, o, Append(x, b)) /\ ~d.kiss.escape
  <1>1. CASE b # FEND /\ b # FESC /\ Escape(b) = <<b>>
    <2>1. b \in Plain
      BY <1>1 DEF Plain
    <2>2. (IF c.kiss.escape THEN Unescape(b) ELSE b) = b
      BY DEF Unescape
    <2>. QED
      BY <1>1, <2>1, <2>2, HoldingByte
  <1>2. ASSUME NEW t \in {TFEND, TFESC}, Escape(b) = <<FESC>> \o <<t>>, Unescape(t) = b
        PROVE  \E d \in Readers : /\ Reaches(c, Escape(b), d)
                                  /\ Holding(d, o, Append(x, b)) /\ ~d.kiss.escape
    <2>1. FESC \in Plain /\ t \in Plain /\ t # FESC
      BY DEF Plain, Byte, FEND, FESC, TFEND, TFESC
    <2>2. PICK d \in Readers : Reaches(c, <<FESC>>, d) /\ Holding(d, o, x) /\ d.kiss.escape
      BY <2>1, HoldingByte
    <2>3. ~Full(d.kiss)
      BY <2>2 DEF Holding, Full
    <2>4. PICK e \in Readers : /\ Reaches(d, <<t>>, e)
                               /\ Holding(e, o, Append(x, b)) /\ ~e.kiss.escape
      BY <1>2, <2>1, <2>2, <2>3, HoldingByte
    <2>5. <<FESC>> \in Bytes /\ <<t>> \in Bytes
      BY <2>1 DEF Bytes, Plain
    <2>6. Reaches(c, <<FESC>> \o <<t>>, e)
      BY <2>2, <2>4, <2>5, Compose
    <2>. QED
      BY <1>2, <2>4, <2>6
  <1>3. CASE b = FEND /\ Escape(b) = <<FESC>> \o <<TFEND>>
    <2>1. Unescape(TFEND) = b
      BY <1>3 DEF Unescape
    <2>. QED
      BY <1>2, <1>3, <2>1
  <1>4. CASE b = FESC /\ Escape(b) = <<FESC>> \o <<TFESC>>
    <2>1. Unescape(TFESC) = b
      BY <1>4 DEF Unescape, TFEND, TFESC
    <2>. QED
      BY <1>2, <1>4, <2>1
  <1>. QED
    BY <1>1, <1>3, <1>4, EscapeOK

LEMMA FittingIs ==
    ASSUME NEW f \in Bytes, NEW k \in 0 .. Len(f)
    PROVE  Fitting(SubSeq(f, 1, k)) = SubSeq(f, 1, IF k <= MaxPayload THEN k ELSE MaxPayload)
  <1>1. MaxPayload \in Nat
    BY MaxPayloadAssumption
  <1>2. PICK g \in Bytes : g = SubSeq(f, 1, k) /\ Len(g) = k
    BY Cut DEF Bytes
  <1>3. CASE k <= MaxPayload
    <2>1. Fitting(g) = SubSeq(g, 1, Len(g))
      BY <1>2, <1>3 DEF Fitting
    <2>. QED
      BY <1>2, <1>3, <2>1, SubSeqFull DEF Bytes
  <1>4. CASE ~(k <= MaxPayload)
    <2>1. Fitting(g) = SubSeq(g, 1, MaxPayload)
      BY <1>2, <1>4 DEF Fitting
    <2>2. CASE MaxPayload = 0
      BY <1>2, <1>4, <2>1, <2>2, SubSeqEmpty
    <2>3. CASE MaxPayload # 0
      <3>. DEFINE m == MaxPayload
      <3>1. PICK n \in Nat : n = Len(f)
        BY DEF Bytes
      <3>2. 1 \in 1 .. n /\ k \in 1 .. n /\ 1 \in 1 .. k - 1 + 1 /\ m \in 1 .. k - 1 + 1
            /\ 1 + 1 - 1 = 1 /\ 1 + m - 1 = m
        BY <1>1, <1>4, <2>3, <3>1
      <3>3. SubSeq(SubSeq(f, 1, k), 1, m) = SubSeq(f, 1 + 1 - 1, 1 + m - 1)
        <4>. HIDE DEF m
        <4>. QED
          BY <3>1, <3>2, SubSeqOfSubSeq DEF Bytes
      <3>. QED
        BY <1>2, <1>4, <2>1, <3>2, <3>3
    <2>. QED
      BY <2>2, <2>3
  <1>. QED
    BY <1>2, <1>3, <1>4

\* A frame's bytes, escaped, are collected as they were, as far as they fit.
LEMMA Payload ==
    ASSUME NEW c \in Readers, NEW o, Holding(c, o, << >>),
           NEW f \in Bytes, f # << >> => f[1] \notin {TFEND, TFESC}, NEW m \in 0 .. Len(f)
    PROVE  \E d \in Readers : /\ Reaches(c, EscapeAll(SubSeq(f, 1, m)), d)
                              /\ Holding(d, o, Fitting(SubSeq(f, 1, m)))
  <1>1. PICK n \in Nat : n = Len(f)
    BY DEF Bytes
  <1>2. MaxPayload \in Nat /\ MaxPayload >= 1
    BY MaxPayloadAssumption
  <1>. DEFINE At(k, d) == /\ Reaches(c, EscapeAll(SubSeq(f, 1, k)), d)
                          /\ Holding(d, o, Fitting(SubSeq(f, 1, k)))
                          /\ k > 0 /\ k < MaxPayload => ~d.kiss.escape
              S == {k \in Nat : \E d \in Readers : At(k, d)}
  <1>3. 0 \in S
    <2>1. SubSeq(f, 1, 0) = << >>
      BY SubSeqEmpty
    <2>2. Fitting(SubSeq(f, 1, 0)) = << >>
      <3>1. 0 \in 0 .. Len(f) /\ 0 <= MaxPayload
        BY <1>1, <1>2
      <3>. QED
        BY <2>1, <3>1, FittingIs
    <2>3. EscapeAll(SubSeq(f, 1, 0)) = << >>
      BY <2>1, EscapeNothing
    <2>4. Reaches(c, << >>, c)
      BY ReachesNothing
    <2>5. At(0, c)
      BY <2>2, <2>3, <2>4
    <2>. QED
      BY <2>5
  <1>4. ASSUME NEW k \in 0 .. m - 1, k \in S
        PROVE  k + 1 \in S
    <2>1. PICK j \in 1 .. n : j = k + 1 /\ j - 1 = k /\ j \in 0 .. n /\ k \in 0 .. n
      BY <1>1
    <2>2. PICK d \in Readers : At(k, d)
      BY <1>4
    <2>3. f[j] \in Byte
      BY <1>1, <2>1 DEF Bytes
    <2>4. PICK p \in Seq(Plain) : p = EscapeAll(SubSeq(f, 1, k))
      <3>1. SubSeq(f, 1, k) \in Bytes
        BY <1>1, <2>1, Cut DEF Bytes
      <3>. QED
        BY <3>1, EscapeAllOK
    <2>5. PICK w \in Seq(Plain) : w = Escape(f[j])
      BY <2>3, EscapeOK
    <2>6. EscapeAll(SubSeq(f, 1, j)) = p \o w
      BY <1>1, <2>1, <2>4, <2>5, EscapeNext
    <2>7. p \in Bytes /\ w \in Bytes
      BY DEF Bytes, Plain
    <2>8. Fitting(SubSeq(f, 1, k)) = SubSeq(f, 1, IF k <= MaxPayload THEN k ELSE MaxPayload)
          /\ Fitting(SubSeq(f, 1, j)) = SubSeq(f, 1, IF j <= MaxPayload THEN j ELSE MaxPayload)
      BY <1>1, <2>1, FittingIs
    <2>9. CASE k < MaxPayload
      <3>1. PICK x \in Bytes : x = SubSeq(f, 1, k) /\ Len(x) = k
        BY <1>1, <2>1, Cut, ZenonT(30) DEF Bytes
      <3>2. Holding(d, o, x) /\ ~Full(d.kiss)
        BY <1>2, <2>1, <2>2, <2>8, <2>9, <3>1 DEF Holding, Full
      <3>3. d.kiss.escape => f[j] \notin {TFEND, TFESC}
        <4>1. CASE k = 0
          <5>1. j = 1 /\ f # << >>
            BY <1>1, <2>1, <4>1
          <5>. QED
            BY <5>1
        <4>2. CASE k # 0
          BY <2>1, <2>2, <2>9, <4>2
        <4>. QED
          BY <4>1, <4>2
      <3>4. PICK e \in Readers : /\ Reaches(d, w, e)
                                 /\ Holding(e, o, Append(x, f[j])) /\ ~e.kiss.escape
        BY <2>3, <2>5, <3>2, <3>3, HoldingEscape
      <3>5. Append(x, f[j]) = x \o <<f[j]>>
        BY <2>3, AppendIsConcat DEF Bytes
      <3>6. SubSeq(f, 1, j) = x \o <<f[j]>>
        BY <1>1, <2>1, <3>1, CutOne DEF Bytes
      <3>7. Fitting(SubSeq(f, 1, j)) = Append(x, f[j])
        BY <1>2, <2>1, <2>8, <2>9, <3>5, <3>6
      <3>8. Reaches(c, p \o w, e)
        BY <2>2, <2>4, <2>7, <3>4, Compose
      <3>9. At(j, e)
        BY <2>6, <3>4, <3>7, <3>8
      <3>. QED
        BY <2>1, <3>9
    <2>10. CASE ~(k < MaxPayload)
      <3>1. MaxPayload \in 0 .. Len(f)
        BY <1>1, <1>2, <2>1, <2>10
      <3>2. PICK x \in Bytes : x = SubSeq(f, 1, MaxPayload) /\ Len(x) = MaxPayload
        BY <3>1, Cut DEF Bytes
      <3>3. Fitting(SubSeq(f, 1, k)) = x /\ Fitting(SubSeq(f, 1, j)) = x
        <4>1. CASE k = MaxPayload
          BY <1>2, <2>1, <2>8, <2>10, <3>2, <4>1
        <4>2. CASE k # MaxPayload
          BY <1>2, <2>1, <2>8, <2>10, <3>2, <4>2
        <4>. QED
          BY <4>1, <4>2
      <3>4. Full(d.kiss)
        BY <1>2, <2>2, <3>2, <3>3 DEF Holding, Full
      <3>5. Reaches(d, w, d)
        BY <3>4, Skipped DEF Ignores
      <3>6. Reaches(c, p \o w, d)
        BY <2>2, <2>4, <2>7, <3>5, Compose
      <3>7. ~(j < MaxPayload)
        BY <1>2, <2>1, <2>10
      <3>8. At(j, d)
        BY <2>2, <2>6, <3>3, <3>6, <3>7
      <3>. QED
        BY <2>1, <3>8
    <2>. QED
      BY <2>9, <2>10
  <1>5. m \in S
    <2>. HIDE DEF S
    <2>1. \A k \in 0 .. m : k \in S
      BY <1>1, <1>3, <1>4, Bounded
    <2>. QED
      BY <1>1, <2>1
  <1>. QED
    BY <1>5

LEMMA FirstPart ==
    ASSUME NEW S, NEW a \in Seq(S), NEW u \in Seq(S)
    PROVE  SubSeq(a \o u, 1, Len(a)) = a
  <1>1. PICK n \in Nat : n = Len(a)
    OBVIOUS
  <1>2. CASE n = 0
    <2>1. a = << >>
      BY <1>1, <1>2, EmptySeq
    <2>. QED
      BY <1>1, <1>2, <2>1, SubSeqEmpty
  <1>3. CASE n # 0
    <2>1. 1 \in 1 .. Len(a) /\ n \in 1 .. Len(a)
      BY <1>1, <1>3
    <2>2. SubSeq(a \o u, 1, n) = SubSeq(a, 1, n)
      BY <2>1, SubSeqOfConcat1
    <2>. QED
      BY <1>1, <2>2, SubSeqFull
  <1>. QED
    BY <1>2, <1>3

LEMMA OneByte ==
    ASSUME NEW S, NEW b \in S
    PROVE  <<b>> \in Seq(S) /\ Len(<<b>>) = 1
  OBVIOUS

Associate(a, e, v) == (a \o e) \o v = a \o (e \o v)

LEMMA Associative ==
    ASSUME NEW S, NEW a \in Seq(S), NEW e \in Seq(S), NEW v \in Seq(S)
    PROVE  Associate(a, e, v)
  BY ConcatAssociative DEF Associate

\* What got through of the escapes: those of a first part of the frame, and
\* perhaps one half of the next.  Arrived tells that part from the lengths.
LEMMA Arrives ==
    ASSUME NEW f \in Bytes, NEW m \in 0 .. Len(EscapeAll(f))
    PROVE  \E k \in 0 .. Len(f) :
               /\ Arrived(f, m + 2) = Fitting(SubSeq(f, 1, k))
               /\ \/ SubSeq(EscapeAll(f), 1, m) = EscapeAll(SubSeq(f, 1, k))
                  \/ SubSeq(EscapeAll(f), 1, m) = EscapeAll(SubSeq(f, 1, k)) \o <<FESC>>
  <1>1. PICK n \in Nat : n = Len(f)
    BY DEF Bytes
  <1>2. PICK E \in Seq(Plain) : E = EscapeAll(f)
    BY EscapeAllOK
  <1>. DEFINE L(k) == Len(EscapeAll(SubSeq(f, 1, k)))
              whole == {k \in 0 .. n : L(k) <= (m + 2) - 2}
              IsLast(k) == \A i \in whole : i <= k
  <1>3. m \in Nat /\ (m + 2) - 2 = m
    BY <1>2
  <1>4. \A k \in 0 .. n : EscapeAll(SubSeq(f, 1, k)) \in Seq(Plain) /\ L(k) \in Nat
    <2>1. ASSUME NEW k \in 0 .. n
          PROVE  EscapeAll(SubSeq(f, 1, k)) \in Seq(Plain) /\ L(k) \in Nat
      <3>1. EscapeAll(SubSeq(f, 1, k)) \in Seq(Plain)
        BY <1>1, EscapePrefix
      <3>. QED
        BY <3>1
    <2>. QED
      BY <2>1
  <1>5. 0 \in whole
    <2>1. SubSeq(f, 1, 0) = << >>
      BY SubSeqEmpty
    <2>2. L(0) = 0
      <3>1. Len(<< >>) = 0
        OBVIOUS
      <3>. QED
        BY <2>1, <3>1, EscapeNothing
    <2>. QED
      BY <1>1, <1>3, <2>2
  <1>6. \E k \in whole : IsLast(k)
    <2>. DEFINE T == {n - k : k \in whole}
    <2>1. T \subseteq Nat /\ T # {}
      BY <1>1, <1>5
    <2>2. PICK t \in T : \A u \in T : t <= u
      <3>. HIDE DEF T
      <3>. QED
        BY <2>1, LeastElement
    <2>3. PICK k \in whole : t = n - k
      BY <2>2
    <2>4. ASSUME NEW i \in whole
          PROVE  i <= k
      <3>1. n - i \in T
        OBVIOUS
      <3>2. n - k <= n - i
        BY <2>2, <2>3, <3>1
      <3>. QED
        BY <1>1, <3>2
    <2>. QED
      BY <2>4
  <1>7. PICK k \in whole : IsLast(k) /\ k = CHOOSE j \in whole : IsLast(j)
    <2>. HIDE DEF whole
    <2>. QED
      BY <1>6
  <1>8. Arrived(f, m + 2) = Fitting(SubSeq(f, 1, k))
    BY <1>1, <1>7, Zenon DEF Arrived
  <1>9. PICK a \in Seq(Plain) : a = EscapeAll(SubSeq(f, 1, k)) /\ Len(a) <= m
    BY <1>3, <1>4
  <1>10. CASE k = n
    <2>1. SubSeq(f, 1, n) = f
      BY <1>1, SubSeqFull DEF Bytes
    <2>2. a = E
      BY <1>2, <1>9, <1>10, <2>1
    <2>3. m = Len(E)
      BY <1>2, <1>3, <1>9, <2>2
    <2>4. SubSeq(E, 1, m) = E
      BY <2>3, SubSeqFull
    <2>. QED
      BY <1>1, <1>2, <1>8, <1>9, <2>2, <2>4
  <1>11. CASE k # n
    <2>1. PICK j \in 1 .. n : j = k + 1 /\ j - 1 = k /\ j \in 0 .. n
      BY <1>1, <1>11
    <2>2. PICK b \in Byte : b = f[j]
      BY <1>1, <2>1 DEF Bytes
    <2>3. PICK w \in Seq(Plain) : w = Escape(b)
      BY EscapeOK
    <2>4. EscapeAll(SubSeq(f, 1, j)) = a \o w
      BY <1>1, <1>9, <2>1, <2>2, <2>3, EscapeNext
    <2>5. PICK u \in Seq(Plain) : E = (a \o w) \o u
      <3>1. Begins(EscapeAll(SubSeq(f, 1, j)), E)
        BY <1>1, <1>2, <2>1, EscapePrefix
      <3>. QED
        BY <2>4, <3>1 DEF Begins
    <2>6. Len(a) + Len(w) > m
      <3>1. ~(j <= k) /\ j \notin whole
        BY <1>7, <2>1, SMTT(30)
      <3>2. L(j) > m
        BY <1>3, <1>4, <2>1, <3>1
      <3>3. L(j) = Len(a) + Len(w)
        BY <2>4, ConcatProperties
      <3>. QED
        BY <3>2, <3>3
    <2>7. CASE m = Len(a)
      <3>1. E = a \o (w \o u) /\ w \o u \in Seq(Plain)
        BY <2>5, ConcatAssociative, ConcatProperties, SMTT(30)
      <3>2. SubSeq(E, 1, m) = a
        BY <2>7, <3>1, FirstPart
      <3>. QED
        BY <1>1, <1>2, <1>8, <1>9, <3>2
    <2>8. CASE m # Len(a)
      <3>1. Len(w) >= 2 /\ Len(w) \in Nat
        BY <1>3, <1>9, <2>6, <2>8
      <3>2. PICK t \in Plain : w = <<FESC>> \o <<t>> /\ FESC \in Plain
        <4>1. TFEND \in Plain /\ TFESC \in Plain /\ FESC \in Plain
          BY DEF Plain, Byte, FEND, FESC, TFEND, TFESC
        <4>2. w # <<b>>
          <5>1. Len(<<b>>) = 1
            BY OneByte
          <5>2. ASSUME w = <<b>>
                PROVE  Len(w) = 1
            BY <5>1, <5>2, Zenon
          <5>3. Len(w) # 1
            BY <3>1
          <5>. QED
            BY <5>2, <5>3, Zenon
        <4>. QED
          BY <2>3, <4>1, <4>2, EscapeOK
      <3>3. PICK e \in Seq(Plain) : e = <<FESC>> /\ Len(e) = 1
        BY <3>2, OneByte
      <3>4. PICK v \in Seq(Plain) : v = <<t>> /\ Len(v) = 1
        BY OneByte
      <3>5. m = Len(a) + 1
        <4>1. Len(w) = 2
          BY <3>2, <3>3, <3>4, ConcatProperties
        <4>. QED
          BY <1>3, <1>9, <2>6, <2>8, <4>1
      <3>6. PICK z \in Seq(Plain) : z = a \o e /\ Len(z) = m
        <4>1. a \o e \in Seq(Plain) /\ Len(a \o e) = Len(a) + Len(e)
          BY ConcatProperties
        <4>. QED
          BY <3>3, <3>5, <4>1
      <3>7. E = z \o (v \o u) /\ v \o u \in Seq(Plain)
        <4>1. w = e \o v
          BY <3>2, <3>3, <3>4
        <4>2. Associate(a, e, v) /\ Associate(z, v, u)
          BY Associative
        <4>3. v \o u \in Seq(Plain)
          BY ConcatProperties
        <4>. QED
          BY <2>5, <3>6, <4>1, <4>2, <4>3, Zenon DEF Associate
      <3>8. SubSeq(E, 1, m) = z
        BY <3>6, <3>7, FirstPart
      <3>. QED
        BY <1>1, <1>2, <1>8, <1>9, <3>3, <3>6, <3>8
    <2>. QED
      BY <2>7, <2>8
  <1>. QED
    BY <1>10, <1>11

-----------------------------------------------------------------------------
(***************************************************************************)
(* What a reader makes of a frame, whole or cut, after whatever came before*)
(***************************************************************************)

Started(k) == k.in_frame /\ k.command = CmdUnknown /\ k.collected = << >>
Between(k) == ~k.in_frame \/ Started(k)

\* A frame end that does not end a frame of ours starts one.
LEMMA StartOfFrame ==
    ASSUME NEW c \in Readers, ~(c.kiss.in_frame /\ c.kiss.command = CmdData)
    PROVE  \E d \in Readers : /\ Reaches(c, <<FEND>>, d)
                              /\ d.out = c.out /\ Started(d.kiss)
  <1>1. FEND \in Byte
    BY DEF FEND, Byte
  <1>2. PICK k \in Kisses : k = c.kiss
    BY DEF Readers
  <1>3. PICK d \in Readers : d = ReadByte(c, FEND) /\ Reaches(c, <<FEND>>, d)
    BY <1>1, ReadByteOK, ReachesByte
  <1>4. KissFrame(k, FEND) = NoFrame
    BY <1>2 DEF KissFrame
  <1>5. KissState(k, FEND) = [k EXCEPT !.in_frame = TRUE, !.command = CmdUnknown,
                                       !.collected = << >>]
    BY <1>2 DEF KissState
  <1>6. d.out = c.out /\ d.kiss = KissState(k, FEND)
    BY <1>2, <1>3, <1>4 DEF ReadByte
  <1>7. Started(d.kiss)
    BY <1>5, <1>6 DEF Started, Kisses
  <1>. QED
    BY <1>3, <1>6, <1>7

\* The frame end that ends one returns it, unless it is empty.
LEMMA EndOfFrame ==
    ASSUME NEW c \in Readers, NEW o, NEW x, Holding(c, o, x)
    PROVE  \E d \in Readers : /\ Reaches(c, <<FEND>>, d) /\ ~d.kiss.in_frame
                              /\ d.out = IF x = << >> THEN o ELSE Append(o, x)
  <1>1. FEND \in Byte
    BY DEF FEND, Byte
  <1>2. PICK k \in Kisses : k = c.kiss
    BY DEF Readers
  <1>3. PICK d \in Readers : d = ReadByte(c, FEND) /\ Reaches(c, <<FEND>>, d)
    BY <1>1, ReadByteOK, ReachesByte
  <1>4. KissFrame(k, FEND) = x
    BY <1>2 DEF KissFrame, Holding
  <1>5. KissState(k, FEND) = [k EXCEPT !.in_frame = FALSE]
    BY <1>2 DEF KissState, Holding
  <1>6. d.kiss = KissState(k, FEND)
        /\ d.out = IF x = << >> THEN o ELSE Append(o, x)
    BY <1>2, <1>3, <1>4 DEF ReadByte, NoFrame, Holding
  <1>7. ~d.kiss.in_frame
    BY <1>5, <1>6 DEF Kisses
  <1>. QED
    BY <1>3, <1>6, <1>7

LEMMA CommandOfFrame ==
    ASSUME NEW c \in Readers, Started(c.kiss), NEW b \in Plain
    PROVE  \E d \in Readers : /\ Reaches(c, <<b>>, d) /\ d.out = c.out
                              /\ d.kiss.in_frame /\ d.kiss.collected = << >>
                              /\ d.kiss.command = b % 16
  <1>1. b \in Byte /\ b # FEND
    BY DEF Plain
  <1>2. PICK k \in Kisses : k = c.kiss
    BY DEF Readers
  <1>3. PICK d \in Readers : d = ReadByte(c, b) /\ Reaches(c, <<b>>, d)
    BY <1>1, ReadByteOK, ReachesByte
  <1>4. ~Full(k)
    <2>1. Len(<< >>) = 0
      OBVIOUS
    <2>2. k.collected = << >>
      BY <1>2 DEF Started
    <2>3. ~(0 >= MaxPayload)
      BY MaxPayloadAssumption
    <2>. QED
      BY <2>1, <2>2, <2>3 DEF Full
  <1>5. KissState(k, b) = [k EXCEPT !.command = b % 16]
    BY <1>1, <1>2, <1>4 DEF KissState, Started
  <1>6. KissFrame(k, b) = NoFrame
    BY <1>1 DEF KissFrame
  <1>7. d.out = c.out /\ d.kiss = KissState(k, b)
    BY <1>2, <1>3, <1>6 DEF ReadByte
  <1>8. d.kiss.in_frame /\ d.kiss.collected = << >> /\ d.kiss.command = b % 16
    BY <1>2, <1>5, <1>7 DEF Started, Kisses
  <1>. QED
    BY <1>3, <1>7, <1>8

\* A first part of three pieces that ends in the second.
EndsInSecond(h, e, t, m, n) == SubSeq((h \o e) \o t, 1, n) = h \o SubSeq(e, 1, m)

LEMMA FirstOfThree ==
    ASSUME NEW S, NEW h \in Seq(S), NEW e \in Seq(S), NEW t \in Seq(S), NEW m \in 0 .. Len(e),
           NEW n, n = Len(h) + m
    PROVE  EndsInSecond(h, e, t, m, n)
  <1>0. PICK p \in Seq(S) : p = SubSeq(e, 1, m) /\ Len(p) = m
    BY Cut
  <1>1. PICK q \in Seq(S) : e = p \o q
    <2>1. PICK q : q = SubSeq(e, m + 1, Len(e))
      OBVIOUS
    <2>2. q \in Seq(S) /\ e = SubSeq(e, 1, m) \o q
      BY <2>1, Cut
    <2>. QED
      BY <1>0, <2>2, Zenon
  <1>2. PICK r \in Seq(S) : r = h \o p /\ Len(r) = n
    <2>1. h \o p \in Seq(S) /\ Len(h \o p) = Len(h) + Len(p)
      BY ConcatProperties
    <2>. QED
      BY <1>0, <2>1
  <1>3. Associate(h, p, q) /\ Associate(r, q, t)
    BY Associative
  <1>4. q \o t \in Seq(S)
    BY ConcatProperties
  <1>5. (h \o e) \o t = r \o (q \o t)
    BY <1>1, <1>2, <1>3, Zenon DEF Associate
  <1>6. SubSeq(r \o (q \o t), 1, Len(r)) = r
    BY <1>4, FirstPart
  <1>. QED
    BY <1>0, <1>2, <1>5, <1>6, Zenon DEF EndsInSecond

\* What a frame looks like on the wire, and the parts of it that a cut leaves.
LEMMA Encoded ==
    ASSUME NEW f \in Bytes, NEW b \in Byte
    PROVE  \E e \in Seq(Plain) :
               /\ e = EscapeAll(f)
               /\ Encode(b, f) = ((<<FEND>> \o <<b>>) \o e) \o <<FEND>>
               /\ Encode(b, f) \in Bytes
               /\ Len(Encode(b, f)) = Len(e) + 3
               /\ SubSeq(Encode(b, f), 1, Len(e) + 3) = Encode(b, f)
               /\ SubSeq(Encode(b, f), 1, 1) = <<FEND>>
               /\ \A m \in 0 .. Len(e) :
                      SubSeq(Encode(b, f), 1, m + 2) = (<<FEND>> \o <<b>>) \o SubSeq(e, 1, m)
  <1>1. PICK e \in Seq(Plain) : e = EscapeAll(f) /\ e \in Bytes
    <2>1. EscapeAll(f) \in Seq(Plain)
      BY EscapeAllOK
    <2>. QED
      BY <2>1 DEF Plain, Bytes
  <1>2. PICK z \in Bytes : z = <<FEND>> /\ Len(z) = 1
    <2>1. FEND \in Byte
      BY DEF Byte, FEND
    <2>. QED
      BY <2>1, OneByte DEF Bytes
  <1>3. PICK y \in Bytes : y = <<b>> /\ Len(y) = 1
    BY OneByte DEF Bytes
  <1>4. PICK h \in Bytes : h = z \o y /\ h = <<FEND, b>> /\ Len(h) = 2
    <2>1. FEND \in Byte
      BY DEF Byte, FEND
    <2>2. <<FEND, b>> = <<FEND>> \o <<b>>
      BY <2>1, TwoBytes
    <2>3. z \o y \in Bytes /\ Len(z \o y) = Len(z) + Len(y)
      BY ConcatProperties DEF Bytes
    <2>. QED
      BY <1>2, <1>3, <2>2, <2>3
  <1>5. PICK w \in Bytes : w = (h \o e) \o z /\ Len(w) = Len(e) + 3
    <2>1. h \o e \in Bytes /\ Len(h \o e) = Len(h) + Len(e)
      BY <1>1, ConcatProperties DEF Bytes
    <2>2. PICK v \in Bytes : v = h \o e /\ Len(v) = Len(h) + Len(e)
      BY <2>1
    <2>3. v \o z \in Bytes /\ Len(v \o z) = Len(v) + Len(z)
      BY ConcatProperties DEF Bytes
    <2>4. Len(v \o z) = Len(e) + 3
      <3>1. Len(e) \in Nat
        OBVIOUS
      <3>. QED
        BY <1>2, <1>4, <2>2, <2>3, <3>1
    <2>. QED
      BY <2>2, <2>3, <2>4
  <1>6. Encode(b, f) = w
    BY <1>1, <1>2, <1>4, <1>5, Zenon DEF Encode
  <1>7. SubSeq(w, 1, Len(e) + 3) = w
    BY <1>5, SubSeqFull DEF Bytes
  <1>8. \A m \in 0 .. Len(e) : SubSeq(w, 1, m + 2) = h \o SubSeq(e, 1, m)
    <2>1. ASSUME NEW m \in 0 .. Len(e)
          PROVE  SubSeq(w, 1, m + 2) = h \o SubSeq(e, 1, m)
      <3>1. m + 2 = Len(h) + m
        BY <1>1, <1>4
      <3>2. EndsInSecond(h, e, z, m, m + 2)
        BY <1>1, <3>1, FirstOfThree DEF Bytes
      <3>. QED
        BY <1>5, <3>2, Zenon DEF EndsInSecond
    <2>. QED
      BY <2>1
  <1>9. SubSeq(w, 1, 1) = z
    <2>1. Associate(z, y, e)
      BY <1>1, Associative DEF Bytes
    <2>2. y \o e \in Bytes
      BY <1>1, ConcatProperties DEF Bytes
    <2>3. Associate(z, y \o e, z) /\ (y \o e) \o z \in Bytes
      BY <2>2, Associative, ConcatProperties DEF Bytes
    <2>4. w = z \o ((y \o e) \o z)
      BY <1>4, <1>5, <2>1, <2>3, Zenon DEF Associate
    <2>5. SubSeq(z \o ((y \o e) \o z), 1, Len(z)) = z
      BY <2>3, FirstPart DEF Bytes
    <2>. QED
      BY <1>2, <2>4, <2>5
  <1>. QED
    BY <1>1, <1>2, <1>3, <1>4, <1>5, <1>6, <1>7, <1>8, <1>9

LEMMA PlainIsBytes ==
    ASSUME NEW s \in Seq(Plain)
    PROVE  s \in Bytes
  BY DEF Plain, Bytes

LEMMA EndIsByte == FEND \in Byte /\ <<FEND>> \in Bytes
  <1>1. FEND \in Byte
    BY DEF Byte, FEND
  <1>. QED
    BY <1>1, OneByte DEF Bytes

\* The first two bytes of a frame.
LEMMA FrameBegins ==
    ASSUME NEW c \in Readers, Between(c.kiss), NEW b \in Plain
    PROVE  \E d \in Readers : /\ Reaches(c, <<FEND>> \o <<b>>, d) /\ d.out = c.out
                              /\ d.kiss.in_frame /\ d.kiss.collected = << >>
                              /\ d.kiss.command = b % 16
  <1>1. ~(c.kiss.in_frame /\ c.kiss.command = CmdData)
    BY DEF Between, Started, CmdData, CmdUnknown
  <1>2. PICK d \in Readers : Reaches(c, <<FEND>>, d) /\ d.out = c.out /\ Started(d.kiss)
    BY <1>1, StartOfFrame
  <1>3. PICK e \in Readers : /\ Reaches(d, <<b>>, e) /\ e.out = d.out
                             /\ e.kiss.in_frame /\ e.kiss.collected = << >>
                             /\ e.kiss.command = b % 16
    BY <1>2, CommandOfFrame
  <1>4. <<b>> \in Bytes
    BY OneByte, PlainIsBytes
  <1>5. Reaches(c, <<FEND>> \o <<b>>, e)
    BY <1>2, <1>3, <1>4, EndIsByte, Compose
  <1>. QED
    BY <1>2, <1>3, <1>5

\* Behind a frame that was cut: its bytes are returned at the first byte of
\* this one, and all of this one is lost.
LEMMA ReadsAfterCut ==
    ASSUME NEW c \in Readers, NEW o, NEW x, Holding(c, o, x),
           NEW f \in Bytes, NEW b \in Plain, NEW n \in 1 .. Len(Encode(b, f))
    PROVE  \E d \in Readers : /\ Reaches(c, SubSeq(Encode(b, f), 1, n), d)
                              /\ Between(d.kiss)
                              /\ d.out = IF x = << >> THEN o ELSE Append(o, x)
  <1>1. b \in Byte
    BY DEF Plain
  <1>2. PICK E \in Seq(Plain) :
            /\ Encode(b, f) = ((<<FEND>> \o <<b>>) \o E) \o <<FEND>>
            /\ Len(Encode(b, f)) = Len(E) + 3
            /\ SubSeq(Encode(b, f), 1, Len(E) + 3) = Encode(b, f)
            /\ SubSeq(Encode(b, f), 1, 1) = <<FEND>>
            /\ \A m \in 0 .. Len(E) :
                   SubSeq(Encode(b, f), 1, m + 2) = (<<FEND>> \o <<b>>) \o SubSeq(E, 1, m)
    BY <1>1, Encoded
  <1>3. PICK d \in Readers : /\ Reaches(c, <<FEND>>, d) /\ ~d.kiss.in_frame
                             /\ d.out = IF x = << >> THEN o ELSE Append(o, x)
    BY EndOfFrame
  <1>4. ASSUME NEW s \in Seq(Plain)
        PROVE  Reaches(c, (<<FEND>> \o <<b>>) \o s, d)
    <2>1. PICK y \in Seq(Plain) : y = <<b>>
      BY OneByte
    <2>2. y \o s \in Seq(Plain)
      BY ConcatProperties
    <2>3. Reaches(d, y \o s, d)
      BY <1>3, <2>2, Skipped DEF Ignores
    <2>4. Reaches(c, <<FEND>> \o (y \o s), d)
      BY <1>3, <2>2, <2>3, EndIsByte, PlainIsBytes, Compose
    <2>5. Associate(<<FEND>>, y, s)
      <3>1. y \in Seq(Byte) /\ s \in Seq(Byte) /\ <<FEND>> \in Seq(Byte)
        BY EndIsByte, PlainIsBytes DEF Bytes
      <3>. QED
        BY <3>1, Associative
    <2>. QED
      BY <2>1, <2>4, <2>5, Zenon DEF Associate
  <1>5. Between(d.kiss)
    BY <1>3 DEF Between
  <1>6. CASE n = 1
    BY <1>2, <1>3, <1>5, <1>6
  <1>7. CASE n \in 2 .. Len(E) + 2
    <2>1. PICK m \in 0 .. Len(E) : n = m + 2
      <3>1. n - 2 \in 0 .. Len(E) /\ n = (n - 2) + 2
        BY <1>7
      <3>. QED
        BY <3>1
    <2>2. SubSeq(E, 1, m) \in Seq(Plain)
      BY Cut
    <2>3. SubSeq(Encode(b, f), 1, n) = (<<FEND>> \o <<b>>) \o SubSeq(E, 1, m)
      BY <1>2, <2>1
    <2>. QED
      BY <1>3, <1>4, <1>5, <2>2, <2>3
  <1>8. CASE n = Len(E) + 3
    <2>1. Reaches(c, (<<FEND>> \o <<b>>) \o E, d)
      BY <1>4
    <2>2. PICK e \in Readers : Reaches(d, <<FEND>>, e) /\ e.out = d.out /\ Started(e.kiss)
      BY <1>3, StartOfFrame
    <2>3. (<<FEND>> \o <<b>>) \o E \in Bytes
      <3>1. PICK y \in Bytes : y = <<b>>
        BY <1>1, OneByte DEF Bytes
      <3>2. PICK h \in Bytes : h = <<FEND>> \o y
        BY EndIsByte, ConcatProperties DEF Bytes
      <3>3. h \o E \in Bytes
        BY PlainIsBytes, ConcatProperties DEF Bytes
      <3>. QED
        BY <3>1, <3>2, <3>3
    <2>4. Reaches(c, ((<<FEND>> \o <<b>>) \o E) \o <<FEND>>, e)
      BY <2>1, <2>2, <2>3, EndIsByte, Compose
    <2>5. Between(e.kiss) /\ e.out = d.out
      BY <2>2 DEF Between
    <2>. QED
      BY <1>2, <1>3, <1>8, <2>4, <2>5
  <1>9. n = 1 \/ n \in 2 .. Len(E) + 2 \/ n = Len(E) + 3
    <2>1. Len(E) \in Nat
      OBVIOUS
    <2>. QED
      BY <1>2, <2>1
  <1>. QED
    BY <1>6, <1>7, <1>8, <1>9

\* A frame of ours, after its command and the escapes of it that got through.
LEMMA ReadsFrame ==
    ASSUME NEW c \in Readers, Between(c.kiss),
           NEW f \in Bytes, f # << >> => f[1] \notin {TFEND, TFESC}, NEW k \in 0 .. Len(f)
    PROVE  /\ (<<FEND>> \o <<CmdData>>) \o EscapeAll(SubSeq(f, 1, k)) \in Bytes
           /\ \E d \in Readers :
                  /\ Reaches(c, (<<FEND>> \o <<CmdData>>) \o EscapeAll(SubSeq(f, 1, k)), d)
                  /\ Holding(d, c.out, Fitting(SubSeq(f, 1, k)))
  <1>1. CmdData \in Plain /\ CmdData \in Byte /\ CmdData % 16 = CmdData
    BY DEF CmdData, Plain, Byte, FEND
  <1>2. PICK h \in Bytes : h = <<FEND>> \o <<CmdData>>
    <2>1. PICK y \in Bytes : y = <<CmdData>>
      BY <1>1, OneByte DEF Bytes
    <2>2. <<FEND>> \o y \in Bytes
      BY EndIsByte, ConcatProperties DEF Bytes
    <2>. QED
      BY <2>1, <2>2
  <1>3. PICK d \in Readers : /\ Reaches(c, h, d) /\ d.out = c.out
                             /\ d.kiss.in_frame /\ d.kiss.collected = << >>
                             /\ d.kiss.command = CmdData
    BY <1>1, <1>2, FrameBegins
  <1>4. PICK e \in Readers : /\ Reaches(d, EscapeAll(SubSeq(f, 1, k)), e)
                             /\ Holding(e, c.out, Fitting(SubSeq(f, 1, k)))
    <2>1. Holding(d, c.out, << >>)
      BY <1>3 DEF Holding
    <2>. QED
      BY <2>1, Payload
  <1>5. EscapeAll(SubSeq(f, 1, k)) \in Bytes
    BY EscapePrefix, PlainIsBytes
  <1>6. Reaches(c, h \o EscapeAll(SubSeq(f, 1, k)), e)
    BY <1>3, <1>4, <1>5, Compose
  <1>7. h \o EscapeAll(SubSeq(f, 1, k)) \in Bytes
    BY <1>5, ConcatProperties DEF Bytes
  <1>. QED
    BY <1>2, <1>4, <1>6, <1>7

LEMMA ReadsWhole ==
    ASSUME NEW c \in Readers, Between(c.kiss),
           NEW f \in Bytes, f # << >>, f[1] \notin {TFEND, TFESC}
    PROVE  \E d \in Readers : /\ Reaches(c, Encode(CmdData, f), d) /\ Between(d.kiss)
                              /\ d.out = Append(c.out, Fitting(f))
  <1>0. PICK n \in Nat : n = Len(f) /\ n # 0
    BY DEF Bytes
  <1>1. n = Len(f) /\ n \in 0 .. n /\ n >= 1 /\ SubSeq(f, 1, n) = f
    <2>1. SubSeq(f, 1, n) = f
      BY <1>0, SubSeqFull DEF Bytes
    <2>. QED
      BY <1>0, <2>1
  <1>2. PICK s \in Bytes : s = (<<FEND>> \o <<CmdData>>) \o EscapeAll(f)
    BY <1>1, ReadsFrame
  <1>3. PICK d \in Readers : Reaches(c, s, d) /\ Holding(d, c.out, Fitting(f))
    BY <1>1, <1>2, ReadsFrame
  <1>4. PICK e \in Readers : /\ Reaches(d, <<FEND>>, e) /\ ~e.kiss.in_frame
                             /\ e.out = IF Fitting(f) = << >> THEN c.out
                                        ELSE Append(c.out, Fitting(f))
    BY <1>3, EndOfFrame
  <1>5. Fitting(f) # << >>
    <2>1. MaxPayload \in Nat /\ MaxPayload >= 1
      BY MaxPayloadAssumption
    <2>2. PICK m \in 1 .. n : Fitting(f) = SubSeq(f, 1, m)
      BY <1>1, <2>1 DEF Fitting
    <2>3. Len(SubSeq(f, 1, m)) = m
      BY <1>1, Cut DEF Bytes
    <2>4. Len(<< >>) = 0
      OBVIOUS
    <2>. QED
      BY <2>2, <2>3, <2>4
  <1>6. Reaches(c, s \o <<FEND>>, e)
    BY <1>3, <1>4, EndIsByte, Compose
  <1>7. Encode(CmdData, f) = s \o <<FEND>>
    <2>1. CmdData \in Byte
      BY DEF CmdData, Byte
    <2>. QED
      BY <1>2, <2>1, Encoded
  <1>. QED
    BY <1>4, <1>5, <1>6, <1>7 DEF Between

LEMMA ReadsOther ==
    ASSUME NEW c \in Readers, Between(c.kiss),
           NEW f \in Bytes, NEW b \in Plain, b % 16 # CmdData
    PROVE  \E d \in Readers : /\ Reaches(c, Encode(b, f), d) /\ Between(d.kiss)
                              /\ d.out = c.out
  <1>1. b \in Byte /\ b % 16 # CmdUnknown
    BY DEF Plain, Byte, CmdUnknown
  <1>2. PICK E \in Seq(Plain) : Encode(b, f) = ((<<FEND>> \o <<b>>) \o E) \o <<FEND>>
    BY <1>1, Encoded
  <1>3. PICK h \in Bytes : h = <<FEND>> \o <<b>>
    <2>1. PICK y \in Bytes : y = <<b>>
      BY <1>1, OneByte DEF Bytes
    <2>2. <<FEND>> \o y \in Bytes
      BY EndIsByte, ConcatProperties DEF Bytes
    <2>. QED
      BY <2>1, <2>2
  <1>4. PICK d \in Readers : /\ Reaches(c, h, d) /\ d.out = c.out
                             /\ d.kiss.command = b % 16
    BY <1>3, FrameBegins
  <1>5. Reaches(d, E, d)
    BY <1>1, <1>4, Skipped DEF Ignores
  <1>6. PICK e \in Readers : Reaches(d, <<FEND>>, e) /\ e.out = d.out /\ Started(e.kiss)
    BY <1>4, StartOfFrame
  <1>7. E \in Bytes /\ h \o E \in Bytes
    BY PlainIsBytes, ConcatProperties DEF Bytes
  <1>8. Reaches(c, h \o E, d)
    BY <1>4, <1>5, <1>7, Compose
  <1>9. Reaches(c, (h \o E) \o <<FEND>>, e)
    BY <1>6, <1>7, <1>8, EndIsByte, Compose
  <1>. QED
    BY <1>2, <1>3, <1>4, <1>6, <1>9 DEF Between

LEMMA ReadsCut ==
    ASSUME NEW c \in Readers, Between(c.kiss),
           NEW f \in Bytes, f # << >> => f[1] \notin {TFEND, TFESC},
           NEW n \in 2 .. Len(Encode(CmdData, f)) - 1
    PROVE  \E d \in Readers : /\ Reaches(c, SubSeq(Encode(CmdData, f), 1, n), d)
                              /\ Holding(d, c.out, Arrived(f, n))
  <1>1. CmdData \in Byte
    BY DEF CmdData, Byte
  <1>2. PICK E \in Seq(Plain) :
            /\ E = EscapeAll(f)
            /\ Len(Encode(CmdData, f)) = Len(E) + 3
            /\ \A m \in 0 .. Len(E) :
                   SubSeq(Encode(CmdData, f), 1, m + 2) =
                       (<<FEND>> \o <<CmdData>>) \o SubSeq(E, 1, m)
    BY <1>1, Encoded
  <1>3. PICK m \in 0 .. Len(E) : n = m + 2
    <2>1. n - 2 \in 0 .. Len(E) /\ n = (n - 2) + 2
      BY <1>2
    <2>. QED
      BY <2>1
  <1>4. PICK k \in 0 .. Len(f) :
            /\ Arrived(f, n) = Fitting(SubSeq(f, 1, k))
            /\ \/ SubSeq(E, 1, m) = EscapeAll(SubSeq(f, 1, k))
               \/ SubSeq(E, 1, m) = EscapeAll(SubSeq(f, 1, k)) \o <<FESC>>
    BY <1>2, <1>3, Arrives
  <1>5. PICK h : h = <<FEND>> \o <<CmdData>>
    OBVIOUS
  <1>6. PICK a \in Seq(Plain) : a = EscapeAll(SubSeq(f, 1, k))
    BY EscapePrefix
  <1>7. PICK d \in Readers : /\ Reaches(c, h \o a, d)
                             /\ Holding(d, c.out, Arrived(f, n))
    BY <1>4, <1>5, <1>6, ReadsFrame
  <1>8. h \o a \in Bytes
    BY <1>5, <1>6, ReadsFrame
  <1>9. SubSeq(Encode(CmdData, f), 1, n) = h \o SubSeq(E, 1, m)
    BY <1>2, <1>3, <1>5
  <1>10. CASE SubSeq(E, 1, m) = a
    BY <1>7, <1>9, <1>10
  <1>11. CASE SubSeq(E, 1, m) = a \o <<FESC>>
    <2>1. PICK e \in Readers : Reaches(d, <<FESC>>, e) /\ Holding(e, c.out, Arrived(f, n))
      BY <1>7, LoneEscape
    <2>2. PICK y \in Bytes : y = <<FESC>>
      <3>1. FESC \in Byte
        BY DEF FESC, Byte
      <3>. QED
        BY <3>1, OneByte DEF Bytes
    <2>3. Reaches(c, (h \o a) \o y, e)
      BY <1>7, <1>8, <2>1, <2>2, Compose
    <2>4. h \in Bytes
      <3>1. PICK z \in Bytes : z = <<CmdData>>
        BY <1>1, OneByte DEF Bytes
      <3>2. <<FEND>> \o z \in Bytes
        BY EndIsByte, ConcatProperties DEF Bytes
      <3>. QED
        BY <1>5, <3>1, <3>2
    <2>5. a \in Bytes
      BY PlainIsBytes
    <2>6. Associate(h, a, y)
      BY <2>4, <2>5, Associative DEF Bytes
    <2>. QED
      BY <1>9, <1>11, <2>1, <2>2, <2>3, <2>6, Zenon DEF Associate
  <1>. QED
    BY <1>4, <1>6, <1>10, <1>11

-----------------------------------------------------------------------------
(***************************************************************************)
(* The invariant: whoever reads what is left over and then what is on its  *)
(* way, from the state the decoder is in, ends up with the frames that are *)
(* due, and where the last of them was left.                               *)
(***************************************************************************)

Dues == [out : Seq(Bytes), cut : {Whole} \union {<<x>> : x \in Bytes}]

LeftAt(k, cut) ==
    IF cut = Whole THEN Between(k)
    ELSE k.in_frame /\ k.command = CmdData /\ k.collected = cut[1]

Meets(c, d) == c.out = d.out /\ LeftAt(c.kiss, d.cut)

WireOK ==
    /\ stream \in Bytes /\ partial \in Bytes
    /\ kiss \in Kisses /\ received \in Seq(Bytes) /\ due \in Dues
    /\ open \in BOOLEAN /\ connected \in BOOLEAN
    /\ pc \in {"call", "recv"} /\ (pc = "recv" => partial = << >>)
    /\ sends \in 0 .. MaxSends /\ cuts \in 0 .. MaxCuts

Reader == [kiss |-> kiss, out |-> received]
MeetsDue == \E d \in Readers : Reaches(Reader, partial \o stream, d) /\ Meets(d, due)

Inv == WireOK /\ MeetsDue

LEMMA FramesAre ==
    ASSUME NEW f \in Frames
    PROVE  f \in Bytes /\ f # << >> /\ f[1] \notin {TFEND, TFESC}
  BY FramesAssumption DEF Bytes

LEMMA CommandsAre ==
    ASSUME NEW b \in {CmdData, OtherCommand}
    PROVE  b \in Plain /\ b \in Byte /\ (b # CmdData => b % 16 # CmdData)
  BY FramesAssumption DEF Plain, Byte, CmdData, FEND

\* A frame that is written after all that came before leads to what Expect says.
LEMMA PutReads ==
    ASSUME due \in Dues, NEW c \in Readers, Meets(c, due),
           NEW f \in Frames, NEW b \in {CmdData, OtherCommand}, NEW n,
           \/ n = Len(Encode(b, f))
           \/ b = CmdData /\ n \in 1 .. Len(Encode(b, f)) - 1
    PROVE  /\ Expect(f, b, n) \in Dues
           /\ \E e \in Readers : /\ Reaches(c, SubSeq(Encode(b, f), 1, n), e)
                                 /\ Meets(e, Expect(f, b, n))
  <1>1. f \in Bytes /\ f # << >> /\ f[1] \notin {TFEND, TFESC}
    BY FramesAre
  <1>2. b \in Plain /\ b \in Byte /\ (b # CmdData => b % 16 # CmdData)
    BY CommandsAre
  <1>3. Encode(b, f) \in Bytes /\ Len(Encode(b, f)) \in Nat /\ Len(Encode(b, f)) >= 3
        /\ SubSeq(Encode(b, f), 1, Len(Encode(b, f))) = Encode(b, f)
        /\ SubSeq(Encode(b, f), 1, 1) = <<FEND>>
    <2>1. PICK E \in Seq(Plain) :
              /\ Encode(b, f) \in Bytes
              /\ Len(Encode(b, f)) = Len(E) + 3
              /\ SubSeq(Encode(b, f), 1, Len(E) + 3) = Encode(b, f)
              /\ SubSeq(Encode(b, f), 1, 1) = <<FEND>>
      BY <1>1, <1>2, Encoded
    <2>2. Len(E) \in Nat
      OBVIOUS
    <2>. QED
      BY <2>1, <2>2
  <1>4. n \in 1 .. Len(Encode(b, f))
    BY <1>3
  <1>5. c.out = due.out /\ due.out \in Seq(Bytes)
    BY DEF Meets, Dues
  <1>6. ASSUME NEW e \in Readers, NEW d, Meets(e, d), d = [out |-> e.out, cut |-> d.cut],
               d.cut = Whole \/ d.cut = <<e.kiss.collected>>
        PROVE  d \in Dues
    <2>1. e.out \in Seq(Bytes) /\ e.kiss.collected \in Bytes
      BY DEF Readers, Kisses
    <2>2. d.cut \in {Whole} \union {<<x>> : x \in Bytes}
      BY <1>6, <2>1
    <2>. QED
      BY <1>6, <2>1, <2>2 DEF Dues
  <1>7. CASE due.cut # Whole
    <2>1. PICK x \in Bytes : due.cut = <<x>> /\ due.cut[1] = x
      BY <1>7 DEF Dues
    <2>2. Holding(c, due.out, x)
      BY <1>5, <1>7, <2>1 DEF Meets, LeftAt, Holding
    <2>3. PICK e \in Readers : /\ Reaches(c, SubSeq(Encode(b, f), 1, n), e)
                               /\ Between(e.kiss)
                               /\ e.out = IF x = << >> THEN due.out ELSE Append(due.out, x)
      BY <1>1, <1>2, <1>4, <2>2, ReadsAfterCut
    <2>4. Expect(f, b, n) = [out |-> e.out, cut |-> Whole]
      BY <1>7, <2>1, <2>3 DEF Expect
    <2>5. Meets(e, Expect(f, b, n))
      BY <2>3, <2>4 DEF Meets, LeftAt
    <2>. QED
      BY <1>6, <2>3, <2>4, <2>5
  <1>8. CASE due.cut = Whole
    <2>1. Between(c.kiss)
      BY <1>8 DEF Meets, LeftAt
    <2>2. CASE n = Len(Encode(b, f)) /\ b = CmdData
      <3>1. PICK e \in Readers : /\ Reaches(c, Encode(CmdData, f), e) /\ Between(e.kiss)
                                 /\ e.out = Append(c.out, Fitting(f))
        BY <1>1, <2>1, ReadsWhole
      <3>2. Expect(f, b, n) = [due EXCEPT !.out = Append(due.out, Fitting(f))]
        BY <1>8, <2>2 DEF Expect
      <3>3. Expect(f, b, n) = [out |-> e.out, cut |-> Whole]
        BY <1>5, <1>8, <3>1, <3>2 DEF Dues
      <3>4. Meets(e, Expect(f, b, n))
        BY <3>1, <3>3 DEF Meets, LeftAt
      <3>. QED
        BY <1>3, <1>6, <2>2, <3>1, <3>3, <3>4
    <2>3. CASE n = Len(Encode(b, f)) /\ b # CmdData
      <3>1. PICK e \in Readers : /\ Reaches(c, Encode(b, f), e) /\ Between(e.kiss)
                                 /\ e.out = c.out
        BY <1>1, <1>2, <2>1, <2>3, ReadsOther
      <3>2. Expect(f, b, n) = [due EXCEPT !.out = due.out]
        BY <1>8, <2>3 DEF Expect
      <3>3. Expect(f, b, n) = [out |-> e.out, cut |-> Whole]
        BY <1>5, <1>8, <3>1, <3>2 DEF Dues
      <3>4. Meets(e, Expect(f, b, n))
        BY <3>1, <3>3 DEF Meets, LeftAt
      <3>. QED
        BY <1>3, <1>6, <2>3, <3>1, <3>3, <3>4
    <2>4. CASE n # Len(Encode(b, f)) /\ n = 1
      <3>1. ~(c.kiss.in_frame /\ c.kiss.command = CmdData)
        BY <2>1 DEF Between, Started, CmdData, CmdUnknown
      <3>2. PICK e \in Readers : Reaches(c, <<FEND>>, e) /\ e.out = c.out /\ Started(e.kiss)
        BY <3>1, StartOfFrame
      <3>3. Expect(f, b, n) = due
        BY <1>8, <2>4 DEF Expect
      <3>4. Meets(e, due)
        BY <1>5, <1>8, <3>2 DEF Meets, LeftAt, Between
      <3>. QED
        BY <1>3, <2>4, <3>2, <3>3, <3>4
    <2>5. CASE n # Len(Encode(b, f)) /\ n # 1
      <3>1. b = CmdData /\ n \in 2 .. Len(Encode(CmdData, f)) - 1
        BY <1>3, <2>5
      <3>2. PICK e \in Readers : /\ Reaches(c, SubSeq(Encode(CmdData, f), 1, n), e)
                                 /\ Holding(e, c.out, Arrived(f, n))
        BY <1>1, <2>1, <3>1, ReadsCut
      <3>3. Expect(f, b, n) = [due EXCEPT !.cut = <<Arrived(f, n)>>]
        BY <1>8, <2>5, <3>1 DEF Expect
      <3>4. Expect(f, b, n) = [out |-> e.out, cut |-> <<e.kiss.collected>>]
        BY <1>5, <3>2, <3>3 DEF Dues, Holding
      <3>5. <<e.kiss.collected>> # Whole /\ <<e.kiss.collected>>[1] = e.kiss.collected
        BY DEF Whole
      <3>6. Meets(e, Expect(f, b, n))
        BY <3>2, <3>4, <3>5 DEF Meets, LeftAt, Holding
      <3>. QED
        BY <1>6, <3>1, <3>2, <3>4, <3>6
    <2>. QED
      BY <2>2, <2>3, <2>4, <2>5
  <1>. QED
    BY <1>7, <1>8

LEMMA PutKeeps ==
    ASSUME Inv, NEW f \in Frames, NEW b \in {CmdData, OtherCommand}, NEW n,
           \/ n = Len(Encode(b, f))
           \/ b = CmdData /\ n \in 1 .. Len(Encode(b, f)) - 1,
           Put(f, b, n), cuts' \in 0 .. MaxCuts
    PROVE  Inv'
  <1>1. PICK d \in Readers : Reaches(Reader, partial \o stream, d) /\ Meets(d, due)
    BY DEF Inv, MeetsDue
  <1>2. /\ due' = Expect(f, b, n)
        /\ due \in Dues /\ stream \in Bytes /\ partial \in Bytes
    BY DEF Put, Inv, WireOK
  <1>3. PICK e \in Readers : /\ Reaches(d, SubSeq(Encode(b, f), 1, n), e)
                             /\ Meets(e, due') /\ due' \in Dues
    BY <1>1, <1>2, PutReads
  <1>4. PICK w \in Bytes : w = SubSeq(Encode(b, f), 1, n)
    <2>1. Encode(b, f) \in Bytes
      BY FramesAre, CommandsAre, Encoded
    <2>2. n \in 0 .. Len(Encode(b, f))
      BY <2>1 DEF Bytes
    <2>. QED
      BY <2>1, <2>2, Cut DEF Bytes
  <1>5. stream' = stream \o w /\ stream' \in Bytes /\ partial \o stream \in Bytes
    <2>1. stream' = stream \o w
      BY <1>4 DEF Put
    <2>2. stream \o w \in Bytes /\ partial \o stream \in Bytes
      BY <1>2, ConcatProperties DEF Bytes
    <2>. QED
      BY <2>1, <2>2
  <1>6. Reaches(Reader, (partial \o stream) \o w, e)
    BY <1>1, <1>3, <1>4, <1>5, Compose
  <1>7. Associate(partial, stream, w)
    BY <1>2, Associative DEF Bytes
  <1>8. Reaches(Reader, partial \o stream', e)
    BY <1>5, <1>6, <1>7, Zenon DEF Associate
  <1>9. UNCHANGED <<open, connected, pc, kiss, partial, received>> /\ sends' \in 0 .. MaxSends
    BY FramesAssumption DEF Put, receiver, Inv, WireOK
  <1>10. WireOK'
    BY <1>3, <1>5, <1>9 DEF Inv, WireOK
  <1>11. Reader' = Reader /\ partial' = partial
    BY <1>9 DEF Reader
  <1>12. MeetsDue'
    BY <1>3, <1>8, <1>11 DEF MeetsDue
  <1>. QED
    BY <1>10, <1>12 DEF Inv

\* The bytes s that were to be read next are given to Feed: what it keeps of
\* them, and what came behind, is still to be read.
LEMMA TakeKeeps ==
    ASSUME kiss \in Kisses, received \in Seq(Bytes),
           NEW s \in Bytes, NEW u \in Bytes, NEW d, Reaches(Reader, s \o u, d),
           Return(Feed(s))
    PROVE  /\ kiss' \in Kisses /\ received' \in Seq(Bytes) /\ partial' \in Bytes
           /\ Feed(s).frame = NoFrame => partial' = << >>
           /\ Reaches(Reader', partial' \o u, d)
  <1>1. PICK t \in Bytes :
            /\ s = t \o Feed(s).rest
            /\ Reaches(Reader, t, Returned(received, Feed(s)))
            /\ Feed(s) \in Fed
            /\ Feed(s).frame = NoFrame => Feed(s).rest = << >>
    BY FeedReads DEF Reader
  <1>2. PICK f \in Fed : f = Feed(s)
    BY <1>1
  <1>3. kiss' = f.kiss /\ partial' = f.rest
        /\ received' = IF f.frame = NoFrame THEN received ELSE Append(received, f.frame)
    BY <1>2 DEF Return, Leftover
  <1>4. f.kiss \in Kisses /\ f.rest \in Bytes /\ f.frame \in Bytes
    BY DEF Fed
  <1>5. received' \in Seq(Bytes)
    BY <1>3, <1>4
  <1>6. Reader' = Returned(received, f)
    BY <1>3 DEF Reader, Returned
  <1>7. s \o u = t \o (f.rest \o u) /\ f.rest \o u \in Bytes
    <2>1. Associate(t, f.rest, u)
      BY <1>4, Associative DEF Bytes
    <2>2. f.rest \o u \in Bytes
      BY <1>4, ConcatProperties DEF Bytes
    <2>. QED
      BY <1>1, <1>2, <2>1, <2>2, Zenon DEF Associate
  <1>8. Reader \in Readers
    BY DEF Reader, Readers
  <1>9. Reaches(Reader, t \o (f.rest \o u), d) /\ Reaches(Reader, t, Returned(received, f))
    BY <1>1, <1>2, <1>7
  <1>10. Reaches(Returned(received, f), f.rest \o u, d)
    BY <1>7, <1>8, <1>9, Decompose
  <1>. QED
    BY <1>1, <1>2, <1>3, <1>4, <1>5, <1>6, <1>10

LEMMA LeftoverKeeps ==
    ASSUME Inv, RecvLeftover
    PROVE  Inv'
  <1>1. PICK d \in Readers : Reaches(Reader, partial \o stream, d) /\ Meets(d, due)
    BY DEF Inv, MeetsDue
  <1>2. WireOK /\ Return(Feed(partial)) /\ UNCHANGED <<stream, sender, connected>>
        /\ pc' = IF Feed(partial).frame = NoFrame THEN "recv" ELSE "call"
    BY DEF Inv, RecvLeftover
  <1>3. /\ kiss' \in Kisses /\ received' \in Seq(Bytes) /\ partial' \in Bytes
        /\ Feed(partial).frame = NoFrame => partial' = << >>
        /\ Reaches(Reader', partial' \o stream, d)
    BY <1>1, <1>2, TakeKeeps DEF WireOK
  <1>4. WireOK'
    BY <1>2, <1>3 DEF WireOK, sender
  <1>5. MeetsDue'
    BY <1>1, <1>2, <1>3 DEF MeetsDue, sender
  <1>. QED
    BY <1>4, <1>5 DEF Inv

LEMMA BytesKeep ==
    ASSUME Inv, RecvBytes
    PROVE  Inv'
  <1>1. PICK d \in Readers : Reaches(Reader, partial \o stream, d) /\ Meets(d, due)
    BY DEF Inv, MeetsDue
  <1>2. WireOK /\ pc = "recv" /\ pc' = "call" /\ UNCHANGED <<sender, connected>>
    BY DEF Inv, RecvBytes
  <1>3. PICK n \in 1 .. BufferSize :
            /\ n <= Len(stream)
            /\ Return(Feed(SubSeq(stream, 1, n)))
            /\ stream' = SubSeq(stream, n + 1, Len(stream))
    BY DEF RecvBytes
  <1>4. n \in 0 .. Len(stream)
    BY <1>3, FramesAssumption
  <1>5. PICK s \in Bytes : s = SubSeq(stream, 1, n)
    BY <1>2, <1>4, Cut DEF WireOK, Bytes
  <1>6. stream' \in Bytes /\ stream = s \o stream'
    BY <1>2, <1>3, <1>4, <1>5, Cut DEF WireOK, Bytes
  <1>7. partial \o stream = stream
    BY <1>2, ConcatEmptySeq DEF WireOK, Bytes
  <1>8. Reaches(Reader, s \o stream', d)
    BY <1>1, <1>6, <1>7
  <1>9. /\ kiss' \in Kisses /\ received' \in Seq(Bytes) /\ partial' \in Bytes
        /\ Reaches(Reader', partial' \o stream', d)
    <2>1. PICK u \in Bytes : u = stream'
      BY <1>6
    <2>2. Return(Feed(s))
      BY <1>3, <1>5
    <2>3. kiss \in Kisses /\ received \in Seq(Bytes)
      BY <1>2 DEF WireOK
    <2>. QED
      BY <1>8, <2>1, <2>2, <2>3, TakeKeeps
  <1>10. WireOK'
    BY <1>2, <1>6, <1>9 DEF WireOK, sender
  <1>11. MeetsDue'
    BY <1>1, <1>2, <1>9 DEF MeetsDue, sender
  <1>. QED
    BY <1>10, <1>11 DEF Inv

\* The steps that touch neither the bytes nor the decoder.
LEMMA RestKeeps ==
    ASSUME Inv, UNCHANGED <<stream, kiss, partial, received, sends, cuts, due>>,
           open' \in BOOLEAN, connected' \in BOOLEAN,
           pc' \in {"call", "recv"}, pc' = "recv" => pc = "recv"
    PROVE  Inv'
  <1>1. WireOK'
    BY DEF Inv, WireOK
  <1>2. MeetsDue'
    BY DEF Inv, MeetsDue, Reader
  <1>. QED
    BY <1>1, <1>2 DEF Inv

LEMMA ModemKeeps ==
    ASSUME Inv, ModemSends
    PROVE  Inv'
  <1>1. PICK f \in Frames : SendKiss(f) \/ SendOther(f) \/ SendPart(f)
    BY DEF ModemSends
  <1>2. cuts \in 0 .. MaxCuts /\ MaxCuts \in Nat
    BY FramesAssumption DEF Inv, WireOK
  <1>3. CASE SendKiss(f)
    <2>1. Put(f, CmdData, Len(Encode(CmdData, f))) /\ cuts' = cuts
      BY <1>3 DEF SendKiss, KissWriteFrame
    <2>. QED
      BY <1>2, <2>1, PutKeeps
  <1>4. CASE SendOther(f)
    <2>1. Put(f, OtherCommand, Len(Encode(OtherCommand, f))) /\ cuts' = cuts
      BY <1>4 DEF SendOther
    <2>. QED
      BY <1>2, <2>1, PutKeeps
  <1>5. CASE SendPart(f)
    <2>1. PICK n \in 1 .. Len(Encode(CmdData, f)) - 1 : Put(f, CmdData, n)
      BY <1>5 DEF SendPart, KissWriteFrame
    <2>2. cuts' \in 0 .. MaxCuts
      BY <1>2, <1>5 DEF SendPart
    <2>. QED
      BY <2>1, <2>2, PutKeeps
  <1>. QED
    BY <1>1, <1>3, <1>4, <1>5

LEMMA InvInit == DaemonInit => Inv
  <1>. SUFFICES ASSUME DaemonInit
                PROVE  Inv
    OBVIOUS
  <1>1. << >> \in Bytes /\ << >> \in Seq(Bytes) /\ Len(<< >>) = 0
    BY EmptySeq DEF Bytes
  <1>2. KissInit \in Kisses
    <2>1. 0 <= MaxPayload
      BY MaxPayloadAssumption
    <2>. QED
      BY <1>1, <2>1 DEF KissInit, Kisses
  <1>3. [out |-> << >>, cut |-> Whole] \in Dues
    BY <1>1 DEF Dues
  <1>4. WireOK
    BY <1>1, <1>2, <1>3, FramesAssumption DEF DaemonInit, Init, WireOK
  <1>5. Reader \in Readers /\ Reaches(Reader, << >>, Reader)
    <2>1. Reader \in Readers
      BY <1>4 DEF WireOK, Reader, Readers
    <2>. QED
      BY <2>1, ReachesNothing
  <1>6. partial \o stream = << >>
    BY <1>1, ConcatEmptySeq DEF DaemonInit, Init, Bytes
  <1>7. Meets(Reader, due)
    <2>1. Reader.kiss = KissInit /\ Reader.out = << >> /\ due = [out |-> << >>, cut |-> Whole]
      BY DEF DaemonInit, Init, Reader
    <2>2. ~KissInit.in_frame
      BY DEF KissInit
    <2>. QED
      BY <2>1, <2>2 DEF Meets, LeftAt, Between
  <1>. QED
    BY <1>4, <1>5, <1>6, <1>7 DEF Inv, MeetsDue

LEMMA InvNext ==
    ASSUME Inv, [DaemonNext]_allVars
    PROVE  Inv'
  <1>. DEFINE Untouched == UNCHANGED <<stream, kiss, partial, received, sends, cuts, due>>
  <1>1. open \in BOOLEAN /\ connected \in BOOLEAN /\ pc \in {"call", "recv"}
    BY DEF Inv, WireOK
  <1>2. CASE Main
    <2>1. Untouched /\ pc' = pc /\ open' \in BOOLEAN /\ connected' \in BOOLEAN
      BY <1>1, <1>2 DEF Main, MainStarts, MainGivesUp, MainSeesStop, MainShutsDown, Shutdown,
         MainJoins, MainDisconnects, MainReturns, vars, sender, receiver
    <2>. QED
      BY <1>1, <2>1, RestKeeps
  <1>3. CASE Signal \/ Ended \/ UNCHANGED allVars
    <2>1. UNCHANGED vars
      BY <1>3 DEF Signal, Ended, allVars
    <2>. QED
      BY <1>1, <2>1, RestKeeps DEF vars, sender, receiver
  <1>4. CASE Tx
    <2>1. Untouched /\ UNCHANGED <<pc, open>> /\ connected' \in BOOLEAN
      BY <1>1, <1>4 DEF Tx, TxEnds, TxHasFrame, TxCalls, TxNotConnected, TxSends, TxBlocks,
         TxCutShort, TxFails, TxKilled, TxUnchanged, sender
    <2>. QED
      BY <1>1, <2>1, RestKeeps
  <1>5. CASE Rx
    <2>1. CASE RxEnds \/ RxCalls \/ RxNotConnected
      <3>1. UNCHANGED vars
        BY <2>1 DEF RxEnds, RxCalls, RxNotConnected
      <3>. QED
        BY <1>1, <3>1, RestKeeps DEF vars, sender, receiver
    <2>2. CASE RxStep(RecvLeftover)
      BY <2>2, LeftoverKeeps DEF RxStep
    <2>3. CASE RxStep(RecvBytes)
      BY <2>3, BytesKeep DEF RxStep
    <2>4. CASE RxStep(RecvEnd)
      <3>1. Untouched /\ open' = open /\ connected' = FALSE /\ pc' = "call"
        BY <2>4 DEF RxStep, RecvEnd, sender
      <3>. QED
        BY <1>1, <3>1, RestKeeps
    <2>. QED
      BY <1>5, <2>1, <2>2, <2>3, <2>4 DEF Rx
  <1>6. CASE Modem
    <2>1. CASE ModemSends
      BY <2>1, ModemKeeps
    <2>2. CASE Close
      <3>1. Untouched /\ UNCHANGED <<connected, pc>> /\ open' = FALSE
        BY <2>2 DEF Close, receiver
      <3>. QED
        BY <1>1, <3>1, RestKeeps
    <2>3. CASE ModemReads
      <3>1. UNCHANGED vars
        BY <2>3 DEF ModemReads
      <3>. QED
        BY <1>1, <3>1, RestKeeps DEF vars, sender, receiver
    <2>. QED
      BY <1>6, <2>1, <2>2, <2>3 DEF Modem
  <1>7. CASE RxLosesConnection
    <2>1. Untouched /\ open' = FALSE /\ connected' = FALSE /\ pc' = "call"
      BY <1>7 DEF RxLosesConnection, RxStep, RecvFails
    <2>. QED
      BY <1>1, <2>1, RestKeeps
  <1>. QED
    BY <1>2, <1>3, <1>4, <1>5, <1>6, <1>7 DEF DaemonNext

\* Inv holds in every state of the daemon.
LEMMA InvHolds == DaemonSpec => []Inv
  <1>1. Inv /\ [DaemonNext]_allVars => Inv'
    BY InvNext
  <1>. QED
    BY <1>1, InvInit, PTL DEF DaemonSpec

\* Whatever is written to the connection, and in whatever pieces it is read,
\* the decoder stays within the caller's buffer, and between two calls of recv
\* in one call of tcp_interface_recv_kiss nothing is left over.
THEOREM TypeCorrect == DaemonSpec => []TypeOK
  <1>1. Inv => TypeOK
    <2>. SUFFICES ASSUME Inv
                  PROVE  TypeOK
      OBVIOUS
    <2>1. stream \in Bytes /\ partial \in Bytes /\ kiss.collected \in Bytes
      BY DEF Inv, WireOK, Kisses
    <2>2. \A s \in {stream, partial, kiss.collected} : Range(s) \subseteq Byte
      <3>1. ASSUME NEW s \in Bytes
            PROVE  Range(s) \subseteq Byte
        BY DEF Range, Bytes
      <3>. QED
        BY <2>1, <3>1
    <2>. QED
      BY <2>2 DEF Inv, WireOK, Kisses, TypeOK
  <1>. QED
    BY <1>1, InvHolds, PTL

\* The frames are returned in order and each once, wherever TCP cuts the stream
\* and wherever a send was cut short: a frame that was cut costs the one behind
\* it and no other.
THEOREM FramesInOrder == DaemonSpec => []ReceivedInOrder
  <1>1. Inv => ReceivedInOrder
    <2>. SUFFICES ASSUME Inv
                  PROVE  ReceivedInOrder
      OBVIOUS
    <2>1. PICK d \in Readers : Reaches(Reader, partial \o stream, d) /\ Meets(d, due)
      BY DEF Inv, MeetsDue
    <2>2. Reader \in Readers /\ partial \o stream \in Bytes
      <3>1. partial \o stream \in Bytes
        BY ConcatProperties DEF Inv, WireOK, Bytes
      <3>. QED
        BY <3>1 DEF Inv, WireOK, Reader, Readers
    <2>3. IsPrefix(Reader.out, d.out)
      BY <2>1, <2>2, OutGrows
    <2>. QED
      BY <2>1, <2>3 DEF Meets, Reader, ReceivedInOrder
  <1>. QED
    BY <1>1, InvHolds, PTL

\* When all that was written has been read, every frame that is due has been
\* returned: nothing stays behind in the decoder.
THEOREM NothingMissing == DaemonSpec => []AllReceived
  <1>1. Inv => AllReceived
    <2>. SUFFICES ASSUME Inv, stream = << >>, partial = << >>
                  PROVE  received = due.out
      BY DEF AllReceived
    <2>1. PICK d \in Readers : Reaches(Reader, partial \o stream, d) /\ Meets(d, due)
      BY DEF Inv, MeetsDue
    <2>2. << >> \o << >> = << >>
      BY EmptySeq, ConcatEmptySeq
    <2>3. Reader \in Readers
      BY DEF Inv, WireOK, Reader, Readers
    <2>4. d = Reader
      BY <2>1, <2>2, <2>3, ReachesNothing
    <2>. QED
      BY <2>1, <2>4 DEF Meets, Reader
  <1>. QED
    BY <1>1, InvHolds, PTL

-----------------------------------------------------------------------------
(***************************************************************************)
(* The end of the program.                                                 *)
(***************************************************************************)

\* Where main stands says which threads there are: none before it has created
\* them, and none in or behind the loop of a thread it has joined.  That main
\* has returned without the threads is the case of a connection that failed.
JoinedAreEnded ==
    /\ main = "connect" => tx = "none" /\ rx = "none"
    /\ main \in {"join_rx", "disconnect", "released"} => tx = "ended"
    /\ main \in {"disconnect", "released"} => rx = "ended"
    /\ main = "returned" => tx \in {"ended", "none"} /\ rx \in {"ended", "none"}

\* A thread that has not been created or has ended takes no step.
LEMMA TxStaysEnded ==
    ASSUME Tx
    PROVE  tx \notin {"ended", "none"} /\ UNCHANGED <<main, rx>>
  BY Zenon DEF Tx, TxEnds, TxHasFrame, TxCalls, TxNotConnected, TxSends,
         TxBlocks, TxCutShort, TxFails, TxKilled, InSend, TxUnchanged

LEMMA RxStaysEnded ==
    ASSUME Rx \/ RxLosesConnection
    PROVE  rx \notin {"ended", "none"} /\ UNCHANGED <<main, tx>>
  BY Zenon DEF Rx, RxLosesConnection, RxEnds, RxCalls, RxNotConnected, RxStep, RxUnchanged

\* main goes on to the next join, and to the disconnect, only past a thread
\* that has ended.
LEMMA MainKeepsJoined ==
    ASSUME JoinedAreEnded, Main
    PROVE  JoinedAreEnded'
  <1>1. CASE MainStarts
    BY <1>1 DEF MainStarts, JoinedAreEnded
  <1>2. CASE MainGivesUp
    BY <1>2 DEF MainGivesUp, JoinedAreEnded
  <1>3. CASE MainSeesStop
    BY <1>3 DEF MainSeesStop, JoinedAreEnded
  <1>4. CASE MainShutsDown
    BY <1>4 DEF MainShutsDown, JoinedAreEnded
  <1>5. CASE MainJoins
    <2>1. CASE main = "join_tx"
      BY <1>5, <2>1 DEF MainJoins, Joined, JoinedAreEnded
    <2>2. CASE main = "join_rx"
      BY <1>5, <2>2 DEF MainJoins, Joined, JoinedAreEnded
    <2>. QED
      BY <1>5, <2>1, <2>2 DEF MainJoins
  <1>6. CASE MainDisconnects
    BY <1>6 DEF MainDisconnects, JoinedAreEnded
  <1>7. CASE MainReturns
    BY <1>7 DEF MainReturns, JoinedAreEnded
  <1>. QED
    BY <1>1, <1>2, <1>3, <1>4, <1>5, <1>6, <1>7 DEF Main

\* main closes the connection and destroys its mutex only when no thread can
\* use them, and returns only then: whoever clears the flag, in whatever order
\* the threads see it, and whatever they are blocked in.
THEOREM ReleaseComesLast == DaemonSpec => []ReleasedLast
  <1>1. DaemonInit => JoinedAreEnded
    BY DEF DaemonInit, JoinedAreEnded
  <1>2. JoinedAreEnded /\ [DaemonNext]_allVars => JoinedAreEnded'
    <2>. SUFFICES ASSUME JoinedAreEnded, [DaemonNext]_allVars
                  PROVE  JoinedAreEnded'
      OBVIOUS
    <2>1. CASE Main
      BY <2>1, MainKeepsJoined
    <2>2. CASE Tx
      BY <2>2, TxStaysEnded DEF JoinedAreEnded
    <2>3. CASE Rx \/ RxLosesConnection
      BY <2>3, RxStaysEnded DEF JoinedAreEnded
    <2>4. CASE UNCHANGED <<main, tx, rx>>
      BY <2>4 DEF JoinedAreEnded
    <2>5. Signal \/ Modem \/ Ended \/ UNCHANGED allVars => UNCHANGED <<main, tx, rx>>
      BY DEF Signal, Modem, ModemReads, Ended, allVars, daemonVars
    <2>. QED
      BY <2>1, <2>2, <2>3, <2>4, <2>5 DEF DaemonNext
  <1>3. JoinedAreEnded => ReleasedLast
    BY DEF JoinedAreEnded, ReleasedLast
  <1>. QED
    BY <1>1, <1>2, <1>3, PTL DEF DaemonSpec
=============================================================================
