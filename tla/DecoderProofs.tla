--------------------------- MODULE DecoderProofs ---------------------------
(***************************************************************************)
(* What a symbol and a solved block do to the decoder, for any objects and *)
(* any number of symbols, under SymbolsAssumption and MarksAssumption.     *)
(* The daemon's receive thread and the receiver count symbols in the same  *)
(* way, seen[b], and mark blocks in the same way, decoded[b]; their        *)
(* sessions are records with these and other fields.                       *)
(***************************************************************************)
EXTENDS Decoder, FiniteSetTheorems, TLAPS

\* What the output file of object o may hold
Outputs(o) ==
    {f \in [SbnOf(o) -> UNION {[SourceEsis(o, b) -> Cells] : b \in SbnOf(o)}] :
        \A b \in SbnOf(o) : f[b] \in [SourceEsis(o, b) -> Cells]}

\* The fields of a session of object o
Decodes(o, s) ==
    /\ s.oti = o
    /\ s.blocks \in [SbnOf(o) -> [Esis -> Cells]]
    /\ s.file \in Outputs(o)
    /\ s.seen \in [SbnOf(o) -> Nat]
    /\ s.decoded \in [SbnOf(o) -> BOOLEAN]

\* taken[b] is the set of the symbols of block b that were counted.  The count
\* agrees with the decoder, a block is marked as decoded when nothing of it is
\* missing and only then, and not before there were enough symbols.
BlockOK(s, taken, b) ==
    /\ s.seen[b] = Cardinality(taken[b])
    /\ ~s.decoded[b] => Mask(s, b) = taken[b]
    /\ Gaps(s, b) = {} <=> s.decoded[b]
    /\ s.decoded[b] => Cardinality(taken[b]) >= Symbols[s.oti][b]

BlocksOK(o, s, taken) ==
    /\ taken \in [SbnOf(o) -> SUBSET Esis]
    /\ \A b \in SbnOf(o) : BlockOK(s, taken, b)

-----------------------------------------------------------------------------
(***************************************************************************)
(* Sets of symbols.                                                        *)
(***************************************************************************)

LEMMA Sizes ==
    ASSUME NEW o \in Otis, NEW b \in SbnOf(o)
    PROVE  /\ Symbols[o][b] \in 1 .. MaxEsi + 1 /\ MaxEsi \in Nat
           /\ SourceEsis(o, b) \subseteq Esis
           /\ IsFiniteSet(SourceEsis(o, b))
           /\ Cardinality(SourceEsis(o, b)) = Symbols[o][b]
  <1>1. Symbols[o][b] \in 1 .. MaxEsi + 1 /\ MaxEsi \in Nat
    BY SymbolsAssumption
  <1>2. SourceEsis(o, b) \subseteq Esis
    BY <1>1 DEF SourceEsis, Esis
  <1>3. /\ IsFiniteSet(0 .. Symbols[o][b] - 1)
        /\ Cardinality(0 .. Symbols[o][b] - 1) = Symbols[o][b]
    <2>1. 0 \in Int /\ Symbols[o][b] - 1 \in Int /\ ~(0 > Symbols[o][b] - 1)
      BY <1>1
    <2>2. /\ IsFiniteSet(0 .. Symbols[o][b] - 1)
          /\ Cardinality(0 .. Symbols[o][b] - 1) = Symbols[o][b] - 1 - 0 + 1
      BY <2>1, FS_Interval
    <2>. QED
      BY <1>1, <2>2
  <1>. QED
    BY <1>1, <1>2, <1>3 DEF SourceEsis

\* There are finitely many symbols.
LEMMA FiniteEsis ==
    /\ IsFiniteSet(Esis)
    /\ \A T \in SUBSET Esis : IsFiniteSet(T) /\ Cardinality(T) \in Nat
  <1>1. IsFiniteSet(Esis)
    BY FS_Interval, SymbolsAssumption DEF Esis
  <1>. QED
    BY <1>1, FS_Subset, FS_CardinalityType

\* Of as many symbols as the block needs, those that are no source symbols fill
\* the gaps between those that are.
LEMMA EnoughToFill ==
    ASSUME NEW M, NEW T, IsFiniteSet(M), IsFiniteSet(T), Cardinality(M) >= Cardinality(T)
    PROVE  Cardinality(M \ T) >= Cardinality(T \ M)
  <1>1. M \cap T = T \cap M
    OBVIOUS
  <1>2. Cardinality(M \ T) = Cardinality(M) - Cardinality(M \cap T)
    BY FS_Difference
  <1>3. Cardinality(T \ M) = Cardinality(T) - Cardinality(M \cap T)
    BY <1>1, FS_Difference
  <1>4. Cardinality(M) \in Nat /\ Cardinality(T) \in Nat /\ Cardinality(M \cap T) \in Nat
    BY FS_CardinalityType, FS_Intersection
  <1>. QED
    BY <1>2, <1>3, <1>4

LEMMA FileChange ==
    ASSUME NEW o, NEW f \in Outputs(o), NEW b \in SbnOf(o),
           NEW g \in [SourceEsis(o, b) -> Cells]
    PROVE  [f EXCEPT ![b] = g] \in Outputs(o)
  <1>. DEFINE R == UNION {[SourceEsis(o, k) -> Cells] : k \in SbnOf(o)}
  <1>1. f \in [SbnOf(o) -> R] /\ \A k \in SbnOf(o) : f[k] \in [SourceEsis(o, k) -> Cells]
    BY DEF Outputs
  <1>2. g \in R
    OBVIOUS
  <1>3. [f EXCEPT ![b] = g] \in [SbnOf(o) -> R]
    BY <1>1, <1>2
  <1>4. \A k \in SbnOf(o) : [f EXCEPT ![b] = g][k] \in [SourceEsis(o, k) -> Cells]
    BY <1>1
  <1>. QED
    BY <1>3, <1>4 DEF Outputs

-----------------------------------------------------------------------------
(***************************************************************************)
(* A symbol that counts, and a block that is solved.                       *)
(***************************************************************************)

\* taken with symbol e of block b
With(taken, b, e) == [taken EXCEPT ![b] = @ \union {e}]

\* u is s with symbol e of block b, counted.
IsCounted(o, s, b, e, c, w, u) ==
    /\ u.oti = o
    /\ u.blocks = [s.blocks EXCEPT ![b] = [s.blocks[b] EXCEPT ![e] = c]]
    /\ u.file = [s.file EXCEPT ![b] = IF e \in SourceEsis(o, b)
                                      THEN [s.file[b] EXCEPT ![e] = w]
                                      ELSE s.file[b]]
    /\ u.seen = [s.seen EXCEPT ![b] = s.seen[b] + 1]
    /\ u.decoded = s.decoded

\* t is s with block b solved: its gaps are filled, and it is marked.
IsSolved(o, s, b, w, t) ==
    /\ t.oti = o
    /\ t.blocks = [s.blocks EXCEPT ![b] = SetRebuilt(s, b)]
    /\ t.file = [s.file EXCEPT ![b] = [e \in SourceEsis(o, b) |->
                                          IF e \in Gaps(s, b) THEN w
                                          ELSE s.file[b][e]]]
    /\ t.seen = s.seen
    /\ t.decoded = [s.decoded EXCEPT ![b] = TRUE]

\* What a call of nanorq_repair_block may do.
LEMMA RepairCases ==
    ASSUME NEW s, NEW b, NEW r \in RepairBlock(s, b)
    PROVE  \/ \E w \in Written(Rebuilt(s, b)) :
                 r = [ok |-> TRUE, session |-> Repaired(s, b, w)]
           \/ /\ FALSE \in RepairResults(s, b)
              /\ r = [ok |-> FALSE, session |-> s]
  <1>1. PICK ok \in RepairResults(s, b) :
            r \in IF ok
                  THEN {[ok |-> TRUE, session |-> Repaired(s, b, w)] :
                           w \in Written(Rebuilt(s, b))}
                  ELSE {[ok |-> FALSE, session |-> s]}
    BY DEF RepairBlock
  <1>2. RepairResults(s, b) \subseteq BOOLEAN
    BY DEF RepairResults
  <1>3. CASE ok = TRUE
    BY <1>1, <1>3
  <1>4. CASE ok = FALSE
    BY <1>1, <1>4
  <1>. QED
    BY <1>2, <1>3, <1>4

\* What is rebuilt is a symbol.
LEMMA RebuiltIsSymbol ==
    ASSUME NEW o, NEW s, Decodes(o, s), NEW b \in SbnOf(o), Mask(s, b) # {}
    PROVE  /\ Rebuilt(s, b) \in Cells \ {NoSymbol}
           /\ Written(Rebuilt(s, b)) \subseteq Cells \ {NoSymbol}
  <1>. DEFINE from == {s.blocks[b][e] : e \in Mask(s, b)}
  <1>1. from # {} /\ from \subseteq Cells \ {NoSymbol}
    <2>1. s.blocks[b] \in [Esis -> Cells]
      BY DEF Decodes
    <2>2. \A e \in Mask(s, b) : s.blocks[b][e] \in Cells \ {NoSymbol}
      BY <2>1 DEF Mask
    <2>. QED
      BY <2>2
  <1>2. (CHOOSE c \in from : TRUE) \in from
    BY <1>1
  <1>3. Garbage \in Cells \ {NoSymbol} /\ Lost \in Cells \ {NoSymbol}
    BY MarksAssumption DEF Cells
  <1>4. Rebuilt(s, b) \in Cells \ {NoSymbol}
    BY <1>1, <1>2, <1>3 DEF Rebuilt
  <1>. QED
    BY <1>3, <1>4 DEF Written

\* The fields keep their types.
LEMMA CountedDecodes ==
    ASSUME NEW o \in Otis, NEW s, Decodes(o, s), NEW b \in SbnOf(o), NEW e \in Esis,
           NEW c \in Contents, NEW w \in Written(c),
           NEW u, IsCounted(o, s, b, e, c, w, u)
    PROVE  Decodes(o, u) /\ Mask(u, b) = Mask(s, b) \union {e}
  <1>. DEFINE f == IF e \in SourceEsis(o, b) THEN [s.file[b] EXCEPT ![e] = w] ELSE s.file[b]
  <1>1. c \in Cells /\ w \in Cells /\ c # NoSymbol
    BY MarksAssumption DEF Written, Cells
  <1>2. s.file \in Outputs(o) /\ s.file[b] \in [SourceEsis(o, b) -> Cells]
    BY DEF Decodes, Outputs
  <1>3. f \in [SourceEsis(o, b) -> Cells]
    BY <1>1, <1>2
  <1>4. [s.file EXCEPT ![b] = f] \in Outputs(o)
    BY <1>2, <1>3, FileChange
  <1>5. s.blocks \in [SbnOf(o) -> [Esis -> Cells]]
    BY DEF Decodes
  <1>6. u.blocks \in [SbnOf(o) -> [Esis -> Cells]]
    BY <1>1, <1>5 DEF IsCounted
  <1>7. [s.seen EXCEPT ![b] = s.seen[b] + 1] \in [SbnOf(o) -> Nat]
    BY DEF Decodes
  <1>8. u.blocks[b] = [s.blocks[b] EXCEPT ![e] = c]
    BY <1>5 DEF IsCounted
  <1>9. Mask(u, b) = Mask(s, b) \union {e}
    BY <1>1, <1>5, <1>8 DEF Mask
  <1>. QED
    BY <1>4, <1>6, <1>7, <1>9 DEF Decodes, IsCounted

LEMMA SolvedDecodes ==
    ASSUME NEW o \in Otis, NEW s, Decodes(o, s), NEW b \in SbnOf(o), Mask(s, b) # {},
           NEW w \in Written(Rebuilt(s, b)),
           NEW t, IsSolved(o, s, b, w, t)
    PROVE  Decodes(o, t) /\ Gaps(t, b) = {}
  <1>. DEFINE f == [e \in SourceEsis(o, b) |-> IF e \in Gaps(s, b) THEN w ELSE s.file[b][e]]
  <1>1. Rebuilt(s, b) \in Cells \ {NoSymbol} /\ w \in Cells
    BY RebuiltIsSymbol
  <1>2. s.file \in Outputs(o) /\ s.file[b] \in [SourceEsis(o, b) -> Cells] /\ s.oti = o
    BY DEF Decodes, Outputs
  <1>3. [s.file EXCEPT ![b] = f] \in Outputs(o)
    BY <1>1, <1>2, FileChange
  <1>4. SetRebuilt(s, b) \in [Esis -> Cells]
    BY <1>1 DEF SetRebuilt, Decodes
  <1>5. /\ t.blocks \in [SbnOf(o) -> [Esis -> Cells]]
        /\ t.blocks[b] = SetRebuilt(s, b)
    BY <1>4 DEF Decodes, IsSolved
  <1>6. t.decoded \in [SbnOf(o) -> BOOLEAN]
    BY DEF Decodes, IsSolved
  <1>7. Gaps(t, b) = {}
    <2>1. \A e \in SourceEsis(o, b) : e \in Esis /\ SetRebuilt(s, b)[e] # NoSymbol
      BY <1>1, <1>2, Sizes DEF SetRebuilt, Gaps, Mask
    <2>. QED
      BY <1>5, <2>1 DEF Gaps, Mask, IsSolved
  <1>. QED
    BY <1>3, <1>5, <1>6, <1>7 DEF Decodes, IsSolved

\* Symbols of one block leave the other blocks as they are.
LEMMA OthersStay ==
    ASSUME NEW s, NEW t, NEW taken, NEW more, NEW k,
           t.oti = s.oti, t.blocks[k] = s.blocks[k], t.seen[k] = s.seen[k],
           t.decoded[k] = s.decoded[k], more[k] = taken[k], BlockOK(s, taken, k)
    PROVE  BlockOK(t, more, k)
  <1>1. Mask(t, k) = Mask(s, k) /\ Gaps(t, k) = Gaps(s, k)
    BY DEF Mask, Gaps
  <1>. QED
    BY <1>1 DEF BlockOK

\* A symbol that counts: count and mask still agree, and a session that is not
\* solved at once is as it should be if there is no reason to solve it.
LEMMA CountedOK ==
    ASSUME NEW o \in Otis, NEW s, Decodes(o, s), NEW taken, BlocksOK(o, s, taken),
           NEW b \in SbnOf(o), NEW e \in Esis, SymbolResult(s, b, e) = "ADDED",
           NEW c \in Contents, NEW w \in Written(c),
           NEW u, IsCounted(o, s, b, e, c, w, u),
           NEW more, more = With(taken, b, e)
    PROVE  /\ Decodes(o, u)
           /\ more \in [SbnOf(o) -> SUBSET Esis]
           /\ ~u.decoded[b] /\ Mask(u, b) = more[b] /\ more[b] # {}
           /\ u.seen[b] = Cardinality(more[b])
           /\ \A k \in SbnOf(o) \ {b} : BlockOK(u, more, k)
           /\ ~(u.seen[b] >= Symbols[o][b]) \/ Gaps(u, b) # {} => BlocksOK(o, u, more)
  <1>1. Decodes(o, u) /\ Mask(u, b) = Mask(s, b) \union {e}
    BY CountedDecodes
  <1>2. Gaps(s, b) # {} /\ e \notin Mask(s, b)
    BY DEF SymbolResult
  <1>3. /\ taken \in [SbnOf(o) -> SUBSET Esis] /\ BlockOK(s, taken, b) /\ s.oti = o
    BY DEF BlocksOK, Decodes
  <1>4. ~s.decoded[b] /\ Mask(s, b) = taken[b] /\ s.seen[b] = Cardinality(taken[b])
    BY <1>2, <1>3 DEF BlockOK
  <1>5. more \in [SbnOf(o) -> SUBSET Esis] /\ more[b] = taken[b] \union {e}
    BY <1>3 DEF With
  <1>6. u.seen[b] = Cardinality(more[b])
    <2>1. taken[b] \in SUBSET Esis /\ IsFiniteSet(taken[b])
      BY <1>3, FiniteEsis
    <2>2. Cardinality(taken[b] \union {e}) = Cardinality(taken[b]) + 1
      BY <1>2, <1>4, <2>1, FS_AddElement, ZenonT(30)
    <2>. QED
      BY <1>4, <1>5, <2>2 DEF Decodes, IsCounted
  <1>7. ~u.decoded[b]
    BY <1>4 DEF IsCounted
  <1>8. ASSUME NEW k \in SbnOf(o) \ {b}
        PROVE  BlockOK(u, more, k)
    <2>1. u.blocks[k] = s.blocks[k] /\ u.seen[k] = s.seen[k] /\ u.decoded[k] = s.decoded[k]
      BY DEF Decodes, IsCounted
    <2>2. more[k] = taken[k] /\ u.oti = s.oti /\ BlockOK(s, taken, k)
      BY <1>3 DEF IsCounted, BlocksOK, With
    <2>. QED
      BY <2>1, <2>2, OthersStay
  <1>9. ASSUME ~(u.seen[b] >= Symbols[o][b]) \/ Gaps(u, b) # {}
        PROVE  BlockOK(u, more, b)
    <2>1. Gaps(u, b) # {}
      <3>1. SUFFICES ASSUME Gaps(u, b) = {}
                     PROVE  u.seen[b] >= Symbols[o][b]
        BY <1>9
      <3>2. SourceEsis(o, b) \in SUBSET more[b]
        BY <1>1, <1>3, <1>4, <1>5, <3>1 DEF Gaps, Decodes
      <3>3. /\ Cardinality(more[b]) \in Nat /\ IsFiniteSet(more[b])
            /\ Symbols[o][b] \in Nat
            /\ Cardinality(SourceEsis(o, b)) = Symbols[o][b]
        BY <1>5, FiniteEsis, Sizes
      <3>. QED
        BY <1>6, <3>2, <3>3, FS_Subset
    <2>. QED
      BY <1>1, <1>4, <1>5, <1>6, <1>7, <2>1 DEF BlockOK
  <1>. QED
    BY <1>1, <1>4, <1>5, <1>6, <1>7, <1>8, <1>9 DEF BlocksOK

\* A block that is solved, which it is not before there are enough symbols
LEMMA SolvedOK ==
    ASSUME NEW o \in Otis, NEW u, Decodes(o, u), NEW b \in SbnOf(o),
           NEW more \in [SbnOf(o) -> SUBSET Esis],
           Mask(u, b) # {}, u.seen[b] = Cardinality(more[b]),
           u.seen[b] >= Symbols[o][b],
           \A k \in SbnOf(o) \ {b} : BlockOK(u, more, k),
           NEW w \in Written(Rebuilt(u, b)), NEW t, IsSolved(o, u, b, w, t)
    PROVE  Decodes(o, t) /\ BlocksOK(o, t, more)
  <1>1. Decodes(o, t) /\ Gaps(t, b) = {}
    BY SolvedDecodes
  <1>2. t.decoded[b] = TRUE /\ t.seen = u.seen /\ t.oti = o
    BY DEF Decodes, IsSolved
  <1>3. BlockOK(t, more, b)
    BY <1>1, <1>2 DEF BlockOK
  <1>4. ASSUME NEW k \in SbnOf(o) \ {b}
        PROVE  BlockOK(t, more, k)
    <2>1. t.blocks[k] = u.blocks[k] /\ t.seen[k] = u.seen[k] /\ t.decoded[k] = u.decoded[k]
      BY DEF Decodes, IsSolved
    <2>2. t.oti = u.oti /\ BlockOK(u, more, k)
      BY DEF Decodes, IsSolved
    <2>. QED
      BY <2>1, <2>2, OthersStay
  <1>. QED
    BY <1>1, <1>3, <1>4 DEF BlocksOK

\* A session that begins: nothing is there, and everything is missing.
LEMMA FreshOK ==
    ASSUME NEW o \in Otis, NEW s, NEW taken, taken = [b \in SbnOf(o) |-> {}],
           s.oti = o, s.blocks = NoBlocks(o), s.file = NoPlaces(o),
           s.seen = [b \in SbnOf(o) |-> 0], s.decoded = [b \in SbnOf(o) |-> FALSE]
    PROVE  Decodes(o, s) /\ BlocksOK(o, s, taken)
  <1>1. s.blocks \in [SbnOf(o) -> [Esis -> Cells]]
    BY DEF NoBlocks, Cells
  <1>2. s.file \in Outputs(o)
    <2>. DEFINE R == UNION {[SourceEsis(o, b) -> Cells] : b \in SbnOf(o)}
    <2>1. \A b \in SbnOf(o) : [e \in SourceEsis(o, b) |-> NoSymbol]
                                  \in [SourceEsis(o, b) -> Cells]
      BY DEF Cells
    <2>2. \A b \in SbnOf(o) : [e \in SourceEsis(o, b) |-> NoSymbol] \in R
      BY <2>1
    <2>3. NoPlaces(o) \in [SbnOf(o) -> R]
      BY <2>2 DEF NoPlaces
    <2>4. \A b \in SbnOf(o) : NoPlaces(o)[b] \in [SourceEsis(o, b) -> Cells]
      BY <2>1 DEF NoPlaces
    <2>. QED
      BY <2>3, <2>4 DEF Outputs
  <1>3. ASSUME NEW b \in SbnOf(o)
        PROVE  BlockOK(s, taken, b)
    <2>1. s.seen[b] = 0 /\ ~s.decoded[b] /\ taken[b] = {}
      OBVIOUS
    <2>2. Mask(s, b) = {}
      BY DEF Mask, NoBlocks
    <2>3. 0 \in SourceEsis(o, b)
      BY Sizes DEF SourceEsis
    <2>4. Gaps(s, b) # {}
      BY <2>2, <2>3 DEF Gaps
    <2>5. Cardinality({}) = 0
      BY FS_EmptySet
    <2>. QED
      BY <2>1, <2>2, <2>4, <2>5 DEF BlockOK
  <1>4. taken \in [SbnOf(o) -> SUBSET Esis]
    OBVIOUS
  <1>5. Decodes(o, s)
    BY <1>1, <1>2 DEF Decodes
  <1>. QED
    BY <1>3, <1>4, <1>5 DEF BlocksOK

-----------------------------------------------------------------------------
(***************************************************************************)
(* Symbols of one contents.                                                *)
(***************************************************************************)

\* All symbols of s are of contents c, and each source symbol that is there is in
\* the file too, if the write did not fail.
HoldsOnly(s, c) ==
    \A b \in SbnOf(s.oti) :
        /\ \A e \in Esis : s.blocks[b][e] \in {NoSymbol, c}
        /\ \A e \in SourceEsis(s.oti, b) :
               s.blocks[b][e] # NoSymbol => s.file[b][e] \in {c, Lost}

LEMMA FreshHolds ==
    ASSUME NEW o \in Otis, NEW s, s.oti = o, s.blocks = NoBlocks(o), NEW c
    PROVE  HoldsOnly(s, c)
  <1>1. \A b \in SbnOf(o) : \A e \in Esis : s.blocks[b][e] = NoSymbol
    BY DEF NoBlocks
  <1>2. \A b \in SbnOf(o) : SourceEsis(o, b) \subseteq Esis
    BY Sizes
  <1>. QED
    BY <1>1, <1>2 DEF HoldsOnly

\* Symbols of one contents are solved to that contents.
LEMMA RebuiltOfOne ==
    ASSUME NEW s, NEW b \in SbnOf(s.oti), NEW c \in Contents, HoldsOnly(s, c), Mask(s, b) # {}
    PROVE  Rebuilt(s, b) = c
  <1>. DEFINE from == {s.blocks[b][e] : e \in Mask(s, b)}
  <1>1. \A e \in Mask(s, b) : s.blocks[b][e] = c
    BY DEF Mask, HoldsOnly
  <1>2. from = {c}
    BY <1>1
  <1>3. Cardinality(from) = 1
    BY <1>2, FS_Singleton
  <1>4. (CHOOSE x \in from : TRUE) = c
    BY <1>2
  <1>. QED
    BY <1>3, <1>4 DEF Rebuilt

\* A symbol of the same contents keeps the session of one contents.
LEMMA CountedHolds ==
    ASSUME NEW o \in Otis, NEW s, Decodes(o, s), NEW b \in SbnOf(o), NEW e \in Esis,
           NEW c \in Contents, NEW w \in Written(c), HoldsOnly(s, c),
           NEW u, IsCounted(o, s, b, e, c, w, u)
    PROVE  HoldsOnly(u, c)
  <1>1. /\ s.oti = o /\ s.blocks \in [SbnOf(o) -> [Esis -> Cells]]
        /\ s.file \in Outputs(o)
    BY DEF Decodes
  <1>2. /\ DOMAIN s.file = SbnOf(o)
        /\ \A k \in SbnOf(o) : s.file[k] \in [SourceEsis(o, k) -> Cells]
    BY <1>1 DEF Outputs
  <1>3. /\ u.oti = o
        /\ u.blocks = [s.blocks EXCEPT ![b] = [s.blocks[b] EXCEPT ![e] = c]]
        /\ u.file = [s.file EXCEPT ![b] = IF e \in SourceEsis(o, b)
                                          THEN [s.file[b] EXCEPT ![e] = w]
                                          ELSE s.file[b]]
    BY DEF IsCounted
  <1>4. w \in {c, Lost}
    BY DEF Written
  <1>5. ASSUME NEW k \in SbnOf(o), NEW d \in Esis
        PROVE  u.blocks[k][d] \in {NoSymbol, c}
    <2>1. s.blocks[k][d] \in {NoSymbol, c}
      BY <1>1 DEF HoldsOnly
    <2>2. u.blocks[k][d] = IF k = b /\ d = e THEN c ELSE s.blocks[k][d]
      BY <1>1, <1>3
    <2>. QED
      BY <2>1, <2>2
  <1>6. ASSUME NEW k \in SbnOf(o), NEW d \in SourceEsis(o, k), u.blocks[k][d] # NoSymbol
        PROVE  u.file[k][d] \in {c, Lost}
    <2>1. d \in Esis
      BY Sizes
    <2>2. CASE k = b /\ d = e
      <3>1. u.file[k] = [s.file[b] EXCEPT ![e] = w]
        BY <1>2, <1>3, <2>2
      <3>. QED
        BY <1>2, <1>4, <2>2, <3>1
    <2>3. CASE ~(k = b /\ d = e)
      <3>1. u.blocks[k][d] = s.blocks[k][d]
        BY <1>1, <1>3, <2>1, <2>3
      <3>2. s.file[k][d] \in {c, Lost}
        BY <1>1, <1>6, <3>1 DEF HoldsOnly
      <3>3. u.file[k][d] = s.file[k][d]
        BY <1>2, <1>3, <2>3
      <3>. QED
        BY <3>2, <3>3
    <2>. QED
      BY <2>2, <2>3
  <1>. QED
    BY <1>3, <1>5, <1>6 DEF HoldsOnly

\* So does a block that is solved.
LEMMA SolvedHolds ==
    ASSUME NEW o \in Otis, NEW s, Decodes(o, s), NEW b \in SbnOf(o),
           NEW c \in Contents, HoldsOnly(s, c), Mask(s, b) # {},
           NEW w \in Written(Rebuilt(s, b)),
           NEW t, IsSolved(o, s, b, w, t)
    PROVE  HoldsOnly(t, c)
  <1>1. /\ s.oti = o /\ s.blocks \in [SbnOf(o) -> [Esis -> Cells]]
        /\ s.file \in Outputs(o)
    BY DEF Decodes
  <1>2. DOMAIN s.file = SbnOf(o)
    BY <1>1 DEF Outputs
  <1>3. /\ t.oti = o
        /\ t.blocks = [s.blocks EXCEPT ![b] = SetRebuilt(s, b)]
        /\ t.file = [s.file EXCEPT ![b] = [e \in SourceEsis(o, b) |->
                                             IF e \in Gaps(s, b) THEN w
                                             ELSE s.file[b][e]]]
    BY DEF IsSolved
  <1>4. Rebuilt(s, b) = c /\ w \in {c, Lost}
    BY <1>1, RebuiltOfOne DEF Written
  <1>5. ASSUME NEW k \in SbnOf(o), NEW d \in Esis
        PROVE  t.blocks[k][d] \in {NoSymbol, c}
    <2>1. s.blocks[k][d] \in {NoSymbol, c}
      BY <1>1 DEF HoldsOnly
    <2>2. t.blocks[k][d] \in {c, s.blocks[k][d]}
      BY <1>1, <1>3, <1>4 DEF SetRebuilt
    <2>. QED
      BY <2>1, <2>2
  <1>6. ASSUME NEW k \in SbnOf(o), NEW d \in SourceEsis(o, k), t.blocks[k][d] # NoSymbol
        PROVE  t.file[k][d] \in {c, Lost}
    <2>1. d \in Esis
      BY Sizes
    <2>2. CASE k = b /\ d \in Gaps(s, b)
      BY <1>2, <1>3, <1>4, <2>2
    <2>3. CASE k = b /\ d \notin Gaps(s, b)
      <3>1. s.blocks[b][d] # NoSymbol
        BY <1>1, <2>1, <2>3 DEF Gaps, Mask
      <3>2. s.file[b][d] \in {c, Lost}
        BY <1>1, <2>3, <3>1 DEF HoldsOnly
      <3>. QED
        BY <1>2, <1>3, <2>3, <3>2
    <2>4. CASE k # b
      <3>1. t.blocks[k] = s.blocks[k] /\ t.file[k] = s.file[k]
        BY <1>1, <1>2, <1>3, <2>4
      <3>. QED
        BY <1>1, <1>6, <3>1 DEF HoldsOnly
    <2>. QED
      BY <2>2, <2>3, <2>4
  <1>. QED
    BY <1>3, <1>5, <1>6 DEF HoldsOnly

\* A file all blocks of which are decoded is whole.
LEMMA CompleteHoldsWhole ==
    ASSUME NEW t, NEW taken, BlocksOK(t.oti, t, taken),
           \A b \in SbnOf(t.oti) : t.decoded[b],
           NEW c, HoldsOnly(t, c)
    PROVE  HoldsWhole(t.oti, t.file, c)
  <1>. SUFFICES ASSUME NEW b \in SbnOf(t.oti), NEW e \in SourceEsis(t.oti, b)
                PROVE  t.file[b][e] \in {c, Lost}
    BY DEF HoldsWhole
  <1>1. BlockOK(t, taken, b) /\ t.decoded[b]
    BY DEF BlocksOK
  <1>2. e \in Mask(t, b)
    BY <1>1 DEF BlockOK, Gaps
  <1>. QED
    BY <1>2 DEF Mask, HoldsOnly
=============================================================================
