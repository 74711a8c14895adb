------------------------------ MODULE Decoder ------------------------------
(***************************************************************************)
(* The decoder of nanorq.c, as the daemon and the receiver use it: which   *)
(* symbols of which blocks are there, what is written where in the output  *)
(* file, and when a block can be solved.                                   *)
(*                                                                         *)
(* A symbol is represented by the contents of the file it was made from.   *)
(* Linear algebra is abstract: a block is solved surely from all its       *)
(* source symbols, perhaps from as many symbols as it has source symbols,  *)
(* and surely with SureOverhead more.                                      *)
(*                                                                         *)
(* The operators take a record s with the fields oti, blocks and file; the *)
(* sessions of the programs are such records, with more fields.            *)
(***************************************************************************)
EXTENDS Integers, FiniteSets

CONSTANTS
    Otis,         \* the objects: what an OTI says of them
    Symbols,      \* Symbols[o][b]: number of source symbols of block b of o
    Contents,     \* what files of these OTIs may hold
    MaxEsi,       \* bound: the largest ESI there is, at most MAX_ESI
    SureOverhead, \* this many extra symbols always make the matrix regular
    DiskMayFail,  \* whether making or writing the output file may fail
    NoOti,        \* no object
    NoSymbol,     \* a symbol that is not there
    Garbage,      \* bytes computed from symbols of several contents
    Lost          \* a place in the file of which the write failed

Esis == 0 .. MaxEsi
SbnOf(o) == DOMAIN Symbols[o]
SourceEsis(o, b) == 0 .. Symbols[o][b] - 1

ASSUME SymbolsAssumption ==
    /\ MaxEsi \in Nat
    /\ SureOverhead \in Nat
    /\ DiskMayFail \in BOOLEAN
    /\ \A o \in Otis : /\ SbnOf(o) \subseteq Nat
                       /\ SbnOf(o) # {}
                       /\ IsFiniteSet(SbnOf(o))
                       /\ Symbols[o] \in [SbnOf(o) -> 1 .. MaxEsi + 1]
ASSUME MarksAssumption ==
    /\ NoOti \notin Otis
    /\ NoSymbol \notin Contents
    /\ Garbage \notin Contents \union {NoSymbol, Lost}
    /\ Lost \notin Contents \union {NoSymbol}

\* What the decoder of object o begins with, and what a file may come to hold.
NoBlocks(o) == [b \in SbnOf(o) |-> [e \in Esis |-> NoSymbol]]
NoPlaces(o) == [b \in SbnOf(o) |-> [e \in SourceEsis(o, b) |-> NoSymbol]]
Cells == Contents \union {NoSymbol, Garbage, Lost}

-----------------------------------------------------------------------------
(***************************************************************************)
(* blocks[b][e] # NoSymbol says that bit e of the block's repair_mask is   *)
(* set; from the first ESI that is no source symbol on, the same symbols   *)
(* make up its repair_bin.                                                 *)
(***************************************************************************)

Mask(s, b) == {e \in Esis : s.blocks[b][e] # NoSymbol}
Gaps(s, b) == SourceEsis(s.oti, b) \ Mask(s, b)
RepairBin(s, b) == Mask(s, b) \ SourceEsis(s.oti, b)

\* A slip of SymbolResult: a symbol that came before is counted again.
SymbolResultNoDup(s, b, e) ==
    IF b \in SbnOf(s.oti) /\ Gaps(s, b) # {} THEN "ADDED" ELSE "IGN"

\* nanorq_decoder_add_symbol.  A block the object does not have has no source
\* symbols (nanorq_block_symbols), hence no gaps, and its symbols are ignored.
SymbolResult(s, b, e) ==
    IF b \notin SbnOf(s.oti) THEN "IGN"
    ELSE IF Gaps(s, b) = {} THEN "IGN"
    ELSE IF e \in Mask(s, b) THEN "DUP"
    ELSE "ADDED"

\* What a write of c leaves in the file: nobody looks at its result.
Written(c) == {c} \union (IF DiskMayFail THEN {Lost} ELSE {})

\* A source symbol also goes to its place in the file, as w.
AddSymbol(s, b, e, c, w) ==
    [s EXCEPT !.blocks[b][e] = c,
              !.file[b] = IF e \in SourceEsis(s.oti, b)
                          THEN [@ EXCEPT ![e] = w] ELSE @]

\* nanorq_repair_block, when it is called: too few repair symbols are refused,
\* too few independent ones leave the matrix singular.
Solvable(s, b) == Cardinality(RepairBin(s, b)) >= Cardinality(Gaps(s, b))
Overhead(s, b) == Cardinality(RepairBin(s, b)) - Cardinality(Gaps(s, b))
RepairResults(s, b) ==
    IF Gaps(s, b) = {} THEN {TRUE}
    ELSE IF ~Solvable(s, b) THEN {FALSE}
    ELSE IF Overhead(s, b) >= SureOverhead THEN {TRUE} ELSE BOOLEAN

\* The rows that are rebuilt hold the contents all symbols agree on.
Rebuilt(s, b) ==
    LET from == {s.blocks[b][e] : e \in Mask(s, b)}
    IN  IF Cardinality(from) = 1 THEN CHOOSE c \in from : TRUE ELSE Garbage

SetRebuilt(s, b) ==
    [e \in Esis |-> IF e \in Gaps(s, b) THEN Rebuilt(s, b) ELSE s.blocks[b][e]]

\* A slip of Repaired: the rows are rebuilt and not written.
RepairedNotWritten(s, b, w) == [s EXCEPT !.blocks[b] = SetRebuilt(s, b)]

\* write_repair_rows: the gaps, and only they, are written and marked.
Repaired(s, b, w) ==
    [s EXCEPT !.blocks[b] = SetRebuilt(s, b),
              !.file[b] = [e \in SourceEsis(s.oti, b) |->
                              IF e \in Gaps(s, b) THEN w ELSE @[e]]]

\* What nanorq_repair_block returns (ok), and the session it leaves.
RepairBlock(s, b) ==
    UNION {IF ok
           THEN {[ok |-> TRUE, session |-> Repaired(s, b, w)] :
                    w \in Written(Rebuilt(s, b))}
           ELSE {[ok |-> FALSE, session |-> s]} : ok \in RepairResults(s, b)}

\* Every place of the file was written, and with the contents c, unless the
\* write failed.
HoldsWhole(o, file, c) ==
    \A b \in SbnOf(o) : \A e \in SourceEsis(o, b) : file[b][e] \in {c, Lost}
=============================================================================
