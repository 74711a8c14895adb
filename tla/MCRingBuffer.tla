---------------------------- MODULE MCRingBuffer ----------------------------
(***************************************************************************)
(* The instances of RingBuffer that TLC checks.                            *)
(***************************************************************************)
EXTENDS RingBuffer

CONSTANTS w1, w2, r1, r2, a, b

Write(n, bytes) ==
    {[op |-> "write_buffer", data |-> d, len |-> n] : d \in [1 .. n -> bytes]}
PutCalls(bytes) == {[op |-> "put", data |-> <<x>>, len |-> 1] : x \in bytes}
Read(n) == [op |-> "read_buffer", data |-> << >>, len |-> n]
ReadAll == [op |-> "read_buffer_all", data |-> << >>, len |-> 0]
GetCall == [op |-> "get", data |-> << >>, len |-> 1]
SizeCall == [op |-> "size_buffer", data |-> << >>, len |-> 0]
ResetCall == [op |-> "reset", data |-> << >>, len |-> 0]

\* One writer, one reader: the programs' and the modem's use of a ring.
PairWriter == Write(1, {a, b}) \union Write(2, {a, b})
PairReader == {Read(1), Read(2), SizeCall}
PairCalls == [c \in {w1, r1} |-> IF c = w1 THEN PairWriter ELSE PairReader]

\* A writer that uses put and reset, and two readers, one of which dies.
MixedCalls ==
    [c \in {w1, r1, r2} |->
        CASE c = w1 -> PutCalls({a, b}) \union {ResetCall} \union Write(2, {b})
          [] c = r1 -> {ReadAll, Read(2)}
          [] c = r2 -> {GetCall}]
=============================================================================
