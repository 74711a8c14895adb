----------------------------- MODULE ByteQueue -----------------------------
(***************************************************************************)
(* What the blocking byte ring of ring_buffer_posix.c promises: a bounded  *)
(* FIFO of bytes on which every call takes effect in one step.  A call is  *)
(* issued, is pending for as long as it blocks, takes effect at once and   *)
(* returns.  Nothing is said of heads, tails, locks or wake-ups.           *)
(***************************************************************************)
EXTENDS Integers, Sequences

CONSTANTS
    Clients,    \* the threads or processes attached to the ring
    Byte,       \* the values of one byte
    Max,        \* capacity of the ring (internal->max)
    Calls       \* Calls[c]: the set of calls client c may issue

Ops == {"write_buffer", "put", "read_buffer", "read_buffer_all", "get",
        "reset", "size_buffer"}

\* A call as the client issues it: data is what a writer passes, len how many
\* bytes it writes or wants.
Call == [op : Ops, data : Seq(Byte), len : Nat]

NoCall == [op |-> "none", data |-> << >>, len |-> 0]

\* What the last completed call of a client handed back: its int result n
\* and the bytes it stored through the data pointer.
Result == [op : Ops \union {"none"}, n : Int, data : Seq(Byte)]

NoResult == [op |-> "none", n |-> -1, data |-> << >>]

VARIABLES
    queue,      \* the bytes in the ring, oldest first
    call,       \* call[c]: the call client c has pending, or NoCall
    done        \* done[c]: what the last completed call of c returned

vars == <<queue, call, done>>

Init ==
    /\ queue = << >>
    /\ call = [c \in Clients |-> NoCall]
    /\ done = [c \in Clients |-> NoResult]

Invoke(c) ==
    /\ call[c] = NoCall
    /\ \E k \in Calls[c] : call' = [call EXCEPT ![c] = k]
    /\ UNCHANGED <<queue, done>>

Return(c, n, data) ==
    /\ call' = [call EXCEPT ![c] = NoCall]
    /\ done' = [done EXCEPT ![c] = [op |-> call[c].op, n |-> n, data |-> data]]

\* write_buffer and put: all the bytes or none, only when all of them fit.
Enqueue(c) ==
    /\ call[c].op \in {"write_buffer", "put"}
    /\ Len(queue) + call[c].len <= Max
    /\ queue' = queue \o call[c].data
    /\ Return(c, 0, << >>)

\* read_buffer and get: exactly len bytes, the oldest ones.
Take(c) ==
    /\ call[c].op \in {"read_buffer", "get"}
    /\ call[c].len <= Len(queue)
    /\ queue' = SubSeq(queue, call[c].len + 1, Len(queue))
    /\ Return(c, 0, SubSeq(queue, 1, call[c].len))

\* read_buffer_all: everything there is, once there is something.
TakeAll(c) ==
    /\ call[c].op = "read_buffer_all"
    /\ queue # << >>
    /\ queue' = << >>
    /\ Return(c, Len(queue), queue)

Clear(c) ==
    /\ call[c].op = "reset"
    /\ queue' = << >>
    /\ Return(c, 0, << >>)

\* size_buffer: an exact count at some instant of the call.
Count(c) ==
    /\ call[c].op = "size_buffer"
    /\ UNCHANGED queue
    /\ Return(c, Len(queue), << >>)

Next == \E c \in Clients :
    \/ Invoke(c)
    \/ Enqueue(c)
    \/ Take(c)
    \/ TakeAll(c)
    \/ Clear(c)
    \/ Count(c)

Spec == Init /\ [][Next]_vars
=============================================================================
