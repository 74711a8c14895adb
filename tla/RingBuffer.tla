----------------------------- MODULE RingBuffer -----------------------------
(***************************************************************************)
(* The ring of ring_buffer_posix.c, as the programs share it with the      *)
(* modem through POSIX shared memory: a circular array with head, tail and *)
(* full, one process-shared mutex and ONE condition variable on which      *)
(* writers and readers both wait.  Every blocking operation is the loop    *)
(*                                                                         *)
(*   again: lock; if (can proceed) { effect; signal; unlock; return }      *)
(*          else { cond_wait; unlock; goto again }                         *)
(*                                                                         *)
(* and each arrow of that loop is an action here, so that clients          *)
(* interleave wherever the mutex lets them.  What happens while a client   *)
(* holds the mutex is one step: no other client can look.                  *)
(***************************************************************************)
EXTENDS Integers, Sequences

CONSTANTS
    Clients,    \* the threads or processes attached to the ring
    Byte,       \* the values of one byte
    Max,        \* internal->max, the capacity
    Calls,      \* Calls[c]: the set of calls client c may issue
    Killable,   \* clients that may be killed (SIGKILL, crash) at any point
    NoClient    \* the owner of a free mutex

VARIABLES
    head,       \* internal->head: next slot to write
    tail,       \* internal->tail: next slot to read
    full,       \* internal->full: tells full from empty when head = tail
    buffer,     \* cbuf->buffer, a function on 0 .. Max - 1
    mutex,      \* owner of internal->mutex, or NoClient
    pc,         \* where each client stands in the loop above
    call,       \* call[c]: the call c is executing, or NoCall
    done        \* done[c]: what the last completed call of c returned

ringVars == <<head, tail, full, buffer>>
vars == <<head, tail, full, buffer, mutex, pc, call, done>>

-----------------------------------------------------------------------------
(***************************************************************************)
(* Pointer arithmetic.                                                     *)
(***************************************************************************)

\* circular_buf_size_internal and circular_buf_free_size_internal; the public
\* size_buffer and circular_buf_free_size repeat the same computation.
SizeInternal(h, t, f) ==
    IF f THEN Max ELSE IF h >= t THEN h - t ELSE Max + h - t

FreeSizeInternal(h, t, f) ==
    IF f THEN 0 ELSE IF h >= t THEN Max - (h - t) ELSE t - h

\* A slip of Contiguous: the wrap test without its modulo.
ContiguousWithoutModulo(from, len) ==
    IF from + len > from THEN len ELSE Max - from

\* A length as memcpy sees it before the wrap: up to the end of the array,
\* or all of it.
Contiguous(from, len) ==
    IF (from + len) % Max > from THEN len ELSE Max - from

\* The two memcpy of write_buffer: at head, and what is left at slot 0.
CopyIn(data, len) ==
    LET first == Contiguous(head, len)
    IN  [i \in 0 .. Max - 1 |->
            IF head <= i /\ i < head + first THEN data[i - head + 1]
            ELSE IF i < len - first THEN data[first + i + 1]
            ELSE buffer[i]]

\* The two memcpy of read_buffer and read_buffer_all.
CopyOut(len) ==
    LET first == Contiguous(tail, len)
    IN  [i \in 1 .. len |->
            IF i <= first THEN buffer[tail + i - 1] ELSE buffer[i - first - 1]]

\* A slip of AdvancePointer: head is not brought back into the array.
AdvancePointerWithoutModulo(len) ==
    /\ tail' = IF full THEN (tail + len) % Max ELSE tail
    /\ head' = head + len
    /\ full' = (head' = tail')

\* advance_pointer_n and advance_pointer (len = 1).
AdvancePointer(len) ==
    /\ tail' = IF full THEN (tail + len) % Max ELSE tail
    /\ head' = (head + len) % Max
    /\ full' = (head' = tail')

\* A slip of RetreatPointer: full outlives the bytes.
RetreatPointerStaysFull(len) ==
    /\ full' = full
    /\ tail' = (tail + len) % Max
    /\ head' = head

\* retreat_pointer_n and retreat_pointer (len = 1).
RetreatPointer(len) ==
    /\ full' = FALSE
    /\ tail' = (tail + len) % Max
    /\ head' = head

Size == SizeInternal(head, tail, full)
FreeSize == FreeSizeInternal(head, tail, full)

\* The bytes in the ring, oldest first: the queue the ring stands for.
Contents == [i \in 1 .. Size |-> buffer[(tail + i - 1) % Max]]

BQ == INSTANCE ByteQueue WITH queue <- Contents

NoCall == BQ!NoCall

\* The calls the ring is made for.  A length of 0 or beyond the capacity is
\* excluded: no caller passes one, and the code neither rejects nor serves it.
Served(k) ==
    /\ k \in BQ!Call
    /\ k.op \in {"write_buffer", "put"} => k.len = Len(k.data)
    /\ k.op \in {"write_buffer", "read_buffer"} => k.len \in 1 .. Max
    /\ k.op \in {"put", "get"} => k.len = 1

ASSUME RingAssumption ==
    /\ Max \in Nat \ {0}
    /\ NoClient \notin Clients
    /\ Killable \subseteq Clients
    /\ \A c \in Clients : \A k \in Calls[c] : Served(k)

-----------------------------------------------------------------------------
(***************************************************************************)
(* The condition each operation tests once it holds the mutex.             *)
(***************************************************************************)
CanWrite(len) == FreeSize >= len
CanPut == ~full
CanRead(len) == Size >= len
CanReadAll == Size > 0
CanGet == ~(~full /\ head = tail)

Ready(k) ==
    \/ k.op = "write_buffer" /\ CanWrite(k.len)
    \/ k.op = "put" /\ CanPut
    \/ k.op = "read_buffer" /\ CanRead(k.len)
    \/ k.op = "read_buffer_all" /\ CanReadAll
    \/ k.op = "get" /\ CanGet
    \/ k.op \in {"reset", "size_buffer"}

Waiters == {c \in Clients : pc[c] = "wait"}

\* A slip of SignalWakes: signal only when the ring was empty, as a ring with
\* one condition variable per side could.
SignalWakesReaderOnly(c, w) ==
    /\ w \in IF Waiters = {} \/ Size # 0 THEN {c} ELSE Waiters
    /\ pc' = [pc EXCEPT ![w] = "reacquire", ![c] = "idle"]

\* pthread_cond_signal: one waiter leaves the condition variable, whichever
\* the implementation picks; a signal nobody waits for is lost.
SignalWakes(c, w) ==
    /\ w \in IF Waiters = {} THEN {c} ELSE Waiters
    /\ pc' = [pc EXCEPT ![w] = "reacquire", ![c] = "idle"]

\* pthread_mutex_unlock and return n, with data stored for the caller.
Return(c, n, data) ==
    /\ mutex' = NoClient
    /\ call' = [call EXCEPT ![c] = NoCall]
    /\ done' = [done EXCEPT ![c] = [op |-> call[c].op, n |-> n, data |-> data]]

\* A slip of SignalUnlockReturn: the signal is forgotten.
UnlockReturnWithoutSignal(c, n, data) ==
    /\ pc' = [pc EXCEPT ![c] = "idle"]
    /\ Return(c, n, data)

SignalUnlockReturn(c, n, data) ==
    /\ \E w \in Clients : SignalWakes(c, w)
    /\ Return(c, n, data)

UnlockReturn(c, n, data) ==
    /\ pc' = [pc EXCEPT ![c] = "idle"]
    /\ Return(c, n, data)

\* pthread_cond_wait: release the mutex and wait, in one step.
CondWait(c) ==
    /\ mutex' = NoClient
    /\ pc' = [pc EXCEPT ![c] = "wait"]
    /\ UNCHANGED <<ringVars, call, done>>

-----------------------------------------------------------------------------
Init ==
    /\ head = 0
    /\ tail = 0
    /\ full = FALSE
    /\ buffer \in [0 .. Max - 1 -> Byte]
    /\ mutex = NoClient
    /\ pc = [c \in Clients |-> "idle"]
    /\ call = [c \in Clients |-> NoCall]
    /\ done = [c \in Clients |-> BQ!NoResult]

Invoke(c) ==
    /\ pc[c] = "idle"
    /\ \E k \in Calls[c] : call' = [call EXCEPT ![c] = k]
    /\ pc' = [pc EXCEPT ![c] = "lock"]
    /\ UNCHANGED <<ringVars, mutex, done>>

Lock(c) ==
    /\ pc[c] = "lock"
    /\ mutex = NoClient
    /\ mutex' = c
    /\ pc' = [pc EXCEPT ![c] = "locked"]
    /\ UNCHANGED <<ringVars, call, done>>

In(c, op) == pc[c] = "locked" /\ call[c].op = op

WriteBuffer(c) ==
    /\ In(c, "write_buffer")
    /\ \/ /\ CanWrite(call[c].len)
          /\ buffer' = CopyIn(call[c].data, call[c].len)
          /\ AdvancePointer(call[c].len)
          /\ SignalUnlockReturn(c, 0, << >>)
       \/ /\ ~CanWrite(call[c].len)
          /\ CondWait(c)

Put(c) ==
    /\ In(c, "put")
    /\ \/ /\ CanPut
          /\ buffer' = [buffer EXCEPT ![head] = call[c].data[1]]
          /\ AdvancePointer(1)
          /\ SignalUnlockReturn(c, 0, << >>)
       \/ /\ ~CanPut
          /\ CondWait(c)

ReadBuffer(c) ==
    /\ In(c, "read_buffer")
    /\ \/ /\ CanRead(call[c].len)
          /\ RetreatPointer(call[c].len)
          /\ SignalUnlockReturn(c, 0, CopyOut(call[c].len))
          /\ UNCHANGED buffer
       \/ /\ ~CanRead(call[c].len)
          /\ CondWait(c)

ReadBufferAll(c) ==
    /\ In(c, "read_buffer_all")
    /\ \/ /\ CanReadAll
          /\ RetreatPointer(Size)
          /\ SignalUnlockReturn(c, Size, CopyOut(Size))
          /\ UNCHANGED buffer
       \/ /\ ~CanReadAll
          /\ CondWait(c)

Get(c) ==
    /\ In(c, "get")
    /\ \/ /\ CanGet
          /\ RetreatPointer(1)
          /\ SignalUnlockReturn(c, 0, <<buffer[tail]>>)
          /\ UNCHANGED buffer
       \/ /\ ~CanGet
          /\ CondWait(c)

\* circular_buf_reset empties the ring and signals nobody.
Reset(c) ==
    /\ In(c, "reset")
    /\ head' = 0
    /\ tail' = 0
    /\ full' = FALSE
    /\ UNCHANGED buffer
    /\ UnlockReturn(c, 0, << >>)

\* A slip of SizeBuffer: the slot at head is counted too.
SizeBufferOffByOne(c) ==
    /\ In(c, "size_buffer")
    /\ UnlockReturn(c, Size + 1, << >>)
    /\ UNCHANGED ringVars

SizeBuffer(c) ==
    /\ In(c, "size_buffer")
    /\ UnlockReturn(c, Size, << >>)
    /\ UNCHANGED ringVars

\* A woken waiter gets the mutex back inside pthread_cond_wait ...
Reacquire(c) ==
    /\ pc[c] = "reacquire"
    /\ mutex = NoClient
    /\ mutex' = c
    /\ pc' = [pc EXCEPT ![c] = "reacquired"]
    /\ UNCHANGED <<ringVars, call, done>>

\* ... only to release it and go back to try_again.
TryAgain(c) ==
    /\ pc[c] = "reacquired"
    /\ mutex' = NoClient
    /\ pc' = [pc EXCEPT ![c] = "lock"]
    /\ UNCHANGED <<ringVars, call, done>>

\* POSIX lets pthread_cond_wait return with no signal.
SpuriousWakeup(c) ==
    /\ pc[c] = "wait"
    /\ pc' = [pc EXCEPT ![c] = "reacquire"]
    /\ UNCHANGED <<ringVars, mutex, call, done>>

\* A client dies wherever it stands.  The mutex is not robust: if the client
\* held it, it stays locked.
Kill(c) ==
    /\ c \in Killable
    /\ pc[c] # "dead"
    /\ pc' = [pc EXCEPT ![c] = "dead"]
    /\ UNCHANGED <<ringVars, mutex, call, done>>

Serve(c) ==
    \/ WriteBuffer(c)
    \/ Put(c)
    \/ ReadBuffer(c)
    \/ ReadBufferAll(c)
    \/ Get(c)
    \/ Reset(c)
    \/ SizeBuffer(c)

\* The steps the thread takes on its own once it has issued a call.
Run(c) == Lock(c) \/ Serve(c) \/ Reacquire(c) \/ TryAgain(c)

Next == \E c \in Clients : Invoke(c) \/ Run(c) \/ SpuriousWakeup(c) \/ Kill(c)

Spec == Init /\ [][Next]_vars

\* A thread that can run does run, and a mutex that stays free is taken.
\* Nothing is assumed of spurious wake-ups, nor of the callers: a client may
\* stop issuing calls at any time.
FairSpec == Spec /\ \A c \in Clients : WF_vars(Run(c))

-----------------------------------------------------------------------------
(***************************************************************************)
(* Properties.                                                             *)
(***************************************************************************)
PCs == {"idle", "lock", "locked", "wait", "reacquire", "reacquired", "dead"}

HoldsMutex(c) == pc[c] \in {"locked", "reacquired"}

\* Types, the meaning of full (only when head meets tail), the owner of the
\* mutex (exactly the client inside the critical section, or one that died
\* there), and a client has a call exactly while it executes one.
TypeOK ==
    /\ head \in 0 .. Max - 1
    /\ tail \in 0 .. Max - 1
    /\ full \in BOOLEAN
    /\ full => head = tail
    /\ buffer \in [0 .. Max - 1 -> Byte]
    /\ mutex \in Clients \union {NoClient}
    /\ pc \in [Clients -> PCs]
    /\ call \in [Clients -> BQ!Call \union {NoCall}]
    /\ done \in [Clients -> BQ!Result]
    /\ \A c \in Clients :
          /\ HoldsMutex(c) => mutex = c
          /\ mutex = c => HoldsMutex(c) \/ pc[c] = "dead"
          /\ pc[c] = "idle" => call[c] = NoCall
          /\ pc[c] \notin {"idle", "dead"} => call[c] \in Calls[c]

\* The ring is the blocking byte FIFO of module ByteQueue: whatever the
\* interleaving, wherever the array wraps, bytes come out in the order and
\* the chunks they went in, all or nothing, and each call takes effect once,
\* in the step in which it returns.
RefinesByteQueue == BQ!Spec

\* With a single condition variable for both conditions, a client that is
\* left asleep is one that has nothing to do: no signal goes astray.
NoMissedWakeup == \A c \in Waiters : ~Ready(call[c])

\* The clients never all end up asleep, each waiting for another.
SomeoneAwake == Waiters # Clients

\* read_frame_from_input (receiver.c) asks size_buffer first, so that the
\* read_buffer that follows does not block on a signal that would not
\* interrupt it: once a client was told n bytes are there, a read_buffer of
\* at most n bytes does not wait.
CheckedReadNeverWaits == \A c \in Waiters :
    ~ /\ call[c].op = "read_buffer"
      /\ done[c].op = "size_buffer"
      /\ call[c].len <= done[c].n

\* Each side's calls return for as long as the other side keeps calling: no
\* interleaving, wrap or signal order blocks a client for ever.  Waiters that
\* wake up on their own and readers that only ask for the size are allowed, but
\* not for ever: each of them takes the mutex, which weak fairness does not
\* share out.
EveryCallReturns ==
    <>[][\A c \in Clients :
            ~SpuriousWakeup(c) /\ call'[c].op # "size_buffer"]_vars =>
        \A c \in Clients :
            (\A d \in Clients \ {c} : []<>(call[d] # NoCall)) =>
                ((call[c] # NoCall) ~> (call[c] = NoCall))

=============================================================================
