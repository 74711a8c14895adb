-------------------------- MODULE RingBufferProofs --------------------------
(***************************************************************************)
(* Theorems about RingBuffer, for any capacity, any set of clients and any *)
(* calls that satisfy RingAssumption.                                      *)
(***************************************************************************)
EXTENDS RingBuffer, SequenceTheorems, TLAPS

(***************************************************************************)
(* Arithmetic of the array.                                                *)
(***************************************************************************)

\* An index moved by at most the capacity wraps at most once.
LEMMA Wrap ==
    ASSUME NEW i \in 0 .. Max - 1, NEW n \in 0 .. Max
    PROVE  /\ (i + n) % Max \in 0 .. Max - 1
           /\ i + n < Max => (i + n) % Max = i + n
           /\ i + n >= Max => (i + n) % Max = i + n - Max
  BY RingAssumption, SMT

\* The first memcpy stays inside the array and inside the data, and what is
\* left over starts at slot 0 only when the first one reached the end.
LEMMA ContiguousBounds ==
    ASSUME NEW i \in 0 .. Max - 1, NEW n \in 1 .. Max
    PROVE  /\ Contiguous(i, n) \in 1 .. n
           /\ i + Contiguous(i, n) <= Max
           /\ Contiguous(i, n) < n => i + Contiguous(i, n) = Max
           /\ i + n <= Max => Contiguous(i, n) = n
  <1>1. Max \in Nat \ {0} /\ n \in 0 .. Max
    BY RingAssumption
  <1>2. i + n < Max => (i + n) % Max = i + n
    BY <1>1, Wrap
  <1>3. i + n >= Max => (i + n) % Max = i + n - Max
    BY <1>1, Wrap
  <1>. QED
    BY <1>1, <1>2, <1>3 DEF Contiguous

\* Used and free bytes add up to the capacity.
LEMMA SizeBounds ==
    ASSUME NEW h \in 0 .. Max - 1, NEW t \in 0 .. Max - 1, NEW f \in BOOLEAN,
           f => h = t
    PROVE  /\ SizeInternal(h, t, f) \in 0 .. Max
           /\ FreeSizeInternal(h, t, f) = Max - SizeInternal(h, t, f)
           /\ (SizeInternal(h, t, f) = 0) <=> (~f /\ h = t)
           /\ (SizeInternal(h, t, f) = Max) <=> f
           /\ (t + SizeInternal(h, t, f)) % Max = h
  <1>1. Max \in Nat \ {0}
    BY RingAssumption
  <1>2. /\ SizeInternal(h, t, f) \in 0 .. Max
        /\ FreeSizeInternal(h, t, f) = Max - SizeInternal(h, t, f)
        /\ (SizeInternal(h, t, f) = 0) <=> (~f /\ h = t)
        /\ (SizeInternal(h, t, f) = Max) <=> f
        /\ t + SizeInternal(h, t, f) \in {h, h + Max}
    BY <1>1 DEF SizeInternal, FreeSizeInternal
  <1>3. (t + SizeInternal(h, t, f)) % Max = h
    <2>. DEFINE n == SizeInternal(h, t, f)
    <2>1. n \in 0 .. Max /\ t + n \in {h, h + Max}
      BY <1>2
    <2>2. t + n < Max => (t + n) % Max = t + n
      BY <2>1, Wrap
    <2>3. t + n >= Max => (t + n) % Max = t + n - Max
      BY <2>1, Wrap
    <2>. HIDE DEF n
    <2>4. (t + n) % Max = h
      BY <1>1, <2>1, <2>2, <2>3
    <2>. QED
      BY <2>4 DEF n
  <1>. QED
    BY <1>2, <1>3

-----------------------------------------------------------------------------
(***************************************************************************)
(* Type correctness.                                                       *)
(***************************************************************************)

\* Everything a body of the critical section needs to know of its call.
LEMMA CallInService ==
    ASSUME TypeOK, NEW c \in Clients, pc[c] = "locked"
    PROVE  /\ call[c] \in BQ!Call
           /\ Served(call[c])
           /\ mutex = c
  BY RingAssumption DEF TypeOK, HoldsMutex, Served

\* What write_buffer leaves in the array is bytes.
LEMMA CopyInType ==
    ASSUME TypeOK, NEW data \in Seq(Byte), Len(data) \in 1 .. Max
    PROVE  CopyIn(data, Len(data)) \in [0 .. Max - 1 -> Byte]
  <1>. DEFINE n == Len(data)
              first == Contiguous(head, n)
  <1>1. /\ Max \in Nat \ {0}
        /\ head \in 0 .. Max - 1
        /\ buffer \in [0 .. Max - 1 -> Byte]
        /\ n \in 1 .. Max
    BY RingAssumption DEF TypeOK
  <1>2. first \in 1 .. n
    BY <1>1, ContiguousBounds
  <1>3. \A j \in 1 .. n : data[j] \in Byte
    OBVIOUS
  <1>4. CopyIn(data, n) = [i \in 0 .. Max - 1 |->
            IF head <= i /\ i < head + first THEN data[i - head + 1]
            ELSE IF i < n - first THEN data[first + i + 1]
            ELSE buffer[i]]
    BY DEF CopyIn
  <1>. HIDE DEF n, first
  <1>5. ASSUME NEW i \in 0 .. Max - 1
        PROVE  (IF head <= i /\ i < head + first THEN data[i - head + 1]
                ELSE IF i < n - first THEN data[first + i + 1]
                ELSE buffer[i]) \in Byte
    <2>1. CASE head <= i /\ i < head + first
      BY <1>1, <1>2, <1>3, <2>1
    <2>2. CASE ~(head <= i /\ i < head + first) /\ i < n - first
      BY <1>1, <1>2, <1>3, <2>2
    <2>3. CASE ~(head <= i /\ i < head + first) /\ ~(i < n - first)
      BY <1>1, <2>3
    <2>. QED
      BY <2>1, <2>2, <2>3
  <1>. QED
    BY <1>4, <1>5 DEF n

\* What the readers hand back is a sequence of bytes of the length asked for.
LEMMA CopyOutType ==
    ASSUME TypeOK, NEW n \in 1 .. Max
    PROVE  CopyOut(n) \in Seq(Byte) /\ Len(CopyOut(n)) = n
  <1>. DEFINE first == Contiguous(tail, n)
  <1>1. /\ Max \in Nat \ {0}
        /\ tail \in 0 .. Max - 1
        /\ buffer \in [0 .. Max - 1 -> Byte]
    BY RingAssumption DEF TypeOK
  <1>2. first \in 1 .. n /\ tail + first <= Max
        /\ (first < n => tail + first = Max)
    BY <1>1, ContiguousBounds
  <1>3. CopyOut(n) = [i \in 1 .. n |->
            IF i <= first THEN buffer[tail + i - 1] ELSE buffer[i - first - 1]]
    BY DEF CopyOut
  <1>. HIDE DEF first
  <1>4. ASSUME NEW i \in 1 .. n
        PROVE  (IF i <= first THEN buffer[tail + i - 1]
                              ELSE buffer[i - first - 1]) \in Byte
    <2>1. CASE i <= first
      <3>1. tail + i - 1 \in 0 .. Max - 1
        BY <1>1, <1>2, <2>1
      <3>. QED
        BY <1>1, <2>1, <3>1
    <2>2. CASE i > first
      <3>1. i - first - 1 \in 0 .. Max - 1
        BY <1>1, <1>2, <2>2
      <3>. QED
        BY <1>1, <1>2, <2>2, <3>1
    <2>. QED
      BY <1>2, <2>1, <2>2
  <1>5. CopyOut(n) \in [1 .. n -> Byte]
    BY <1>3, <1>4
  <1>. QED
    BY <1>5

LEMMA TypeInit == Init => TypeOK
  <1>. SUFFICES ASSUME Init PROVE TypeOK
    OBVIOUS
  <1>1. BQ!NoResult \in BQ!Result
    BY DEF BQ!NoResult, BQ!Result, BQ!Ops
  <1>2. /\ head \in 0 .. Max - 1
        /\ tail \in 0 .. Max - 1
        /\ full \in BOOLEAN
        /\ full => head = tail
        /\ buffer \in [0 .. Max - 1 -> Byte]
        /\ mutex \in Clients \union {NoClient}
    <2>1. Max \in Nat \ {0}
      BY RingAssumption
    <2>2. 0 \in 0 .. Max - 1
      BY <2>1
    <2>. QED
      BY <2>2, Zenon DEF Init
  <1>3. /\ pc \in [Clients -> PCs]
        /\ call \in [Clients -> BQ!Call \union {NoCall}]
        /\ done \in [Clients -> BQ!Result]
    BY <1>1 DEF Init, PCs
  <1>4. ASSUME NEW c \in Clients
        PROVE  /\ HoldsMutex(c) => mutex = c
               /\ mutex = c => HoldsMutex(c) \/ pc[c] = "dead"
               /\ pc[c] = "idle" => call[c] = NoCall
               /\ pc[c] \notin {"idle", "dead"} => call[c] \in Calls[c]
    BY RingAssumption DEF Init, HoldsMutex
  <1>. QED
    BY <1>2, <1>3, <1>4 DEF TypeOK

\* A body leaves the mutex free and its client idle, and wakes at most one
\* waiter: the part of TypeOK about clients is kept.
LEMMA ReturnType ==
    ASSUME TypeOK, NEW c \in Clients, pc[c] = "locked",
           NEW n \in Int, NEW data \in Seq(Byte),
           SignalUnlockReturn(c, n, data) \/ UnlockReturn(c, n, data)
    PROVE  /\ mutex' = NoClient
           /\ pc' \in [Clients -> PCs]
           /\ pc'[c] = "idle"
           /\ \A d \in Clients \ {c} :
                 pc'[d] = pc[d] \/ (pc[d] = "wait" /\ pc'[d] = "reacquire")
           /\ call' = [call EXCEPT ![c] = NoCall]
           /\ done' \in [Clients -> BQ!Result]
  <1>1. /\ call[c] \in BQ!Call
        /\ pc \in [Clients -> PCs]
        /\ done \in [Clients -> BQ!Result]
    BY CallInService DEF TypeOK
  <1>2. Return(c, n, data)
    BY DEF SignalUnlockReturn, UnlockReturn
  <1>3. [op |-> call[c].op, n |-> n, data |-> data] \in BQ!Result
    BY <1>1 DEF BQ!Call, BQ!Result
  <1>4. done' \in [Clients -> BQ!Result]
    BY <1>1, <1>2, <1>3 DEF Return
  <1>5. /\ pc' \in [Clients -> PCs]
        /\ pc'[c] = "idle"
        /\ \A d \in Clients \ {c} :
              pc'[d] = pc[d] \/ (pc[d] = "wait" /\ pc'[d] = "reacquire")
    <2>1. CASE UnlockReturn(c, n, data)
      BY <1>1, <2>1 DEF UnlockReturn, PCs
    <2>2. CASE SignalUnlockReturn(c, n, data)
      <3>1. PICK w \in Clients : SignalWakes(c, w)
        BY <2>2 DEF SignalUnlockReturn
      <3>2. w = c \/ pc[w] = "wait"
        BY <3>1 DEF SignalWakes, Waiters
      <3>. QED
        BY <1>1, <3>1, <3>2 DEF SignalWakes, PCs
    <2>. QED
      BY <2>1, <2>2
  <1>. QED
    BY <1>2, <1>4, <1>5 DEF Return

\* Hence TypeOK holds again once the ring's own fields are typed.
LEMMA ServedType ==
    ASSUME TypeOK, NEW c \in Clients, pc[c] = "locked",
           NEW n \in Int, NEW data \in Seq(Byte),
           SignalUnlockReturn(c, n, data) \/ UnlockReturn(c, n, data),
           head' \in 0 .. Max - 1, tail' \in 0 .. Max - 1,
           full' \in BOOLEAN, full' => head' = tail',
           buffer' \in [0 .. Max - 1 -> Byte]
    PROVE  TypeOK'
  <1>1. /\ mutex' = NoClient
        /\ pc' \in [Clients -> PCs]
        /\ pc'[c] = "idle"
        /\ \A d \in Clients \ {c} :
              pc'[d] = pc[d] \/ (pc[d] = "wait" /\ pc'[d] = "reacquire")
        /\ call' = [call EXCEPT ![c] = NoCall]
        /\ done' \in [Clients -> BQ!Result]
    BY ReturnType
  <1>2. mutex = c
    BY CallInService
  <1>3. /\ call' \in [Clients -> BQ!Call \union {NoCall}]
        /\ call'[c] = NoCall
        /\ \A d \in Clients \ {c} : call'[d] = call[d]
    BY <1>1 DEF TypeOK
  <1>4. ASSUME NEW d \in Clients
        PROVE  /\ ~HoldsMutex(d)'
               /\ pc'[d] = "idle" => call'[d] = NoCall
               /\ pc'[d] \notin {"idle", "dead"} => call'[d] \in Calls[d]
    BY <1>1, <1>2, <1>3 DEF TypeOK, HoldsMutex
  <1>5. \A d \in Clients : mutex' # d
    BY <1>1, RingAssumption
  <1>. QED
    BY <1>1, <1>3, <1>4, <1>5 DEF TypeOK

\* A step that leaves the ring alone and moves one client within the loop.
LEMMA MoveType ==
    ASSUME TypeOK, NEW c \in Clients, NEW p \in PCs,
           UNCHANGED <<ringVars, done>>,
           pc' = [pc EXCEPT ![c] = p],
           mutex' \in Clients \union {NoClient},
           call' \in [Clients -> BQ!Call \union {NoCall}],
           \A d \in Clients \ {c} : call'[d] = call[d],
           \A d \in Clients \ {c} : mutex' = d <=> mutex = d,
           p \in {"locked", "reacquired"} => mutex' = c,
           mutex' = c => p \in {"locked", "reacquired", "dead"},
           p = "idle" => call'[c] = NoCall,
           p \notin {"idle", "dead"} => call'[c] \in Calls[c]
    PROVE  TypeOK'
  <1>1. /\ pc' \in [Clients -> PCs]
        /\ pc'[c] = p
        /\ \A d \in Clients \ {c} : pc'[d] = pc[d]
    BY DEF TypeOK
  <1>2. ASSUME NEW d \in Clients
        PROVE  /\ HoldsMutex(d)' => mutex' = d
               /\ mutex' = d => HoldsMutex(d)' \/ pc'[d] = "dead"
               /\ pc'[d] = "idle" => call'[d] = NoCall
               /\ pc'[d] \notin {"idle", "dead"} => call'[d] \in Calls[d]
    <2>1. CASE d = c
      BY <1>1, <2>1 DEF HoldsMutex
    <2>2. CASE d # c
      BY <1>1, <2>2 DEF HoldsMutex, TypeOK
    <2>. QED
      BY <2>1, <2>2
  <1>3. /\ head' \in 0 .. Max - 1
        /\ tail' \in 0 .. Max - 1
        /\ full' \in BOOLEAN
        /\ full' => head' = tail'
        /\ buffer' \in [0 .. Max - 1 -> Byte]
        /\ done' \in [Clients -> BQ!Result]
    BY DEF TypeOK, ringVars
  <1>. QED
    BY <1>1, <1>2, <1>3 DEF TypeOK

LEMMA CondWaitType ==
    ASSUME TypeOK, NEW c \in Clients, pc[c] = "locked", CondWait(c)
    PROVE  TypeOK'
  <1>1. mutex = c /\ call[c] \in Calls[c]
    BY DEF TypeOK, HoldsMutex
  <1>2. /\ UNCHANGED <<ringVars, done, call>>
        /\ pc' = [pc EXCEPT ![c] = "wait"]
        /\ mutex' = NoClient
    BY DEF CondWait
  <1>3. /\ call' \in [Clients -> BQ!Call \union {NoCall}]
        /\ "wait" \in PCs
    BY <1>2 DEF TypeOK, PCs
  <1>. QED
    BY <1>1, <1>2, <1>3, RingAssumption, MoveType

LEMMA TypeStep == TypeOK /\ [Next]_vars => TypeOK'
  <1>. SUFFICES ASSUME TypeOK, [Next]_vars PROVE TypeOK'
    OBVIOUS
  <1>0. /\ Max \in Nat \ {0}
        /\ NoClient \notin Clients
        /\ head \in 0 .. Max - 1
        /\ tail \in 0 .. Max - 1
        /\ full \in BOOLEAN
        /\ full => head = tail
        /\ buffer \in [0 .. Max - 1 -> Byte]
    BY RingAssumption DEF TypeOK
  <1>1. ASSUME NEW c \in Clients, Invoke(c) PROVE TypeOK'
    <2>1. PICK k \in Calls[c] : call' = [call EXCEPT ![c] = k]
      BY <1>1 DEF Invoke
    <2>2. k \in BQ!Call
      BY RingAssumption DEF Served
    <2>3. /\ call' \in [Clients -> BQ!Call \union {NoCall}]
          /\ call'[c] = k
          /\ \A d \in Clients \ {c} : call'[d] = call[d]
      BY <2>1, <2>2 DEF TypeOK
    <2>4. mutex # c
      BY <1>1 DEF Invoke, TypeOK, HoldsMutex
    <2>. QED
      BY <1>1, <2>3, <2>4, MoveType DEF Invoke, TypeOK, PCs
  <1>2. ASSUME NEW c \in Clients, Lock(c) PROVE TypeOK'
    BY <1>0, <1>2, MoveType DEF Lock, TypeOK, PCs
  <1>3. ASSUME NEW c \in Clients, Reacquire(c) PROVE TypeOK'
    BY <1>0, <1>3, MoveType DEF Reacquire, TypeOK, PCs
  <1>4. ASSUME NEW c \in Clients, TryAgain(c) PROVE TypeOK'
    <2>1. mutex = c
      BY <1>4 DEF TryAgain, TypeOK, HoldsMutex
    <2>. QED
      BY <1>0, <1>4, <2>1, MoveType DEF TryAgain, TypeOK, PCs
  <1>5. ASSUME NEW c \in Clients, SpuriousWakeup(c) PROVE TypeOK'
    <2>1. mutex # c
      BY <1>5 DEF SpuriousWakeup, TypeOK, HoldsMutex
    <2>. QED
      BY <1>0, <1>5, <2>1, MoveType DEF SpuriousWakeup, TypeOK, PCs
  <1>6. ASSUME NEW c \in Clients, Kill(c) PROVE TypeOK'
    BY <1>0, <1>6, MoveType DEF Kill, TypeOK, PCs
  <1>7. ASSUME NEW c \in Clients, Serve(c) PROVE TypeOK'
    <2>1. /\ call[c] \in BQ!Call
          /\ Served(call[c])
          /\ pc[c] = "locked"
      <3>1. pc[c] = "locked"
        BY <1>7 DEF Serve, WriteBuffer, Put, ReadBuffer, ReadBufferAll, Get,
                    Reset, SizeBuffer, In
      <3>. QED
        BY <3>1, CallInService
    <2>2. Size \in 0 .. Max
      BY <1>0, SizeBounds DEF Size
    <2>3. << >> \in Seq(Byte)
      OBVIOUS
    <2>4. CASE CondWait(c)
      BY <2>1, <2>4, CondWaitType
    <2>5. ASSUME NEW len \in 1 .. Max, AdvancePointer(len)
          PROVE  /\ head' \in 0 .. Max - 1
                 /\ tail' \in 0 .. Max - 1
                 /\ full' \in BOOLEAN
                 /\ full' => head' = tail'
      <3>1. (head + len) % Max \in 0 .. Max - 1
        BY <1>0, Wrap
      <3>2. (tail + len) % Max \in 0 .. Max - 1
        BY <1>0, Wrap
      <3>. QED
        BY <1>0, <2>5, <3>1, <3>2 DEF AdvancePointer
    <2>6. ASSUME NEW len \in 1 .. Max, RetreatPointer(len)
          PROVE  /\ head' \in 0 .. Max - 1
                 /\ tail' \in 0 .. Max - 1
                 /\ full' \in BOOLEAN
                 /\ full' => head' = tail'
      <3>1. (tail + len) % Max \in 0 .. Max - 1
        BY <1>0, Wrap
      <3>. QED
        BY <1>0, <2>6, <3>1 DEF RetreatPointer
    <2>7. CASE WriteBuffer(c) /\ ~CondWait(c)
      <3>1. call[c].len \in 1 .. Max /\ call[c].len = Len(call[c].data)
            /\ call[c].data \in Seq(Byte)
        BY <2>1, <2>7 DEF WriteBuffer, In, Served, BQ!Call
      <3>2. /\ buffer' = CopyIn(call[c].data, call[c].len)
            /\ AdvancePointer(call[c].len)
            /\ SignalUnlockReturn(c, 0, << >>)
        BY <2>7 DEF WriteBuffer
      <3>3. buffer' \in [0 .. Max - 1 -> Byte]
        BY <3>1, <3>2, CopyInType
      <3>4. /\ head' \in 0 .. Max - 1
            /\ tail' \in 0 .. Max - 1
            /\ full' \in BOOLEAN
            /\ full' => head' = tail'
        BY <2>5, <3>1, <3>2
      <3>. QED
        BY <2>1, <2>3, <3>2, <3>3, <3>4, 0 \in Int, ServedType, Zenon
    <2>8. CASE Put(c) /\ ~CondWait(c)
      <3>1. call[c].data \in Seq(Byte) /\ Len(call[c].data) = 1
        BY <2>1, <2>8 DEF Put, In, Served, BQ!Call
      <3>2. /\ buffer' = [buffer EXCEPT ![head] = call[c].data[1]]
            /\ AdvancePointer(1)
            /\ SignalUnlockReturn(c, 0, << >>)
        BY <2>8 DEF Put
      <3>3. buffer' \in [0 .. Max - 1 -> Byte]
        BY <1>0, <3>1, <3>2
      <3>. QED
        BY <1>0, <2>1, <2>3, <2>5, <3>2, <3>3, ServedType, SMTT(30)
    <2>9. CASE ReadBuffer(c) /\ ~CondWait(c)
      <3>1. call[c].len \in 1 .. Max
        BY <2>1, <2>9 DEF ReadBuffer, In, Served
      <3>2. /\ RetreatPointer(call[c].len)
            /\ SignalUnlockReturn(c, 0, CopyOut(call[c].len))
            /\ buffer' = buffer
        BY <2>9 DEF ReadBuffer
      <3>3. CopyOut(call[c].len) \in Seq(Byte)
        BY <3>1, CopyOutType
      <3>. QED
        BY <1>0, <2>1, <2>6, <3>1, <3>2, <3>3, ServedType
    <2>10. CASE ReadBufferAll(c) /\ ~CondWait(c)
      <3>1. Size \in 1 .. Max
        BY <1>0, <2>2, <2>10 DEF ReadBufferAll, CanReadAll
      <3>2. /\ RetreatPointer(Size)
            /\ SignalUnlockReturn(c, Size, CopyOut(Size))
            /\ buffer' = buffer
        BY <2>10 DEF ReadBufferAll
      <3>3. CopyOut(Size) \in Seq(Byte) /\ Size \in Int
        BY <1>0, <3>1, CopyOutType
      <3>. QED
        BY <1>0, <2>1, <2>6, <3>1, <3>2, <3>3, ServedType
    <2>11. CASE Get(c) /\ ~CondWait(c)
      <3>1. /\ RetreatPointer(1)
            /\ SignalUnlockReturn(c, 0, <<buffer[tail]>>)
            /\ buffer' = buffer
        BY <2>11 DEF Get
      <3>2. <<buffer[tail]>> \in Seq(Byte)
        BY <1>0
      <3>. QED
        BY <1>0, <2>1, <2>6, <3>1, <3>2, ServedType
    <2>12. CASE Reset(c)
      BY <1>0, <2>1, <2>3, <2>12, ServedType DEF Reset
    <2>13. CASE SizeBuffer(c)
      <3>1. Size \in Int
        BY <1>0, <2>2
      <3>. QED
        BY <1>0, <2>1, <2>3, <2>13, <3>1, ServedType DEF SizeBuffer, ringVars
    <2>. QED
      BY <1>7, <2>4, <2>7, <2>8, <2>9, <2>10, <2>11, <2>12, <2>13 DEF Serve
  <1>8. CASE UNCHANGED vars
    BY <1>8 DEF TypeOK, HoldsMutex, vars
  <1>. QED
    BY <1>1, <1>2, <1>3, <1>4, <1>5, <1>6, <1>7, <1>8 DEF Next, Run

\* The fields keep their types, full is set only where head meets tail, and
\* the mutex belongs to the client inside the critical section (or to one
\* that died there), in every reachable state.
THEOREM TypeCorrect == Spec => []TypeOK
  BY TypeInit, TypeStep, PTL DEF Spec

-----------------------------------------------------------------------------
(***************************************************************************)
(* How the pointers move.                                                  *)
(***************************************************************************)

LEMMA SizeFacts ==
    ASSUME TypeOK
    PROVE  /\ Max \in Nat \ {0}
           /\ Size \in 0 .. Max
           /\ FreeSize = Max - Size
           /\ (Size = 0) <=> (~full /\ head = tail)
           /\ (Size = Max) <=> full
           /\ (tail + Size) % Max = head
  <1>1. /\ head \in 0 .. Max - 1
        /\ tail \in 0 .. Max - 1
        /\ full \in BOOLEAN
        /\ full => head = tail
    BY DEF TypeOK
  <1>2. Max \in Nat \ {0}
    BY RingAssumption
  <1>3. /\ SizeInternal(head, tail, full) \in 0 .. Max
        /\ FreeSizeInternal(head, tail, full)
              = Max - SizeInternal(head, tail, full)
        /\ (SizeInternal(head, tail, full) = 0) <=> (~full /\ head = tail)
        /\ (SizeInternal(head, tail, full) = Max) <=> full
        /\ (tail + SizeInternal(head, tail, full)) % Max = head
    BY <1>1, SizeBounds, SMTT(30)
  <1>. QED
    BY <1>2, <1>3, Zenon DEF Size, FreeSize

\* Bytes that fit are added to the count, and the oldest byte stays where it is.
LEMMA AdvanceSize ==
    ASSUME TypeOK, NEW len \in 1 .. Max, len <= FreeSize, AdvancePointer(len)
    PROVE  /\ Size' = Size + len
           /\ tail' = tail
           /\ ~full
  <1>1. /\ Max \in Nat \ {0}
        /\ len \in 0 .. Max
        /\ head \in 0 .. Max - 1
        /\ tail \in 0 .. Max - 1
        /\ full \in BOOLEAN
        /\ full => head = tail
    BY RingAssumption DEF TypeOK
  <1>2. ~full
    BY <1>1 DEF FreeSize, FreeSizeInternal
  <1>3. tail' = tail /\ head' = (head + len) % Max /\ full' = (head' = tail')
    BY <1>2 DEF AdvancePointer
  <1>4. /\ head + len < Max => (head + len) % Max = head + len
        /\ head + len >= Max => (head + len) % Max = head + len - Max
    BY <1>1, Wrap
  <1>5. len <= IF head >= tail THEN Max - (head - tail) ELSE tail - head
    BY <1>2 DEF FreeSize, FreeSizeInternal
  <1>6. Size = IF head >= tail THEN head - tail ELSE Max + head - tail
    BY <1>2 DEF Size, SizeInternal
  <1>7. Size' = IF head' = tail THEN Max
                ELSE IF head' >= tail THEN head' - tail ELSE Max + head' - tail
    BY <1>3 DEF Size, SizeInternal
  <1>8. CASE head + len < Max
    BY <1>1, <1>2, <1>3, <1>4, <1>5, <1>6, <1>7, <1>8
  <1>9. CASE head + len >= Max
    BY <1>1, <1>2, <1>3, <1>4, <1>5, <1>6, <1>7, <1>9
  <1>. QED
    BY <1>1, <1>2, <1>3, <1>8, <1>9

\* Bytes that are there are taken from the count.
LEMMA RetreatSize ==
    ASSUME TypeOK, NEW len \in 1 .. Max, len <= Size, RetreatPointer(len)
    PROVE  Size' = Size - len
  <1>1. /\ Max \in Nat \ {0}
        /\ len \in 0 .. Max
        /\ head \in 0 .. Max - 1
        /\ tail \in 0 .. Max - 1
        /\ full \in BOOLEAN
        /\ full => head = tail
    BY RingAssumption DEF TypeOK
  <1>2. head' = head /\ tail' = (tail + len) % Max /\ full' = FALSE
    BY DEF RetreatPointer
  <1>3. /\ tail + len < Max => (tail + len) % Max = tail + len
        /\ tail + len >= Max => (tail + len) % Max = tail + len - Max
    BY <1>1, Wrap
  <1>4. Size = IF full THEN Max
               ELSE IF head >= tail THEN head - tail ELSE Max + head - tail
    BY DEF Size, SizeInternal
  <1>5. Size' = IF head >= tail' THEN head - tail' ELSE Max + head - tail'
    BY <1>2 DEF Size, SizeInternal
  <1>6. CASE tail + len < Max
    BY <1>1, <1>2, <1>3, <1>4, <1>5, <1>6
  <1>7. CASE tail + len >= Max
    BY <1>1, <1>2, <1>3, <1>4, <1>5, <1>7
  <1>. QED
    BY <1>1, <1>6, <1>7

\* The state predicates that follow depend on the ring only through its
\* pointers, and only bodies move them.
LEMMA RingMoves ==
    ASSUME [Next]_vars
    PROVE  \/ UNCHANGED ringVars
           \/ \E c \in Clients : pc[c] = "locked" /\ Serve(c)
  BY DEF Next, Run, Invoke, Lock, Reacquire, TryAgain, SpuriousWakeup, Kill,
         Serve, WriteBuffer, Put, ReadBuffer, ReadBufferAll, Get, Reset,
         SizeBuffer, In, vars, ringVars

-----------------------------------------------------------------------------
(***************************************************************************)
(* Two clients and one condition variable.                                 *)
(***************************************************************************)

\* The programs attach two clients to a ring: the program and the modem.
AtMostTwoClients == \A c, d, e \in Clients : c = d \/ d = e \/ c = e

\* Nobody empties a ring that others are using (the programs never do).
NoResets == \A c \in Clients : \A k \in Calls[c] : k.op # "reset"

\* A client that waits after a step was waiting before it with the same call,
\* or has just found that it cannot proceed.
LEMMA WaitersFrom ==
    ASSUME TypeOK, [Next]_vars, NEW c \in Clients, pc'[c] = "wait"
    PROVE  /\ call'[c] = call[c]
           /\ pc[c] # "wait" => pc[c] = "locked" /\ Serve(c) /\ CondWait(c)
  <1>2. ASSUME NEW d \in Clients,
               Invoke(d) \/ Lock(d) \/ Reacquire(d) \/ TryAgain(d)
               \/ SpuriousWakeup(d) \/ Kill(d)
        PROVE  pc[c] = "wait" /\ call'[c] = call[c]
    BY <1>2 DEF Invoke, Lock, Reacquire, TryAgain, SpuriousWakeup, Kill, TypeOK
  <1>3. ASSUME NEW d \in Clients, Serve(d)
        PROVE  /\ call'[c] = call[c]
               /\ pc[c] # "wait" => pc[c] = "locked" /\ Serve(c) /\ CondWait(c)
    <2>1. pc[d] = "locked"
      BY <1>3 DEF Serve, WriteBuffer, Put, ReadBuffer, ReadBufferAll, Get,
                  Reset, SizeBuffer, In
    <2>2. CASE CondWait(d)
      BY <1>3, <2>1, <2>2 DEF CondWait, TypeOK
    <2>3. CASE \E n, data : SignalUnlockReturn(d, n, data)
      <3>1. PICK w \in Clients : SignalWakes(d, w)
        BY <2>3 DEF SignalUnlockReturn
      <3>2. d # c /\ pc[c] = "wait"
        BY <2>1, <3>1 DEF SignalWakes, TypeOK
      <3>. QED
        BY <2>3, <3>2 DEF SignalUnlockReturn, Return, TypeOK
    <2>4. CASE \E n, data : UnlockReturn(d, n, data)
      BY <2>1, <2>4 DEF UnlockReturn, Return, TypeOK
    <2>. QED
      BY <1>3, <2>2, <2>3, <2>4
      DEF Serve, WriteBuffer, Put, ReadBuffer, ReadBufferAll, Get, Reset,
          SizeBuffer
  <1>4. CASE UNCHANGED vars
    BY <1>4 DEF vars
  <1>. QED
    BY <1>2, <1>3, <1>4 DEF Next, Run

\* Only a body that signals moves the pointers, once nobody resets the ring.
LEMMA MovesAreSignalled ==
    ASSUME TypeOK, [Next]_vars, NoResets, ~UNCHANGED ringVars
    PROVE  \E c \in Clients : /\ pc[c] = "locked"
                              /\ \E n, data : SignalUnlockReturn(c, n, data)
  <1>1. PICK c \in Clients : pc[c] = "locked" /\ Serve(c)
    BY RingMoves
  <1>2. ~CondWait(c)
    BY DEF CondWait
  <1>3. call[c] \in Calls[c]
    BY <1>1 DEF TypeOK
  <1>4. ~Reset(c)
    BY <1>3 DEF Reset, In, NoResets
  <1>5. ~SizeBuffer(c)
    BY DEF SizeBuffer
  <1>. QED
    BY <1>1, <1>2, <1>4, <1>5
    DEF Serve, WriteBuffer, Put, ReadBuffer, ReadBufferAll, Get

LEMMA NoMissedWakeupStep ==
    ASSUME TypeOK, NoMissedWakeup, [Next]_vars, AtMostTwoClients, NoResets
    PROVE  NoMissedWakeup'
  <1>. SUFFICES ASSUME NEW c \in Clients, pc'[c] = "wait"
                PROVE  ~Ready(call[c])'
    BY WaitersFrom DEF NoMissedWakeup, Waiters
  <1>1. call'[c] = call[c]
    BY WaitersFrom
  <1>2. CASE UNCHANGED ringVars
    <2>1. ~Ready(call[c])
      <3>1. CASE pc[c] = "wait"
        BY <3>1 DEF NoMissedWakeup, Waiters
      <3>2. CASE pc[c] # "wait"
        <4>1. Serve(c) /\ CondWait(c) /\ pc[c] = "locked"
          BY <3>2, WaitersFrom
        <4>. QED
          BY <4>1 DEF Serve, WriteBuffer, Put, ReadBuffer, ReadBufferAll, Get,
             Reset, SizeBuffer, In, Ready, CondWait, SignalUnlockReturn,
             UnlockReturn, SignalWakes, TypeOK
      <3>. QED
        BY <3>1, <3>2
    <2>. QED
      BY <1>1, <1>2, <2>1
      DEF Ready, CanWrite, CanPut, CanRead, CanReadAll, CanGet, FreeSize, Size,
          ringVars
  <1>3. CASE ~UNCHANGED ringVars
    <2>1. PICK d \in Clients : /\ pc[d] = "locked"
                               /\ \E n, data : SignalUnlockReturn(d, n, data)
      BY <1>3, MovesAreSignalled
    <2>2. PICK w \in Clients : SignalWakes(d, w)
      BY <2>1 DEF SignalUnlockReturn
    <2>3. d # c /\ pc[c] = "wait"
      BY <2>1, <2>2 DEF SignalWakes, TypeOK
    <2>4. w \in Waiters
      BY <2>2, <2>3 DEF SignalWakes, Waiters
    <2>5. w = c
      BY <2>1, <2>3, <2>4 DEF AtMostTwoClients, Waiters
    <2>. QED
      BY <2>2, <2>3, <2>5 DEF SignalWakes, TypeOK
  <1>. QED
    BY <1>2, <1>3

\* With the single condition variable of the code, two clients never miss a
\* wake-up: whoever sleeps has nothing to do.  With three clients the signal of
\* one may reach the wrong one of the other two.
THEOREM PairMissesNoWakeup ==
    ASSUME AtMostTwoClients, NoResets
    PROVE  Spec => []NoMissedWakeup
  <1>1. Init => NoMissedWakeup
    BY DEF Init, NoMissedWakeup, Waiters
  <1>2. TypeOK /\ NoMissedWakeup /\ [Next]_vars => NoMissedWakeup'
    BY NoMissedWakeupStep
  <1>. QED
    BY <1>1, <1>2, TypeCorrect, PTL DEF Spec

Writes(c) == \A k \in Calls[c] : k.op \in {"write_buffer", "put", "size_buffer"}
Reads(c) == \A k \in Calls[c] :
    k.op \in {"read_buffer", "read_buffer_all", "get", "size_buffer"}

\* A writer w and a reader r whose chunks fit the ring together: neither can
\* be waiting for room that only exists once the other has moved.
FitTogether(w, r) ==
    /\ Clients = {w, r} /\ Writes(w) /\ Reads(r)
    /\ \A k \in Calls[w], l \in Calls[r] : k.len + l.len <= Max + 1

\* Under that condition, writer and reader are never both asleep.
THEOREM PairSomeoneAwake ==
    ASSUME NEW w, NEW r, FitTogether(w, r)
    PROVE  Spec => []SomeoneAwake
  <1>1. AtMostTwoClients /\ NoResets
    BY DEF FitTogether, Writes, Reads, AtMostTwoClients, NoResets
  <1>2. TypeOK /\ NoMissedWakeup => SomeoneAwake
    <2>. SUFFICES ASSUME TypeOK, NoMissedWakeup, Waiters = Clients
                  PROVE  FALSE
      BY DEF SomeoneAwake
    <2>1. /\ call[w] \in Calls[w] /\ call[r] \in Calls[r]
          /\ ~Ready(call[w]) /\ ~Ready(call[r])
      BY DEF FitTogether, Waiters, NoMissedWakeup, TypeOK
    <2>2. /\ Max \in Nat \ {0}
          /\ Size \in 0 .. Max
          /\ FreeSize = Max - Size
          /\ (Size = 0) <=> (~full /\ head = tail)
          /\ (Size = Max) <=> full
      BY SizeFacts
    <2>3. Served(call[w]) /\ Served(call[r])
      BY <2>1, RingAssumption DEF FitTogether
    <2>4. call[w].len + call[r].len <= Max + 1
          /\ call[w].op \in {"write_buffer", "put", "size_buffer"}
          /\ call[r].op \in {"read_buffer", "read_buffer_all", "get", "size_buffer"}
      BY <2>1 DEF FitTogether, Writes, Reads
    <2>5. call[w].len \in 1 .. Max /\ Max - Size < call[w].len
      <3>1. CASE call[w].op = "write_buffer"
        BY <2>1, <2>2, <2>3, <3>1 DEF Served, Ready, CanWrite
      <3>2. CASE call[w].op = "put"
        BY <2>1, <2>2, <2>3, <3>2 DEF Served, Ready, CanPut
      <3>3. CASE call[w].op = "size_buffer"
        BY <2>1, <3>3 DEF Ready
      <3>. QED
        BY <2>4, <3>1, <3>2, <3>3
    <2>6. \/ call[r].len \in 1 .. Max /\ Size < call[r].len
          \/ Size = 0
      <3>1. CASE call[r].op = "read_buffer"
        BY <2>1, <2>2, <2>3, <3>1 DEF Served, Ready, CanRead
      <3>2. CASE call[r].op = "get"
        BY <2>1, <2>2, <2>3, <3>2 DEF Served, Ready, CanGet
      <3>3. CASE call[r].op = "read_buffer_all"
        BY <2>1, <2>2, <3>3 DEF Ready, CanReadAll
      <3>4. CASE call[r].op = "size_buffer"
        BY <2>1, <3>4 DEF Ready
      <3>. QED
        BY <2>4, <3>1, <3>2, <3>3, <3>4
    <2>. QED
      BY <2>2, <2>4, <2>5, <2>6
  <1>. QED
    BY <1>1, <1>2, TypeCorrect, PairMissesNoWakeup, PTL

-----------------------------------------------------------------------------
(***************************************************************************)
(* The check of read_frame_from_input.                                     *)
(***************************************************************************)

\* r is the only client that takes bytes out.
OnlyReader(r) ==
    /\ r \in Clients /\ Reads(r)
    /\ \A c \in Clients \ {r} : Writes(c)

\* The count r was given is still there ...
CountStands(r) == done[r].op = "size_buffer" => done[r].n <= Size

\* ... and r has not gone to sleep over bytes it was told of.
SleepsBeyondCount(r) ==
    (/\ pc[r] = "wait" /\ call[r].op = "read_buffer"
     /\ done[r].op = "size_buffer") => call[r].len > done[r].n

\* A writer's step takes nothing away, and does not touch what r was told.
LEMMA WriterKeepsCount ==
    ASSUME TypeOK, NEW c \in Clients, pc[c] = "locked", Serve(c), Writes(c)
    PROVE  Size <= Size' /\ \A d \in Clients \ {c} : done'[d] = done[d]
  <1>1. /\ call[c].op \in {"write_buffer", "put", "size_buffer"}
        /\ Served(call[c])
        /\ Max \in Nat \ {0}
        /\ Size \in 0 .. Max
        /\ FreeSize = Max - Size
        /\ (Size = Max) <=> full
    BY CallInService, SizeFacts DEF TypeOK, Writes
  <1>2. \A d \in Clients \ {c} : done'[d] = done[d]
    BY DEF Serve, WriteBuffer, Put, ReadBuffer, ReadBufferAll, Get, Reset,
           SizeBuffer, SignalUnlockReturn, UnlockReturn, Return, CondWait, TypeOK
  <1>3. CASE UNCHANGED ringVars
    <2>1. Size' = Size
      BY <1>3 DEF ringVars, Size
    <2>. QED
      BY <1>1, <1>2, <2>1
  <1>4. CASE WriteBuffer(c) /\ ~UNCHANGED ringVars
    <2>1. /\ call[c].len \in 1 .. Max
          /\ call[c].len <= FreeSize
          /\ AdvancePointer(call[c].len)
      BY <1>1, <1>4 DEF WriteBuffer, CanWrite, CondWait, Served, In
    <2>2. Size' = Size + call[c].len
      BY <2>1, AdvanceSize
    <2>. QED
      BY <1>1, <1>2, <2>1, <2>2
  <1>5. CASE Put(c) /\ ~UNCHANGED ringVars
    <2>1. ~full /\ AdvancePointer(1)
      BY <1>5 DEF Put, CanPut, CondWait
    <2>2. 1 \in 1 .. Max /\ 1 <= FreeSize
      BY <1>1, <2>1
    <2>3. Size' = Size + 1
      BY <2>1, <2>2, AdvanceSize
    <2>. QED
      BY <1>1, <1>2, <2>3
  <1>6. CASE SizeBuffer(c)
    BY <1>3, <1>6 DEF SizeBuffer
  <1>. QED
    BY <1>1, <1>3, <1>4, <1>5, <1>6
    DEF Serve, ReadBuffer, ReadBufferAll, Get, Reset, In

LEMMA CountStep ==
    ASSUME TypeOK, NEW r, OnlyReader(r), CountStands(r), SleepsBeyondCount(r),
           [Next]_vars
    PROVE  CountStands(r)' /\ SleepsBeyondCount(r)'
  <1>1. Size \in Int
    BY SizeFacts
  <1>2. CASE Serve(r)
    <2>1. /\ pc[r] = "locked"
          /\ call[r] \in Calls[r]
          /\ call[r].op \in {"read_buffer", "read_buffer_all", "get", "size_buffer"}
      <3>1. pc[r] = "locked"
        BY <1>2 DEF Serve, WriteBuffer, Put, ReadBuffer, ReadBufferAll, Get,
                    Reset, SizeBuffer, In
      <3>. QED
        BY <3>1 DEF TypeOK, OnlyReader, Reads
    <2>2. CASE CondWait(r)
      <3>1. UNCHANGED <<ringVars, call, done>>
        BY <2>2 DEF CondWait
      <3>2. Size' = Size
        BY <3>1 DEF Size, ringVars
      <3>3. call[r].op = "read_buffer" => call[r].len > Size
        <4>1. SUFFICES ASSUME call[r].op = "read_buffer" PROVE call[r].len > Size
          OBVIOUS
        <4>2. ~CanRead(call[r].len)
          BY <1>2, <2>1, <2>2, <4>1
          DEF Serve, WriteBuffer, Put, ReadBuffer, ReadBufferAll, Get, Reset,
              SizeBuffer, In, CondWait, SignalUnlockReturn, SignalWakes, TypeOK,
              OnlyReader
        <4>3. call[r].len \in Nat
          BY <2>1, CallInService DEF OnlyReader, BQ!Call
        <4>. QED
          BY <1>1, <4>2, <4>3 DEF CanRead
      <3>4. call[r].op = "read_buffer" => call[r].len \in Nat
        BY <2>1, CallInService DEF OnlyReader, BQ!Call
      <3>5. done[r].n \in Int
        BY DEF TypeOK, OnlyReader, BQ!Result
      <3>. QED
        BY <1>1, <3>1, <3>2, <3>3, <3>4, <3>5 DEF CountStands, SleepsBeyondCount
    <2>3. CASE SizeBuffer(r)
      <3>1. Size' = Size
        BY <2>3 DEF SizeBuffer, ringVars, Size
      <3>2. done'[r].n = Size /\ pc'[r] = "idle"
        BY <2>3 DEF SizeBuffer, UnlockReturn, Return, TypeOK, OnlyReader
      <3>. QED
        BY <1>1, <3>1, <3>2 DEF CountStands, SleepsBeyondCount
    <2>4. CASE ~CondWait(r) /\ ~SizeBuffer(r)
      <3>1. done'[r].op = call[r].op /\ call[r].op # "size_buffer"
        BY <1>2, <2>1, <2>4
        DEF Serve, WriteBuffer, Put, ReadBuffer, ReadBufferAll, Get, Reset,
            SignalUnlockReturn, UnlockReturn, Return, In, TypeOK, OnlyReader
      <3>. QED
        BY <3>1 DEF CountStands, SleepsBeyondCount
    <2>. QED
      BY <2>2, <2>3, <2>4
  <1>3. ASSUME NEW c \in Clients \ {r}, Serve(c)
        PROVE  CountStands(r)' /\ SleepsBeyondCount(r)'
    <2>1. pc[c] = "locked"
      BY <1>3 DEF Serve, WriteBuffer, Put, ReadBuffer, ReadBufferAll, Get,
                  Reset, SizeBuffer, In
    <2>2. Size <= Size' /\ done'[r] = done[r]
      BY <1>3, <2>1, WriterKeepsCount DEF OnlyReader
    <2>3. TypeOK'
      BY TypeStep
    <2>4. Size' \in Int
      BY <2>3, RingAssumption, SizeBounds DEF Size, TypeOK
    <2>5. done[r].n \in Int
      BY DEF TypeOK, OnlyReader, BQ!Result
    <2>6. CountStands(r)'
      BY <1>1, <2>2, <2>4, <2>5 DEF CountStands
    <2>7. SleepsBeyondCount(r)'
      <3>1. pc'[r] = "wait" => pc[r] = "wait" /\ call'[r] = call[r]
        <4>1. ~(Serve(r) /\ CondWait(r))
          BY <2>1 DEF CondWait, Serve, WriteBuffer, Put, ReadBuffer,
             ReadBufferAll, Get, Reset, SizeBuffer, In, TypeOK, HoldsMutex,
             OnlyReader
        <4>. QED
          BY <4>1, WaitersFrom DEF OnlyReader
      <3>. QED
        BY <2>2, <3>1 DEF SleepsBeyondCount
    <2>. QED
      BY <2>6, <2>7
  <1>4. CASE /\ UNCHANGED <<ringVars, done>>
             /\ pc'[r] = "wait" => pc[r] = "wait" /\ call'[r] = call[r]
    <2>1. Size' = Size
      BY <1>4 DEF Size, ringVars
    <2>. QED
      BY <1>4, <2>1 DEF CountStands, SleepsBeyondCount
  <1>5. CASE UNCHANGED vars
    BY <1>4, <1>5 DEF vars, ringVars
  <1>6. ASSUME NEW c \in Clients,
               Invoke(c) \/ Lock(c) \/ Reacquire(c) \/ TryAgain(c)
               \/ SpuriousWakeup(c) \/ Kill(c)
        PROVE  CountStands(r)' /\ SleepsBeyondCount(r)'
    BY <1>4, <1>6 DEF Invoke, Lock, Reacquire, TryAgain, SpuriousWakeup, Kill,
                      TypeOK, OnlyReader
  <1>. QED
    BY <1>2, <1>3, <1>5, <1>6 DEF Next, Run

\* A reader that no other reader and no reset competes with may rely on what
\* size_buffer told it: a read_buffer of no more bytes never waits.  This is
\* what read_frame_from_input in receiver.c relies on.
THEOREM CheckedReadDoesNotWait ==
    ASSUME NEW r, OnlyReader(r)
    PROVE  Spec => []CheckedReadNeverWaits
  <1>1. Init => CountStands(r) /\ SleepsBeyondCount(r)
    BY DEF Init, CountStands, SleepsBeyondCount, OnlyReader, BQ!NoResult
  <1>2. TypeOK /\ CountStands(r) /\ SleepsBeyondCount(r) /\ [Next]_vars
            => CountStands(r)' /\ SleepsBeyondCount(r)'
    BY CountStep
  <1>3. TypeOK /\ SleepsBeyondCount(r) => CheckedReadNeverWaits
    <2>. SUFFICES ASSUME TypeOK, SleepsBeyondCount(r), NEW c \in Waiters,
                         call[c].op = "read_buffer", done[c].op = "size_buffer",
                         call[c].len <= done[c].n
                  PROVE  FALSE
      BY DEF CheckedReadNeverWaits
    <2>1. c = r
      BY DEF OnlyReader, Writes, Waiters, TypeOK
    <2>2. call[c] \in BQ!Call /\ done[c] \in BQ!Result
      BY RingAssumption DEF TypeOK, Waiters, Served
    <2>3. call[c].len \in Int /\ done[c].n \in Int
      BY <2>2 DEF BQ!Call, BQ!Result
    <2>. QED
      BY <2>1, <2>3 DEF SleepsBeyondCount, Waiters
  <1>. QED
    BY <1>1, <1>2, <1>3, TypeCorrect, PTL DEF Spec

-----------------------------------------------------------------------------
(***************************************************************************)
(* The ring is a queue.                                                    *)
(***************************************************************************)

LEMMA ContentsType ==
    ASSUME TypeOK
    PROVE  /\ Contents \in Seq(Byte)
           /\ Len(Contents) = Size
           /\ \A i \in 1 .. Size : Contents[i] = buffer[(tail + i - 1) % Max]
           /\ \A i \in 1 .. Size : (tail + i - 1) % Max \in 0 .. Max - 1
  <1>1. /\ Max \in Nat \ {0}
        /\ Size \in 0 .. Max
        /\ tail \in 0 .. Max - 1
        /\ buffer \in [0 .. Max - 1 -> Byte]
    BY SizeFacts DEF TypeOK
  <1>2. ASSUME NEW i \in 1 .. Size PROVE (tail + i - 1) % Max \in 0 .. Max - 1
    <2>1. i - 1 \in 0 .. Max /\ tail + i - 1 = tail + (i - 1)
      BY <1>1
    <2>2. (tail + (i - 1)) % Max \in 0 .. Max - 1
      BY <1>1, <2>1, Wrap
    <2>. QED
      BY <2>1, <2>2
  <1>3. Contents \in [1 .. Size -> Byte]
    BY <1>1, <1>2 DEF Contents
  <1>. QED
    BY <1>1, <1>2, <1>3 DEF Contents

LEMMA ContentsTyped == TypeOK => Contents \in Seq(Byte) /\ Len(Contents) = Size
  BY ContentsType

\* Where the i-th byte of the ring lies, without the modulo.
LEMMA SlotOf ==
    ASSUME TypeOK, NEW i \in 1 .. Max
    PROVE  /\ tail + i - 1 < Max => (tail + i - 1) % Max = tail + i - 1
           /\ tail + i - 1 >= Max => (tail + i - 1) % Max = tail + i - 1 - Max
  <1>1. /\ Max \in Nat \ {0}
        /\ tail \in 0 .. Max - 1
        /\ i - 1 \in 0 .. Max
        /\ tail + i - 1 = tail + (i - 1)
    BY RingAssumption DEF TypeOK
  <1>2. /\ tail + (i - 1) < Max => (tail + (i - 1)) % Max = tail + (i - 1)
        /\ tail + (i - 1) >= Max => (tail + (i - 1)) % Max = tail + (i - 1) - Max
    BY <1>1, Wrap
  <1>. QED
    BY <1>1, <1>2

\* The two memcpy of a read deliver the oldest bytes, in order.
LEMMA CopyOutIsPrefix ==
    ASSUME TypeOK, NEW n \in 1 .. Max, n <= Size
    PROVE  CopyOut(n) = SubSeq(Contents, 1, n)
  <1>. DEFINE first == Contiguous(tail, n)
  <1>1. /\ Max \in Nat \ {0}
        /\ Size \in 0 .. Max
        /\ tail \in 0 .. Max - 1
    BY SizeFacts DEF TypeOK
  <1>2. /\ first \in 1 .. n
        /\ tail + first <= Max
        /\ first < n => tail + first = Max
    BY <1>1, ContiguousBounds
  <1>3. CopyOut(n) \in Seq(Byte) /\ Len(CopyOut(n)) = n
    BY CopyOutType
  <1>4. /\ SubSeq(Contents, 1, n) \in Seq(Byte)
        /\ Len(SubSeq(Contents, 1, n)) = n
        /\ \A i \in 1 .. n : SubSeq(Contents, 1, n)[i] = Contents[i]
    <2>1. \A i \in 1 .. n : Contents[i] \in Byte
      BY <1>1, ContentsType
    <2>2. /\ SubSeq(Contents, 1, n) \in Seq(Byte)
          /\ Len(SubSeq(Contents, 1, n)) = IF 1 <= n THEN n - 1 + 1 ELSE 0
          /\ \A i \in 1 .. n - 1 + 1 :
                SubSeq(Contents, 1, n)[i] = Contents[1 + i - 1]
      BY <2>1, SubSeqProperties
    <2>. QED
      BY <1>1, <2>2
  <1>5. ASSUME NEW i \in 1 .. n PROVE CopyOut(n)[i] = Contents[i]
    <2>1. CopyOut(n)[i] = IF i <= first THEN buffer[tail + i - 1]
                                        ELSE buffer[i - first - 1]
      BY DEF CopyOut
    <2>2. Contents[i] = buffer[(tail + i - 1) % Max]
      BY <1>1, ContentsType
    <2>. HIDE DEF first
    <2>3. i \in 1 .. Max
      BY <1>1
    <2>4. (tail + i - 1) % Max = IF i <= first THEN tail + i - 1
                                               ELSE i - first - 1
      BY <1>1, <1>2, <2>3, SlotOf
    <2>. QED
      BY <2>1, <2>2, <2>4
  <1>. QED
    BY <1>3, <1>4, <1>5, SeqEqual

\* Moving the tail drops exactly the bytes that were copied out.
LEMMA RetreatIsSuffix ==
    ASSUME TypeOK, TypeOK', NEW n \in 1 .. Max, n <= Size,
           RetreatPointer(n), buffer' = buffer
    PROVE  Contents' = SubSeq(Contents, n + 1, Size)
  <1>1. /\ Max \in Nat \ {0}
        /\ Size \in 0 .. Max
        /\ tail \in 0 .. Max - 1
        /\ n \in 0 .. Max
    BY SizeFacts DEF TypeOK
  <1>2. Size' = Size - n /\ tail' = (tail + n) % Max
    BY RetreatSize DEF RetreatPointer
  <1>3. Contents' = [i \in 1 .. Size - n |-> buffer[(tail' + i - 1) % Max]]
    BY <1>2 DEF Contents
  <1>4. Contents' \in Seq(Byte) /\ Len(Contents') = Size - n
    <2>1. (TypeOK => Contents \in Seq(Byte) /\ Len(Contents) = Size)'
      BY ContentsTyped, PTL
    <2>. QED
      BY <1>2, <2>1
  <1>5. /\ SubSeq(Contents, n + 1, Size) \in Seq(Byte)
        /\ Len(SubSeq(Contents, n + 1, Size)) = Size - n
        /\ \A i \in 1 .. Size - n :
              SubSeq(Contents, n + 1, Size)[i] = Contents[n + i]
    <2>1. \A i \in n + 1 .. Size : Contents[i] \in Byte
      BY <1>1, ContentsType
    <2>2. n + 1 \in Int /\ Size \in Int
      BY <1>1
    <2>3. /\ SubSeq(Contents, n + 1, Size) \in Seq(Byte)
          /\ Len(SubSeq(Contents, n + 1, Size))
                = IF n + 1 <= Size THEN Size - (n + 1) + 1 ELSE 0
          /\ \A i \in 1 .. Size - (n + 1) + 1 :
                SubSeq(Contents, n + 1, Size)[i] = Contents[n + 1 + i - 1]
      BY <2>1, <2>2, SubSeqProperties
    <2>4. \A i \in 1 .. Size - n : n + 1 + i - 1 = n + i
      BY <1>1
    <2>. QED
      BY <1>1, <2>3, <2>4
  <1>6. ASSUME NEW i \in 1 .. Size - n
        PROVE  Contents'[i] = Contents[n + i]
    <2>1. n + i \in 1 .. Size /\ n + i \in 1 .. Max
      BY <1>1
    <2>2. Contents[n + i] = buffer[(tail + (n + i) - 1) % Max]
      BY <2>1, ContentsType
    <2>3. tail' \in 0 .. Max - 1 /\ i - 1 \in 0 .. Max
      BY <1>1, <2>1 DEF TypeOK
    <2>4. /\ tail + n < Max => tail' = tail + n
          /\ tail + n >= Max => tail' = tail + n - Max
      BY <1>1, <1>2, Wrap
    <2>5. /\ tail' + (i - 1) < Max => (tail' + (i - 1)) % Max = tail' + (i - 1)
          /\ tail' + (i - 1) >= Max
                => (tail' + (i - 1)) % Max = tail' + (i - 1) - Max
      BY <2>3, Wrap
    <2>6. /\ tail + (n + i) - 1 < Max
                => (tail + (n + i) - 1) % Max = tail + (n + i) - 1
          /\ tail + (n + i) - 1 >= Max
                => (tail + (n + i) - 1) % Max = tail + (n + i) - 1 - Max
      BY <2>1, SlotOf
    <2>7. (tail' + (i - 1)) % Max = (tail + (n + i) - 1) % Max
      BY <1>1, <2>1, <2>3, <2>4, <2>5, <2>6
    <2>8. tail' + i - 1 = tail' + (i - 1)
      BY <2>3
    <2>. QED
      BY <1>3, <2>2, <2>7, <2>8
  <1>. QED
    BY <1>4, <1>5, <1>6, SeqEqual

\* The two memcpy of a write land behind the newest byte, in order, and leave
\* every byte already in the ring as it was.
LEMMA WriteIsAppend ==
    ASSUME TypeOK, TypeOK', NEW data \in Seq(Byte), Len(data) \in 1 .. Max,
           Len(data) <= FreeSize,
           buffer' = CopyIn(data, Len(data)), AdvancePointer(Len(data))
    PROVE  Contents' = Contents \o data
  <1>. DEFINE n == Len(data)
              first == Contiguous(head, n)
  <1>1. /\ Max \in Nat \ {0}
        /\ n \in 1 .. Max
        /\ Size \in 0 .. Max
        /\ n <= Max - Size
        /\ head \in 0 .. Max - 1
        /\ tail \in 0 .. Max - 1
    BY SizeFacts DEF TypeOK
  <1>2. Size' = Size + n /\ tail' = tail /\ ~full
    BY AdvanceSize
  <1>3. Size = IF head >= tail THEN head - tail ELSE Max + head - tail
    BY <1>2 DEF Size, SizeInternal
  <1>4. /\ first \in 1 .. n
        /\ head + first <= Max
        /\ first < n => head + first = Max
        /\ head + n <= Max => first = n
    BY <1>1, ContiguousBounds
  <1>5. \A i \in 0 .. Max - 1 :
            buffer'[i] = IF head <= i /\ i < head + first
                         THEN data[i - head + 1]
                         ELSE IF i < n - first THEN data[first + i + 1]
                         ELSE buffer[i]
    BY DEF CopyIn
  <1>6. Contents' = [i \in 1 .. Size + n |-> buffer'[(tail + i - 1) % Max]]
    BY <1>2 DEF Contents
  <1>. HIDE DEF n, first
  <1>7. Contents' \in Seq(Byte) /\ Len(Contents') = Size + n
    <2>1. (TypeOK => Contents \in Seq(Byte) /\ Len(Contents) = Size)'
      BY ContentsTyped, PTL
    <2>. QED
      BY <1>2, <2>1
  <1>8. Contents \in Seq(Byte) /\ Len(Contents) = Size
    BY ContentsTyped
  <1>9. /\ Contents \o data \in Seq(Byte)
        /\ Len(Contents \o data) = Size + n
        /\ \A i \in 1 .. Size + n : (Contents \o data)[i] =
                IF i <= Size THEN Contents[i] ELSE data[i - Size]
    BY <1>8, ConcatProperties DEF n
  <1>10. ASSUME NEW i \in 1 .. Size
         PROVE  buffer'[(tail + i - 1) % Max] = Contents[i]
    <2>. DEFINE slot == (tail + i - 1) % Max
    <2>1. i \in 1 .. Max
      BY <1>1
    <2>2. slot = IF tail + i - 1 < Max THEN tail + i - 1 ELSE tail + i - 1 - Max
      BY <1>1, <2>1, SlotOf
    <2>3. Contents[i] = buffer[slot]
      BY ContentsType
    <2>. HIDE DEF slot
    <2>4. slot \in 0 .. Max - 1
      BY <1>1, <2>1, <2>2
    <2>5. ~(head <= slot /\ slot < head + first) /\ ~(slot < n - first)
      <3>1. CASE head >= tail
        BY <1>1, <1>3, <1>4, <2>1, <2>2, <3>1
      <3>2. CASE head < tail
        BY <1>1, <1>3, <1>4, <2>1, <2>2, <3>2
      <3>. QED
        BY <1>1, <3>1, <3>2
    <2>6. buffer'[slot] = buffer[slot]
      BY <1>5, <2>4, <2>5
    <2>. QED
      BY <2>3, <2>6 DEF slot
  <1>11. ASSUME NEW j \in 1 .. n
         PROVE  buffer'[(tail + (Size + j) - 1) % Max] = data[j]
    <2>. DEFINE slot == (tail + (Size + j) - 1) % Max
    <2>1. Size + j \in 1 .. Max
      BY <1>1
    <2>2. slot = IF tail + (Size + j) - 1 < Max THEN tail + (Size + j) - 1
                                              ELSE tail + (Size + j) - 1 - Max
      BY <1>1, <2>1, SlotOf
    <2>. HIDE DEF slot
    <2>3. slot = IF j <= first THEN head + j - 1 ELSE j - 1 - first
      <3>1. CASE head >= tail
        BY <1>1, <1>3, <1>4, <2>1, <2>2, <3>1
      <3>2. CASE head < tail
        BY <1>1, <1>3, <1>4, <2>1, <2>2, <3>2
      <3>. QED
        BY <1>1, <3>1, <3>2
    <2>4. slot \in 0 .. Max - 1
      BY <1>1, <2>1, <2>2
    <2>5. CASE j <= first
      <3>1. head <= slot /\ slot < head + first /\ slot - head + 1 = j
        BY <1>1, <1>4, <2>3, <2>5
      <3>. QED
        BY <1>5, <2>4, <3>1 DEF slot
    <2>6. CASE j > first
      <3>1. /\ ~(head <= slot /\ slot < head + first)
            /\ slot < n - first
            /\ first + slot + 1 = j
        BY <1>1, <1>4, <2>3, <2>6
      <3>. QED
        BY <1>5, <2>4, <3>1 DEF slot
    <2>. QED
      BY <1>1, <1>4, <2>5, <2>6
  <1>12. ASSUME NEW i \in 1 .. Size + n
         PROVE  Contents'[i] = (Contents \o data)[i]
    <2>0. i \in Int /\ Size \in Int /\ n \in Int
      BY <1>1
    <2>3. Contents'[i] = buffer'[(tail + i - 1) % Max]
      BY <1>6
    <2>1. CASE i <= Size
      <3>1. i \in 1 .. Size
        BY <2>0, <2>1
      <3>2. (Contents \o data)[i] = Contents[i]
        BY <1>9, <2>1
      <3>3. buffer'[(tail + i - 1) % Max] = Contents[i]
        BY <1>10, <3>1
      <3>. QED
        BY <2>3, <3>2, <3>3
    <2>2. CASE i > Size
      <3>1. i - Size \in 1 .. n /\ Size + (i - Size) = i
        BY <1>1, <2>2
      <3>2. buffer'[(tail + (Size + (i - Size)) - 1) % Max] = data[i - Size]
        BY <1>11, <3>1
      <3>3. (Contents \o data)[i] = data[i - Size]
        BY <1>9, <2>0, <2>2
      <3>. QED
        BY <2>3, <3>1, <3>2, <3>3
    <2>4. i <= Size \/ i > Size
      BY <2>0
    <2>. QED
      BY <2>1, <2>2, <2>4
  <1>. QED
    BY <1>7, <1>9, <1>12, SeqEqual

LEMMA InitRefines == Init => BQ!Init
  <1>. SUFFICES ASSUME Init PROVE BQ!Init
    OBVIOUS
  <1>1. Size = 0
    BY RingAssumption DEF Init, Size, SizeInternal
  <1>2. Contents = << >>
    BY <1>1 DEF Contents
  <1>. QED
    BY <1>2 DEF Init, BQ!Init, NoCall

\* A body that returns is one step of the queue; a body that waits is none.
LEMMA ServeRefines ==
    ASSUME TypeOK, TypeOK', NEW c \in Clients, pc[c] = "locked", Serve(c)
    PROVE  BQ!Next \/ UNCHANGED BQ!vars
  <1>1. /\ call[c] \in BQ!Call
        /\ Served(call[c])
        /\ Max \in Nat \ {0}
        /\ Size \in 0 .. Max
        /\ FreeSize = Max - Size
        /\ (Size = 0) <=> (~full /\ head = tail)
        /\ (Size = Max) <=> full
        /\ Contents \in Seq(Byte) /\ Len(Contents) = Size
        /\ call[c].len \in Nat
        /\ call[c].data \in Seq(Byte)
    BY CallInService, SizeFacts, ContentsType DEF BQ!Call
  <1>2. ASSUME NEW n, NEW data,
               SignalUnlockReturn(c, n, data) \/ UnlockReturn(c, n, data)
        PROVE  BQ!Return(c, n, data)
    BY <1>2 DEF SignalUnlockReturn, UnlockReturn, Return, BQ!Return, NoCall
  <1>3. CASE CondWait(c)
    BY <1>3 DEF CondWait, ringVars, BQ!vars, Contents, Size
  <1>4. CASE WriteBuffer(c) /\ ~CondWait(c)
    <2>1. /\ call[c].op = "write_buffer"
          /\ call[c].len = Len(call[c].data)
          /\ call[c].len \in 1 .. Max
          /\ call[c].len <= FreeSize
          /\ buffer' = CopyIn(call[c].data, call[c].len)
          /\ AdvancePointer(call[c].len)
          /\ SignalUnlockReturn(c, 0, << >>)
      BY <1>1, <1>4 DEF WriteBuffer, In, Served, CanWrite
    <2>2. Contents' = Contents \o call[c].data
      BY <1>1, <2>1, WriteIsAppend
    <2>3. Len(Contents) + call[c].len <= Max
      BY <1>1, <2>1
    <2>. QED
      BY <1>2, <2>1, <2>2, <2>3 DEF BQ!Next, BQ!Enqueue
  <1>5. CASE Put(c) /\ ~CondWait(c)
    <2>1. /\ call[c].op = "put"
          /\ call[c].len = 1
          /\ Len(call[c].data) = 1
          /\ ~full
          /\ buffer' = [buffer EXCEPT ![head] = call[c].data[1]]
          /\ AdvancePointer(1)
          /\ SignalUnlockReturn(c, 0, << >>)
      BY <1>1, <1>5 DEF Put, In, Served, CanPut
    <2>2. 1 \in 1 .. Max /\ 1 <= FreeSize
      BY <1>1, <2>1
    <2>3. head \in 0 .. Max - 1 /\ buffer \in [0 .. Max - 1 -> Byte]
      BY DEF TypeOK
    <2>4. Contiguous(head, 1) = 1
      BY <1>1, <2>2, <2>3, ContiguousBounds
    <2>5. buffer' = CopyIn(call[c].data, 1)
      <3>. SUFFICES ASSUME NEW i \in 0 .. Max - 1
                    PROVE  [buffer EXCEPT ![head] = call[c].data[1]][i]
                              = IF head <= i /\ i < head + 1
                                THEN call[c].data[i - head + 1]
                                ELSE IF i < 1 - 1 THEN call[c].data[1 + i + 1]
                                ELSE buffer[i]
        BY <2>1, <2>3, <2>4 DEF CopyIn
      <3>1. CASE i = head
        BY <1>1, <2>3, <3>1
      <3>2. CASE i # head
        BY <1>1, <2>3, <3>2
      <3>. QED
        BY <3>1, <3>2
    <2>6. Contents' = Contents \o call[c].data
      BY <1>1, <2>1, <2>2, <2>5, WriteIsAppend
    <2>7. Len(Contents) + call[c].len <= Max
      BY <1>1, <2>1, <2>2
    <2>. QED
      BY <1>2, <2>1, <2>6, <2>7 DEF BQ!Next, BQ!Enqueue
  <1>6. CASE ReadBuffer(c) /\ ~CondWait(c)
    <2>1. /\ call[c].op = "read_buffer"
          /\ call[c].len \in 1 .. Max
          /\ call[c].len <= Size
          /\ RetreatPointer(call[c].len)
          /\ SignalUnlockReturn(c, 0, CopyOut(call[c].len))
          /\ buffer' = buffer
      BY <1>1, <1>6 DEF ReadBuffer, In, Served, CanRead
    <2>2. Contents' = SubSeq(Contents, call[c].len + 1, Len(Contents))
      BY <1>1, <2>1, RetreatIsSuffix
    <2>3. CopyOut(call[c].len) = SubSeq(Contents, 1, call[c].len)
      BY <2>1, CopyOutIsPrefix
    <2>4. BQ!Return(c, 0, SubSeq(Contents, 1, call[c].len))
      BY <1>2, <2>1, <2>3
    <2>. QED
      BY <1>1, <2>1, <2>2, <2>4 DEF BQ!Next, BQ!Take
  <1>7. CASE ReadBufferAll(c) /\ ~CondWait(c)
    <2>1. /\ call[c].op = "read_buffer_all"
          /\ Size > 0
          /\ RetreatPointer(Size)
          /\ SignalUnlockReturn(c, Size, CopyOut(Size))
          /\ buffer' = buffer
      BY <1>7 DEF ReadBufferAll, In, CanReadAll
    <2>2. Size \in 1 .. Max /\ Size <= Size
      BY <1>1, <2>1
    <2>3. Contents' = << >>
      <3>1. Contents' = SubSeq(Contents, Size + 1, Size)
        BY <2>1, <2>2, RetreatIsSuffix
      <3>2. SubSeq(Contents, Size + 1, Size) = << >>
        BY <2>2, SubSeqEmpty
      <3>. QED
        BY <3>1, <3>2
    <2>4. CopyOut(Size) = Contents
      BY <1>1, <2>2, CopyOutIsPrefix, SubSeqFull
    <2>5. Contents # << >>
      BY <1>1, <2>2
    <2>6. BQ!Return(c, Len(Contents), Contents)
      BY <1>1, <1>2, <2>1, <2>4
    <2>. QED
      BY <2>1, <2>3, <2>5, <2>6 DEF BQ!Next, BQ!TakeAll
  <1>8. CASE Get(c) /\ ~CondWait(c)
    <2>1. /\ call[c].op = "get"
          /\ call[c].len = 1
          /\ ~(~full /\ head = tail)
          /\ RetreatPointer(1)
          /\ SignalUnlockReturn(c, 0, <<buffer[tail]>>)
          /\ buffer' = buffer
      BY <1>1, <1>8 DEF Get, In, Served, CanGet
    <2>2. 1 \in 1 .. Max /\ 1 <= Size
      BY <1>1, <2>1
    <2>3. Contents' = SubSeq(Contents, 1 + 1, Len(Contents))
      BY <1>1, <2>1, <2>2, RetreatIsSuffix
    <2>4. <<buffer[tail]>> = SubSeq(Contents, 1, 1)
      <3>1. tail \in 0 .. Max - 1 /\ buffer \in [0 .. Max - 1 -> Byte]
        BY DEF TypeOK
      <3>2. Contiguous(tail, 1) = 1
        BY <1>1, <2>2, <3>1, ContiguousBounds
      <3>3. CopyOut(1) = [i \in 1 .. 1 |->
                IF i <= 1 THEN buffer[tail + i - 1] ELSE buffer[i - 1 - 1]]
        BY <3>2 DEF CopyOut
      <3>4. CopyOut(1) = <<buffer[tail]>>
        BY <3>1, <3>3
      <3>. QED
        BY <2>2, <3>4, CopyOutIsPrefix
    <2>5. BQ!Return(c, 0, SubSeq(Contents, 1, 1))
      BY <1>2, <2>1, <2>4
    <2>. QED
      BY <1>1, <2>1, <2>2, <2>3, <2>5 DEF BQ!Next, BQ!Take
  <1>9. CASE Reset(c)
    <2>1. Size' = 0
      BY <1>1, <1>9 DEF Reset, Size, SizeInternal
    <2>2. Contents' = << >>
      BY <2>1 DEF Contents
    <2>. QED
      BY <1>2, <1>9, <2>2 DEF Reset, In, BQ!Next, BQ!Clear
  <1>10. CASE SizeBuffer(c)
    <2>1. Contents' = Contents
      BY <1>10 DEF SizeBuffer, ringVars, Contents, Size
    <2>. QED
      BY <1>1, <1>2, <1>10, <2>1 DEF SizeBuffer, In, BQ!Next, BQ!Count
  <1>. QED
    BY <1>3, <1>4, <1>5, <1>6, <1>7, <1>8, <1>9, <1>10 DEF Serve

LEMMA StepRefines ==
    ASSUME TypeOK, TypeOK', [Next]_vars
    PROVE  [BQ!Next]_(BQ!vars)
  <1>1. ASSUME NEW c \in Clients, Serve(c) PROVE [BQ!Next]_(BQ!vars)
    <2>1. pc[c] = "locked"
      BY <1>1 DEF Serve, WriteBuffer, Put, ReadBuffer, ReadBufferAll, Get,
                  Reset, SizeBuffer, In
    <2>. QED
      BY <1>1, <2>1, ServeRefines
  <1>2. ASSUME NEW c \in Clients, Invoke(c) PROVE [BQ!Next]_(BQ!vars)
    <2>1. Contents' = Contents
      BY <1>2 DEF Invoke, ringVars, Contents, Size
    <2>2. call[c] = NoCall
      BY <1>2 DEF Invoke, TypeOK
    <2>3. BQ!Invoke(c)
      BY <1>2, <2>1, <2>2 DEF Invoke, BQ!Invoke, NoCall
    <2>. QED
      BY <2>3 DEF BQ!Next
  <1>3. ASSUME UNCHANGED <<ringVars, call, done>> PROVE [BQ!Next]_(BQ!vars)
    BY <1>3 DEF ringVars, BQ!vars, Contents, Size
  <1>. QED
    BY <1>1, <1>2, <1>3 DEF Next, Run, Lock, Reacquire, TryAgain,
       SpuriousWakeup, Kill, vars, ringVars

\* For every capacity, any number of clients, any mix of calls, kills and
\* spurious wake-ups: the ring is the FIFO of ByteQueue.  Bytes come out in
\* the order they went in, none lost, doubled or torn across a wrap, and each
\* call takes effect at once.
THEOREM RingIsByteQueue == Spec => RefinesByteQueue
  <1>1. TypeOK /\ TypeOK' /\ [Next]_vars => [BQ!Next]_(BQ!vars)
    BY StepRefines
  <1>. QED
    BY <1>1, InitRefines, TypeCorrect, PTL DEF Spec, RefinesByteQueue, BQ!Spec

=============================================================================
