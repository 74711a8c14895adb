-------------------------- MODULE LegacyLinkProofs --------------------------
(***************************************************************************)
(* Theorems about LegacyLink, for any files and any capacity of the        *)
(* stream, under SymbolsAssumption, MarksAssumption, FilesAssumption,      *)
(* TransmitterAssumption and LossAssumption.                               *)
(***************************************************************************)
EXTENDS LegacyLink, DecoderProofs, SequenceTheorems

(***************************************************************************)
(* The inductive invariant, program by program.                            *)
(***************************************************************************)

Packets ==
    {ConfigPacket(f, whole) : f \in Files, whole \in BOOLEAN}
    \union UNION {{PayloadPacket(f, b, e) : b \in SbnOf(f.oti), e \in Esis} : f \in Files}

StreamOK ==
    /\ stream \in Seq(Packets) /\ Len(stream) <= Capacity
    /\ outOfStep \in BOOLEAN

\* As long as the transmitter runs, no block has used up its ESIs.
TxOK ==
    /\ txRunning \in BOOLEAN
    /\ txPc \in {"round", "stuffing", "symbols", "off"}
    /\ txPc # "off" <=> txFile # NoTxFile
    /\ txPc # "off" => /\ txFile \in Files
                       /\ txEsi \in [SbnOf(txFile.oti) -> 0 .. MaxEsi + 1]
    /\ txRunning => /\ txPc # "off"
                    /\ \A b \in SbnOf(txFile.oti) : txEsi[b] <= MaxEsi

\* The sessions of object o
Session(o) ==
    [oti : {o}, blocks : [SbnOf(o) -> [Esis -> Cells]], file : Outputs(o),
     seen : [SbnOf(o) -> Nat], decoded : [SbnOf(o) -> BOOLEAN]]

SessionOK(s) == s \in Session(s.oti) /\ \E taken : BlocksOK(s.oti, s, taken)

RxOK ==
    /\ outcome \in {"on", "received", "todo", "stopped"}
    /\ rx.oti \in Otis \union {NoOti}
    /\ Configured => SessionOK(rx)
    /\ outcome = "received" => Configured /\ FileReceived(rx)

\* A frame that is torn now is the last one, and what it lacks comes next.
TornOK ==
    /\ OnlyKillsTear
    /\ txPc = "stuffing" => /\ stream # << >>
                            /\ stream[Len(stream)] = ConfigPacket(txFile, FALSE)

\* A payload packet is behind a packet of its own file, whether that is still in
\* the stream or not.
ChainOK ==
    /\ \A i \in 1 .. Len(stream) - 1 :
           stream[i + 1].type = "payload" => stream[i + 1].file = stream[i].file
    /\ txPc = "symbols" /\ stream # << >> => stream[Len(stream)].file = txFile

\* All symbols the receiver has are of file f, and so is the next one.
NextIsOf(f) ==
    /\ stream # << >> /\ Head(stream).type = "payload" => Head(stream).file = f
    /\ stream = << >> /\ txPc = "symbols" => txFile = f

OfOneFile ==
    Configured /\ ~lost /\ outcome \in {"on", "received"} /\ OtiTells(sent) =>
        \E f \in sent : /\ f.oti = rx.oti
                        /\ HoldsOnly(rx, f.content)
                        /\ outcome = "on" /\ ~outOfStep => NextIsOf(f)

\* What is under way is of files the transmitter was started with.
SentOK ==
    /\ sent \subseteq Files
    /\ txPc # "off" => txFile \in sent
    /\ \A i \in 1 .. Len(stream) : stream[i].file \in sent

Inv == StreamOK /\ TxOK /\ RxOK /\ TornOK /\ ChainOK /\ SentOK /\ OfOneFile

-----------------------------------------------------------------------------
(***************************************************************************)
(* The stream.                                                             *)
(***************************************************************************)

LEMMA PacketFields ==
    ASSUME NEW p \in Packets
    PROVE  /\ p.file \in Files
           /\ \/ /\ p.type = "config" /\ p.whole \in BOOLEAN
                 /\ p = ConfigPacket(p.file, p.whole)
              \/ /\ p.type = "payload" /\ ~IsTorn(p)
                 /\ p.sbn \in SbnOf(p.file.oti) /\ p.esi \in Esis
  <1>1. CASE \E f \in Files, whole \in BOOLEAN : p = ConfigPacket(f, whole)
    BY <1>1 DEF ConfigPacket
  <1>2. CASE \E f \in Files : \E b \in SbnOf(f.oti), e \in Esis : p = PayloadPacket(f, b, e)
    BY <1>2 DEF PayloadPacket, IsTorn
  <1>. QED
    BY <1>1, <1>2 DEF Packets

LEMMA PacketKinds ==
    ASSUME NEW f \in Files
    PROVE  /\ \A whole \in BOOLEAN : ConfigPacket(f, whole) \in Packets
           /\ \A b \in SbnOf(f.oti), e \in Esis : PayloadPacket(f, b, e) \in Packets
  BY DEF Packets

LEMMA Completed ==
    ASSUME NEW f, NEW w, NEW whole
    PROVE  [ConfigPacket(f, w) EXCEPT !.whole = whole] = ConfigPacket(f, whole)
  BY DEF ConfigPacket

LEMMA FileFields ==
    ASSUME NEW f \in Files
    PROVE  f.oti \in Otis /\ f.content \in Contents
  BY FilesAssumption

LEMMA Replaced ==
    ASSUME NEW S, NEW s \in Seq(S), NEW n \in 1 .. Len(s), NEW x \in S,
           NEW t, t = [s EXCEPT ![n] = x]
    PROVE  /\ t \in Seq(S) /\ Len(t) = Len(s) /\ t[n] = x
           /\ \A i \in 1 .. n - 1 : t[i] = s[i]
  BY ExceptSeq

\* What taking a frame does to the stream.
LEMMA TakeShape ==
    ASSUME StreamOK, Take
    PROVE  /\ Len(stream) \in Nat \ {0} /\ Len(stream') = Len(stream) - 1
           /\ Head(stream) = stream[1] /\ stream[1] \in Packets
           /\ \A i \in 1 .. Len(stream) - 1 : stream'[i] = stream[i + 1]
           /\ outOfStep' = (outOfStep \/ IsTorn(stream[1]))
           /\ outOfStep' => Len(stream) >= 2
           /\ outOfStep \/ IsTorn(stream[1]) => outOfStep'
           /\ StreamOK'
  <1>1. stream # << >> /\ stream \in Seq(Packets) /\ stream' = Tail(stream)
    BY DEF StreamOK, Take, Readable
  <1>2. /\ Len(stream) \in Nat \ {0} /\ Len(stream') = Len(stream) - 1
        /\ Head(stream) = stream[1] /\ stream[1] \in Packets
        /\ stream' \in Seq(Packets)
        /\ \A i \in 1 .. Len(stream) - 1 : stream'[i] = stream[i + 1]
    BY <1>1
  <1>3. /\ outOfStep' = (outOfStep \/ IsTorn(stream[1]))
        /\ outOfStep' => Len(stream) >= 2
        /\ outOfStep \/ IsTorn(stream[1]) => outOfStep'
    BY <1>2 DEF Take, Readable
  <1>4. outOfStep' \in BOOLEAN
    BY <1>2, <1>3, PacketFields DEF StreamOK, IsTorn
  <1>5. Capacity \in Nat
    BY FilesAssumption
  <1>. QED
    BY <1>2, <1>3, <1>4, <1>5 DEF StreamOK

\* A reader that takes a frame leaves what it says of the others.
LEMMA TakeKeeps ==
    ASSUME StreamOK, TornOK, ChainOK, Take,
           UNCHANGED <<txPc, txFile>>, "kill" \in interrupted => "kill" \in interrupted'
    PROVE  TornOK' /\ ChainOK'
  <1>1. /\ Len(stream) \in Nat \ {0} /\ Len(stream') = Len(stream) - 1
        /\ \A i \in 1 .. Len(stream) - 1 : stream'[i] = stream[i + 1]
        /\ outOfStep' = (outOfStep \/ IsTorn(stream[1]))
        /\ outOfStep' => Len(stream) >= 2
        /\ outOfStep \/ IsTorn(stream[1]) => outOfStep'
        /\ stream' \in Seq(Packets)
    BY TakeShape DEF StreamOK
  <1>2. ASSUME outOfStep'
        PROVE  "kill" \in interrupted'
    <2>1. CASE outOfStep
      BY <2>1 DEF TornOK, OnlyKillsTear
    <2>2. CASE IsTorn(stream[1])
      <3>1. 1 \in 1 .. Len(stream) /\ 1 # Len(stream)
        BY <1>1, <1>2
      <3>. QED
        BY <2>2, <3>1 DEF TornOK, OnlyKillsTear
    <2>. QED
      BY <1>1, <1>2, <2>1, <2>2
  <1>3. ASSUME NEW i \in 1 .. Len(stream'), IsTorn(stream'[i])
        PROVE  "kill" \in interrupted' \/ (i = Len(stream') /\ txPc' = "stuffing")
    <2>1. i + 1 \in 1 .. Len(stream) /\ IsTorn(stream[i + 1])
      BY <1>1, <1>3
    <2>. QED
      BY <1>1, <2>1 DEF TornOK, OnlyKillsTear
  <1>4. ASSUME txPc' = "stuffing"
        PROVE  stream' # << >> /\ stream'[Len(stream')] = ConfigPacket(txFile', FALSE)
    <2>1. stream[Len(stream)] = ConfigPacket(txFile, FALSE)
      BY <1>4 DEF TornOK
    <2>2. IsTorn(stream[Len(stream)])
      BY <2>1 DEF IsTorn, ConfigPacket
    <2>3. Len(stream) # 1
      <3>1. SUFFICES ASSUME Len(stream) = 1
                     PROVE  FALSE
        OBVIOUS
      <3>2. IsTorn(stream[1])
        BY <2>2, <3>1
      <3>. QED
        BY <1>1, <3>1, <3>2
    <2>4. Len(stream') \in 1 .. Len(stream) - 1 /\ Len(stream') + 1 = Len(stream)
      BY <1>1, <2>3
    <2>5. stream'[Len(stream')] = stream[Len(stream)]
      BY <1>1, <2>4
    <2>6. stream' # << >>
      BY <2>4
    <2>. QED
      BY <2>1, <2>5, <2>6
  <1>5. ASSUME NEW i \in 1 .. Len(stream') - 1, stream'[i + 1].type = "payload"
        PROVE  stream'[i + 1].file = stream'[i].file
    <2>1. /\ i + 1 \in 1 .. Len(stream) - 1
          /\ stream'[i] = stream[i + 1] /\ stream'[i + 1] = stream[(i + 1) + 1]
      BY <1>1
    <2>. QED
      BY <1>5, <2>1 DEF ChainOK
  <1>6. ASSUME txPc' = "symbols", stream' # << >>
        PROVE  stream'[Len(stream')].file = txFile'
    <2>1. Len(stream') \in 1 .. Len(stream) - 1 /\ Len(stream') + 1 = Len(stream)
      BY <1>1, <1>6
    <2>2. stream # << >>
      BY <1>1
    <2>. QED
      BY <1>1, <1>6, <2>1, <2>2 DEF ChainOK
  <1>. QED
    BY <1>2, <1>3, <1>4, <1>5, <1>6 DEF TornOK, ChainOK, OnlyKillsTear

\* What comes behind a frame of file f is of file f, if it is a symbol.
LEMMA TakeNext ==
    ASSUME StreamOK, ChainOK, Take, UNCHANGED <<txPc, txFile>>,
           NEW f, Head(stream).file = f
    PROVE  NextIsOf(f)'
  <1>1. /\ Len(stream) \in Nat \ {0} /\ Len(stream') = Len(stream) - 1
        /\ Head(stream) = stream[1]
        /\ \A i \in 1 .. Len(stream) - 1 : stream'[i] = stream[i + 1]
        /\ stream' \in Seq(Packets)
    BY TakeShape DEF StreamOK
  <1>2. ASSUME stream' # << >>, Head(stream').type = "payload"
        PROVE  Head(stream').file = f
    <2>1. Len(stream) >= 2 /\ Head(stream') = stream[2]
      BY <1>1, <1>2
    <2>. QED
      BY <1>1, <1>2, <2>1 DEF ChainOK
  <1>3. ASSUME stream' = << >>, txPc' = "symbols"
        PROVE  txFile' = f
    <2>1. Len(stream) = 1 /\ stream # << >>
      BY <1>1, <1>3
    <2>. QED
      BY <1>1, <1>3, <2>1 DEF ChainOK
  <1>. QED
    BY <1>2, <1>3 DEF NextIsOf

\* What is left in the stream, and what is taken from it, is of files that were
\* sent.
LEMMA TakeSent ==
    ASSUME StreamOK, SentOK, Take, UNCHANGED <<txPc, txFile, sent>>
    PROVE  SentOK' /\ Head(stream).file \in sent
  <1>1. /\ Len(stream) \in Nat \ {0} /\ Len(stream') = Len(stream) - 1
        /\ Head(stream) = stream[1]
        /\ \A i \in 1 .. Len(stream) - 1 : stream'[i] = stream[i + 1]
    BY TakeShape
  <1>2. ASSUME NEW i \in 1 .. Len(stream')
        PROVE  stream'[i].file \in sent
    <2>1. i \in 1 .. Len(stream) - 1 /\ i + 1 \in 1 .. Len(stream)
      BY <1>1
    <2>. QED
      BY <1>1, <2>1 DEF SentOK
  <1>3. 1 \in 1 .. Len(stream)
    BY <1>1
  <1>. QED
    BY <1>1, <1>2, <1>3 DEF SentOK

\* A frame that is appended
LEMMA AppendShape ==
    ASSUME StreamOK, Room, NEW p \in Packets, Append1(p)
    PROVE  /\ StreamOK' /\ outOfStep' = outOfStep
           /\ Len(stream) \in Nat /\ Len(stream') = Len(stream) + 1
           /\ stream'[Len(stream) + 1] = p
           /\ \A i \in 1 .. Len(stream) : stream'[i] = stream[i]
           /\ stream # << >> => Head(stream') = Head(stream)
           /\ stream = << >> => Head(stream') = p
  <1>1. stream \in Seq(Packets) /\ stream' = Append(stream, p) /\ outOfStep' = outOfStep
    BY DEF StreamOK, Append1
  <1>2. /\ Len(stream) \in Nat /\ Len(stream') = Len(stream) + 1
        /\ stream'[Len(stream) + 1] = p /\ stream' \in Seq(Packets)
        /\ \A i \in 1 .. Len(stream) : stream'[i] = stream[i]
    BY <1>1
  <1>3. Capacity \in Nat
    BY FilesAssumption
  <1>4. Head(stream') = stream'[1]
    BY <1>2
  <1>5. stream # << >> => Head(stream) = stream[1] /\ 1 \in 1 .. Len(stream)
    BY <1>1
  <1>6. stream = << >> => Len(stream) = 0
    BY <1>1
  <1>. QED
    BY <1>1, <1>2, <1>3, <1>4, <1>5, <1>6 DEF StreamOK, Room

LEMMA AppendSent ==
    ASSUME SentOK, UNCHANGED sent, NEW p, p.file = txFile, txFile' = txFile, txFile \in sent,
           Len(stream) \in Nat, Len(stream') = Len(stream) + 1,
           stream'[Len(stream) + 1] = p,
           \A i \in 1 .. Len(stream) : stream'[i] = stream[i]
    PROVE  SentOK'
  <1>1. ASSUME NEW i \in 1 .. Len(stream')
        PROVE  stream'[i].file \in sent
    <2>1. CASE i = Len(stream) + 1
      BY <2>1
    <2>2. CASE i # Len(stream) + 1
      <3>1. i \in 1 .. Len(stream)
        BY <2>2
      <3>. QED
        BY <3>1 DEF SentOK
    <2>. QED
      BY <2>1, <2>2
  <1>. QED
    BY <1>1 DEF SentOK

-----------------------------------------------------------------------------
(***************************************************************************)
(* The receiver.                                                           *)
(***************************************************************************)

LEMMA SessionDecodes ==
    ASSUME NEW o, NEW s \in Session(o)
    PROVE  Decodes(o, s)
  BY DEF Session, Decodes

\* A symbol that was added, counted
Counted(s, b, e, c, w) == [AddSymbol(s, b, e, c, w) EXCEPT !.seen[b] = @ + 1]

LEMMA Added ==
    ASSUME NEW o \in Otis, NEW s \in Session(o), NEW b \in SbnOf(o), NEW e \in Esis,
           NEW c \in Contents, NEW w \in Written(c),
           NEW u, u = Counted(s, b, e, c, w)
    PROVE  u \in Session(o) /\ IsCounted(o, s, b, e, c, w, u)
  <1>. DEFINE f == IF e \in SourceEsis(o, b) THEN [s.file[b] EXCEPT ![e] = w] ELSE s.file[b]
  <1>1. s.oti = o
    BY DEF Session
  <1>2. u = [s EXCEPT !.blocks = [s.blocks EXCEPT ![b] = [s.blocks[b] EXCEPT ![e] = c]],
                      !.file = [s.file EXCEPT ![b] = f],
                      !.seen = [s.seen EXCEPT ![b] = s.seen[b] + 1]]
    BY <1>1 DEF Counted, AddSymbol, Session
  <1>3. IsCounted(o, s, b, e, c, w, u)
    BY <1>1, <1>2 DEF Session, IsCounted
  <1>4. Decodes(o, u)
    BY <1>3, SessionDecodes, CountedDecodes
  <1>. QED
    BY <1>2, <1>3, <1>4 DEF Session, Decodes

\* A block that was solved: its gaps are filled, and it is marked.
Marked(s, b, w) == [Repaired(s, b, w) EXCEPT !.decoded[b] = @ \/ TRUE]

LEMMA Solved ==
    ASSUME NEW o \in Otis, NEW s \in Session(o), NEW b \in SbnOf(o), Mask(s, b) # {},
           NEW w \in Written(Rebuilt(s, b)),
           NEW t, t = Marked(s, b, w)
    PROVE  t \in Session(o) /\ IsSolved(o, s, b, w, t)
  <1>. DEFINE f == [e \in SourceEsis(o, b) |-> IF e \in Gaps(s, b) THEN w ELSE s.file[b][e]]
  <1>1. s.oti = o
    BY DEF Session
  <1>2. t = [s EXCEPT !.blocks = [s.blocks EXCEPT ![b] = SetRebuilt(s, b)],
                      !.file = [s.file EXCEPT ![b] = f],
                      !.decoded = [s.decoded EXCEPT ![b] = TRUE]]
    BY <1>1 DEF Marked, Repaired, Session
  <1>3. IsSolved(o, s, b, w, t)
    BY <1>1, <1>2 DEF Session, IsSolved
  <1>4. Decodes(o, t)
    BY <1>3, SessionDecodes, SolvedDecodes
  <1>. QED
    BY <1>2, <1>3, <1>4 DEF Session, Decodes

\* What becomes of the session when a symbol counts: the symbol is there, and if
\* there was an attempt that did not fail, the block is solved.
LEMMA PayloadShape ==
    ASSUME NEW o \in Otis, rx \in Session(o), NEW b, NEW e \in Esis, NEW c \in Contents,
           SymbolResult(rx, b, e) = "ADDED", NEW t \in AfterPayload(b, e, c)
    PROVE  /\ b \in SbnOf(o) /\ t \in Session(o)
           /\ \E w, u :
                 /\ w \in Written(c)
                 /\ IsCounted(o, rx, b, e, c, w, u)
                 /\ \/ t = u /\ (~(u.seen[b] >= Symbols[o][b]) \/ Gaps(u, b) # {})
                    \/ /\ u.seen[b] >= Symbols[o][b]
                       /\ \E v \in Written(Rebuilt(u, b)) : IsSolved(o, u, b, v, t)
  <1>1. rx.oti = o
    BY DEF Session
  <1>2. b \in SbnOf(o)
    BY <1>1 DEF SymbolResult
  <1>. DEFINE Next1(s) ==
           IF ~ShouldTry(s, b) THEN {s}
           ELSE {[r.session EXCEPT !.decoded[b] = @ \/ r.ok] : r \in RepairBlock(s, b)}
  <1>3. PICK w \in Written(c) : t \in Next1(Counted(rx, b, e, c, w))
    BY DEF AfterPayload, Counted
  <1>4. PICK u : u = Counted(rx, b, e, c, w)
    OBVIOUS
  <1>5. u \in Session(o) /\ IsCounted(o, rx, b, e, c, w, u)
    BY <1>2, <1>3, <1>4, Added
  <1>6. u.oti = o
    BY <1>5 DEF IsCounted
  <1>7. CASE ~ShouldTry(u, b)
    <2>1. t = u
      BY <1>3, <1>4, <1>7
    <2>2. ~(u.seen[b] >= Symbols[o][b])
      BY <1>6, <1>7 DEF ShouldTry
    <2>. QED
      BY <1>2, <1>3, <1>5, <2>1, <2>2
  <1>8. CASE ShouldTry(u, b)
    <2>1. PICK r \in RepairBlock(u, b) : t = [r.session EXCEPT !.decoded[b] = @ \/ r.ok]
      BY <1>3, <1>4, <1>8
    <2>2. u.seen[b] >= Symbols[o][b]
      BY <1>6, <1>8 DEF ShouldTry
    <2>3. CASE \E v \in Written(Rebuilt(u, b)) :
                   r = [ok |-> TRUE, session |-> Repaired(u, b, v)]
      <3>1. PICK v \in Written(Rebuilt(u, b)) :
                r = [ok |-> TRUE, session |-> Repaired(u, b, v)]
        BY <2>3
      <3>2. t = Marked(u, b, v)
        BY <2>1, <3>1 DEF Marked
      <3>3. Mask(u, b) # {}
        BY <1>2, <1>3, <1>5, SessionDecodes, CountedDecodes
      <3>4. t \in Session(o) /\ IsSolved(o, u, b, v, t)
        BY <1>2, <1>5, <3>1, <3>2, <3>3, Solved
      <3>. QED
        BY <1>2, <1>3, <1>5, <2>2, <3>1, <3>4
    <2>4. CASE FALSE \in RepairResults(u, b) /\ r = [ok |-> FALSE, session |-> u]
      <3>1. u.decoded = [u.decoded EXCEPT ![b] = u.decoded[b] \/ FALSE]
        BY <1>5 DEF Session
      <3>2. t = [u EXCEPT !.decoded = [u.decoded EXCEPT ![b] = u.decoded[b] \/ FALSE]]
        BY <2>1, <2>4
      <3>3. t = u
        BY <1>5, <3>1, <3>2 DEF Session
      <3>4. Gaps(u, b) # {}
        BY <2>4 DEF RepairResults
      <3>. QED
        BY <1>2, <1>3, <1>5, <3>3, <3>4
    <2>. QED
      BY <2>3, <2>4, RepairCases
  <1>. QED
    BY <1>7, <1>8

\* A symbol keeps the session what it should be, whether or not there is an
\* attempt after it, and whether or not it succeeds.
LEMMA PayloadOK ==
    ASSUME Configured, RxOK, NEW b, NEW e \in Esis, NEW c \in Contents,
           NEW t \in AfterPayload(b, e, c)
    PROVE  /\ SessionOK(t) /\ t.oti = rx.oti
           /\ HoldsOnly(rx, c) => HoldsOnly(t, c)
  <1>1. CASE SymbolResult(rx, b, e) # "ADDED"
    BY <1>1 DEF AfterPayload, RxOK
  <1>2. CASE SymbolResult(rx, b, e) = "ADDED"
    <2>1. PICK o \in Otis : o = rx.oti
      BY DEF RxOK, Configured
    <2>2. PICK taken : BlocksOK(o, rx, taken)
      BY <2>1 DEF RxOK, SessionOK
    <2>3. rx \in Session(o) /\ Decodes(o, rx)
      BY <2>1, SessionDecodes DEF RxOK, SessionOK
    <2>4. b \in SbnOf(o) /\ t \in Session(o)
      BY <1>2, <2>3, PayloadShape
    <2>5. PICK w, u :
              /\ w \in Written(c)
              /\ IsCounted(o, rx, b, e, c, w, u)
              /\ \/ t = u /\ (~(u.seen[b] >= Symbols[o][b]) \/ Gaps(u, b) # {})
                 \/ /\ u.seen[b] >= Symbols[o][b]
                    /\ \E v \in Written(Rebuilt(u, b)) : IsSolved(o, u, b, v, t)
      BY <1>2, <2>3, PayloadShape
    <2>6. PICK more : more = With(taken, b, e)
      OBVIOUS
    <2>7. /\ Decodes(o, u)
          /\ more \in [SbnOf(o) -> SUBSET Esis]
          /\ ~u.decoded[b] /\ Mask(u, b) = more[b] /\ more[b] # {}
          /\ u.seen[b] = Cardinality(more[b])
          /\ \A k \in SbnOf(o) \ {b} : BlockOK(u, more, k)
          /\ ~(u.seen[b] >= Symbols[o][b]) \/ Gaps(u, b) # {} => BlocksOK(o, u, more)
      BY <1>2, <2>2, <2>3, <2>4, <2>5, <2>6, CountedOK
    <2>8. BlocksOK(o, t, more)
      <3>1. CASE t = u /\ (~(u.seen[b] >= Symbols[o][b]) \/ Gaps(u, b) # {})
        BY <2>7, <3>1
      <3>2. CASE /\ u.seen[b] >= Symbols[o][b]
                 /\ \E v \in Written(Rebuilt(u, b)) : IsSolved(o, u, b, v, t)
        BY <2>4, <2>7, <3>2, SolvedOK
      <3>. QED
        BY <2>5, <3>1, <3>2
    <2>9. t.oti = o
      BY <2>4 DEF Session
    <2>10. ASSUME HoldsOnly(rx, c)
           PROVE  HoldsOnly(t, c)
      <3>1. HoldsOnly(u, c)
        BY <2>3, <2>4, <2>5, <2>10, CountedHolds
      <3>2. ASSUME NEW v \in Written(Rebuilt(u, b)), IsSolved(o, u, b, v, t)
            PROVE  HoldsOnly(t, c)
        BY <2>4, <2>7, <3>1, <3>2, SolvedHolds
      <3>. QED
        BY <2>5, <3>1, <3>2
    <2>. QED
      BY <2>1, <2>4, <2>8, <2>9, <2>10 DEF SessionOK
  <1>. QED
    BY <1>1, <1>2

\* The session a configuration packet begins
LEMMA ConfigOK ==
    ASSUME NEW f \in Files, RxConfig, StreamOK, Taken = Head(stream), Head(stream).file = f
    PROVE  /\ SessionOK(rx') /\ rx'.oti = f.oti /\ HoldsOnly(rx', f.content)
  <1>1. PICK s : s = rx'
    OBVIOUS
  <1>2. PICK o \in Otis : o = f.oti
    BY FileFields
  <1>3. s = [oti |-> o, blocks |-> NoBlocks(o), file |-> NoPlaces(o),
             seen |-> [b \in SbnOf(o) |-> 0], decoded |-> [b \in SbnOf(o) |-> FALSE]]
    BY <1>1, <1>2 DEF RxConfig
  <1>4. PICK taken : taken = [b \in SbnOf(o) |-> {}]
    OBVIOUS
  <1>5. /\ s.oti = o /\ s.blocks = NoBlocks(o) /\ s.file = NoPlaces(o)
        /\ s.seen = [b \in SbnOf(o) |-> 0] /\ s.decoded = [b \in SbnOf(o) |-> FALSE]
    BY <1>3
  <1>6. Decodes(o, s) /\ BlocksOK(o, s, taken)
    BY <1>4, <1>5, FreshOK
  <1>7. s \in Session(o)
    BY <1>3, <1>5, <1>6 DEF Decodes, Session
  <1>8. HoldsOnly(s, f.content)
    BY <1>5, FreshHolds
  <1>. QED
    BY <1>1, <1>2, <1>5, <1>6, <1>7, <1>8 DEF SessionOK

-----------------------------------------------------------------------------
(***************************************************************************)
(* Every step keeps the invariant.                                         *)
(***************************************************************************)

\* What nobody touches stays as it was.
LEMMA RxStays ==
    ASSUME Inv, UNCHANGED rxVars
    PROVE  RxOK'
  <1>1. outcome' = outcome /\ rx' = rx
    BY DEF rxVars
  <1>. QED
    BY <1>1 DEF Inv, RxOK, Configured, FileReceived

LEMMA TxStays ==
    ASSUME Inv, UNCHANGED txVars
    PROVE  TxOK'
  BY DEF Inv, TxOK, txVars

\* The transmitter goes on, and the receiver has not moved: the file it has stays
\* the one, if the next frame is still of it.
LEMMA FileStays ==
    ASSUME Inv, UNCHANGED <<rxVars, outOfStep>>, sent \subseteq sent',
           \A f \in Files : NextIsOf(f) => NextIsOf(f)'
    PROVE  OfOneFile'
  <1>1. outcome' = outcome /\ rx' = rx /\ lost' = lost /\ outOfStep' = outOfStep
    BY DEF rxVars
  <1>2. OtiTells(sent') => OtiTells(sent)
    BY DEF OtiTells
  <1>3. SUFFICES ASSUME Configured, ~lost, outcome \in {"on", "received"}, OtiTells(sent)
                 PROVE  \E f \in sent : /\ f.oti = rx.oti
                                        /\ HoldsOnly(rx, f.content)
                                        /\ outcome = "on" /\ ~outOfStep => NextIsOf(f)'
    BY <1>1, <1>2 DEF OfOneFile, Configured, HoldsOnly, OtiTells
  <1>. QED
    BY <1>3 DEF Inv, OfOneFile, SentOK

LEMMA StartKeeps == Inv /\ Start => Inv'
  <1>. SUFFICES ASSUME Inv, NEW f \in Files, TxStart(f),
                       "kill" \in interrupted => "kill" \in interrupted',
                       sent' = sent \union {f}, UNCHANGED rxVars
                PROVE  Inv'
    BY DEF Start
  <1>1. /\ txPc = "off" /\ txPc' = "round" /\ txRunning' = TRUE /\ txFile' = f
        /\ txEsi' = [b \in SbnOf(f.oti) |-> 0]
        /\ stream' = stream /\ outOfStep' = outOfStep
    BY DEF TxStart, streamVars
  <1>2. StreamOK'
    BY <1>1 DEF Inv, StreamOK
  <1>3. TxOK'
    BY <1>1, TransmitterAssumption, SymbolsAssumption DEF TxOK
  <1>4. TornOK' /\ ChainOK'
    BY <1>1 DEF Inv, TornOK, ChainOK, OnlyKillsTear
  <1>5. SentOK'
    BY <1>1 DEF Inv, SentOK
  <1>6. OfOneFile'
    BY <1>1, FileStays DEF NextIsOf
  <1>. QED
    BY <1>2, <1>3, <1>4, <1>5, <1>6, RxStays DEF Inv

\* TxKill and TxLeave
LEMMA EndKeeps ==
    ASSUME Inv, TxEnd, UNCHANGED <<streamVars, rxVars, sent>>,
           "kill" \in interrupted => "kill" \in interrupted',
           txPc = "stuffing" => "kill" \in interrupted'
    PROVE  Inv'
  <1>1. /\ txPc' = "off" /\ txRunning' = FALSE /\ txFile' = NoTxFile
        /\ stream' = stream /\ outOfStep' = outOfStep
    BY DEF TxEnd, streamVars
  <1>2. StreamOK'
    BY <1>1 DEF Inv, StreamOK
  <1>3. TxOK'
    BY <1>1 DEF TxOK
  <1>4. TornOK' /\ ChainOK'
    BY <1>1 DEF Inv, TornOK, ChainOK, OnlyKillsTear
  <1>5. SentOK'
    BY <1>1 DEF Inv, SentOK
  <1>6. OfOneFile'
    BY <1>1, FileStays DEF NextIsOf
  <1>. QED
    BY <1>2, <1>3, <1>4, <1>5, <1>6, RxStays DEF Inv

LEMMA SignalKeeps ==
    ASSUME Inv, TxSignal, UNCHANGED <<rxVars, sent>>,
           "kill" \in interrupted => "kill" \in interrupted'
    PROVE  Inv'
  <1>1. /\ txPc' = txPc /\ txRunning' = FALSE /\ txFile' = txFile /\ txEsi' = txEsi
        /\ stream' = stream /\ outOfStep' = outOfStep
    BY DEF TxSignal, streamVars
  <1>2. StreamOK'
    BY <1>1 DEF Inv, StreamOK
  <1>3. TxOK'
    BY <1>1 DEF Inv, TxOK
  <1>4. TornOK' /\ ChainOK'
    BY <1>1 DEF Inv, TornOK, ChainOK, OnlyKillsTear
  <1>5. SentOK'
    BY <1>1 DEF Inv, SentOK
  <1>6. OfOneFile'
    BY <1>1, FileStays DEF NextIsOf
  <1>. QED
    BY <1>2, <1>3, <1>4, <1>5, <1>6, RxStays DEF Inv

LEMMA TxConfigKeeps ==
    ASSUME Inv, TxConfig, UNCHANGED <<rxVars, interrupted, sent>>
    PROVE  Inv'
  <1>. DEFINE p == ConfigPacket(txFile, FALSE)
  <1>1. /\ txPc = "round" /\ txPc' = "stuffing" /\ txRunning' = txRunning
        /\ txFile' = txFile /\ txEsi' = txEsi
    BY DEF TxConfig
  <1>2. txFile \in Files /\ p \in Packets
    <2>1. txFile \in Files
      BY <1>1 DEF Inv, TxOK
    <2>. QED
      BY <2>1, PacketKinds
  <1>3. p.type = "config" /\ p.file = txFile
    BY DEF ConfigPacket
  <1>4. /\ StreamOK' /\ outOfStep' = outOfStep
        /\ Len(stream) \in Nat /\ Len(stream') = Len(stream) + 1
        /\ stream'[Len(stream) + 1] = p
        /\ \A i \in 1 .. Len(stream) : stream'[i] = stream[i]
        /\ stream # << >> => Head(stream') = Head(stream)
        /\ stream = << >> => Head(stream') = p
    BY <1>2, AppendShape DEF Inv, TxConfig
  <1>5. TxOK'
    BY <1>1 DEF Inv, TxOK
  <1>6. TornOK'
    <2>1. outOfStep' => "kill" \in interrupted'
      BY <1>4 DEF Inv, TornOK, OnlyKillsTear
    <2>2. ASSUME NEW i \in 1 .. Len(stream'), IsTorn(stream'[i])
          PROVE  "kill" \in interrupted' \/ (i = Len(stream') /\ txPc' = "stuffing")
      <3>1. CASE i = Len(stream')
        BY <1>1, <3>1
      <3>2. CASE i # Len(stream')
        <4>1. i \in 1 .. Len(stream) /\ IsTorn(stream[i])
          BY <1>4, <2>2, <3>2
        <4>. QED
          BY <1>1, <4>1 DEF Inv, TornOK, OnlyKillsTear
      <3>. QED
        BY <3>1, <3>2
    <2>3. stream' # << >> /\ stream'[Len(stream')] = ConfigPacket(txFile', FALSE)
      BY <1>1, <1>4 DEF StreamOK
    <2>. QED
      BY <2>1, <2>2, <2>3 DEF TornOK, OnlyKillsTear
  <1>7. ChainOK'
    <2>1. ASSUME NEW i \in 1 .. Len(stream') - 1, stream'[i + 1].type = "payload"
          PROVE  stream'[i + 1].file = stream'[i].file
      <3>1. i \in 1 .. Len(stream) - 1
        <4>1. CASE i = Len(stream)
          <5>1. stream'[i + 1] = p
            BY <1>4, <4>1
          <5>. QED
            BY <1>3, <2>1, <5>1
        <4>2. CASE i # Len(stream)
          BY <1>4, <4>2
        <4>. QED
          BY <4>1, <4>2
      <3>2. stream'[i] = stream[i] /\ stream'[i + 1] = stream[i + 1]
        BY <1>4, <3>1
      <3>. QED
        BY <2>1, <3>1, <3>2 DEF Inv, ChainOK
    <2>. QED
      BY <1>1, <2>1 DEF ChainOK
  <1>8. ASSUME NEW f \in Files, NextIsOf(f)
        PROVE  NextIsOf(f)'
    <2>1. stream' # << >>
      BY <1>4 DEF StreamOK
    <2>. QED
      BY <1>3, <1>4, <1>8, <2>1 DEF NextIsOf
  <1>9. OfOneFile'
    BY <1>4, <1>8, FileStays
  <1>10. SentOK'
    <2>1. txFile \in sent
      BY <1>1 DEF Inv, SentOK
    <2>. QED
      BY <1>1, <1>3, <1>4, <2>1, AppendSent DEF Inv
  <1>. QED
    BY <1>4, <1>5, <1>6, <1>7, <1>9, <1>10, RxStays DEF Inv

LEMMA TxStuffingKeeps ==
    ASSUME Inv, TxStuffing, UNCHANGED <<rxVars, interrupted, sent>>
    PROVE  Inv'
  <1>0. PICK n, p : n = Len(stream) /\ p = ConfigPacket(txFile, TRUE)
    OBVIOUS
  <1>1. /\ txPc = "stuffing" /\ txPc' = "symbols" /\ txRunning' = txRunning
        /\ txFile' = txFile /\ txEsi' = txEsi /\ outOfStep' = outOfStep
    BY DEF TxStuffing
  <1>2. txFile \in Files /\ p \in Packets
    <2>1. txFile \in Files
      BY <1>1 DEF Inv, TxOK
    <2>. QED
      BY <1>0, <2>1, PacketKinds
  <1>3. /\ stream \in Seq(Packets) /\ n \in Nat \ {0} /\ n = Len(stream)
        /\ stream[n] = ConfigPacket(txFile, FALSE)
    <2>1. stream \in Seq(Packets) /\ stream # << >>
      BY <1>1 DEF Inv, TornOK, StreamOK
    <2>2. stream[n] = ConfigPacket(txFile, FALSE)
      BY <1>0, <1>1 DEF Inv, TornOK
    <2>. QED
      BY <1>0, <2>1, <2>2
  <1>4. [stream[n] EXCEPT !.whole = TRUE] = p
    <2>1. [ConfigPacket(txFile, FALSE) EXCEPT !.whole = TRUE] = p
      BY <1>0, Completed
    <2>. QED
      BY <1>3, <2>1
  <1>5. stream' = [stream EXCEPT ![n] = p]
    BY <1>0, <1>4 DEF TxStuffing
  <1>6. /\ stream' \in Seq(Packets) /\ Len(stream') = n /\ stream' # << >>
        /\ stream'[n] = p /\ \A i \in 1 .. n - 1 : stream'[i] = stream[i]
    <2>1. n \in 1 .. Len(stream) /\ n = Len(stream)
      BY <1>0, <1>3
    <2>2. /\ stream' \in Seq(Packets) /\ Len(stream') = n /\ stream'[n] = p
          /\ \A i \in 1 .. n - 1 : stream'[i] = stream[i]
      BY <1>2, <1>3, <1>5, <2>1, Replaced
    <2>3. stream' # << >>
      BY <1>3, <2>2
    <2>. QED
      BY <2>2, <2>3
  <1>7. StreamOK'
    BY <1>1, <1>3, <1>6 DEF Inv, StreamOK
  <1>8. TxOK'
    BY <1>1 DEF Inv, TxOK
  <1>9. p.type = "config" /\ p.file = txFile /\ ~IsTorn(p)
        /\ stream[n].type = "config" /\ stream[n].file = txFile
    BY <1>0, <1>3 DEF ConfigPacket, IsTorn
  <1>10. TornOK'
    <2>1. outOfStep' => "kill" \in interrupted'
      BY <1>1 DEF Inv, TornOK, OnlyKillsTear
    <2>2. ASSUME NEW i \in 1 .. Len(stream'), IsTorn(stream'[i])
          PROVE  "kill" \in interrupted'
      <3>1. i \in 1 .. n /\ i # n
        BY <1>6, <1>9, <2>2
      <3>2. IsTorn(stream[i])
        BY <1>3, <1>6, <2>2, <3>1
      <3>. QED
        BY <1>3, <3>1, <3>2 DEF Inv, TornOK, OnlyKillsTear
    <2>. QED
      BY <1>1, <2>1, <2>2 DEF TornOK, OnlyKillsTear
  <1>11. ChainOK'
    <2>1. ASSUME NEW i \in 1 .. Len(stream') - 1, stream'[i + 1].type = "payload"
          PROVE  stream'[i + 1].file = stream'[i].file
      <3>1. i \in 1 .. n - 1 /\ i + 1 \in 1 .. n
        BY <1>3, <1>6, <2>1
      <3>2. i + 1 # n
        <4>1. SUFFICES ASSUME i + 1 = n
                       PROVE  FALSE
          OBVIOUS
        <4>2. stream'[i + 1] = p
          BY <1>6, <4>1
        <4>. QED
          BY <1>9, <2>1, <4>2
      <3>3. stream'[i] = stream[i] /\ stream'[i + 1] = stream[i + 1]
        BY <1>3, <1>6, <3>1, <3>2
      <3>. QED
        BY <1>3, <2>1, <3>1, <3>3 DEF Inv, ChainOK
    <2>. QED
      BY <1>1, <1>6, <1>9, <2>1 DEF ChainOK
  <1>12. ASSUME NEW f \in Files, NextIsOf(f)
         PROVE  NextIsOf(f)'
    <2>1. Head(stream') = stream'[1] /\ Head(stream) = stream[1] /\ stream # << >>
      BY <1>3, <1>6
    <2>2. CASE n = 1
      BY <1>6, <1>9, <2>1, <2>2 DEF NextIsOf
    <2>3. CASE n # 1
      <3>1. stream'[1] = stream[1]
        BY <1>3, <1>6, <2>3
      <3>. QED
        BY <1>6, <1>12, <2>1, <3>1 DEF NextIsOf
    <2>. QED
      BY <2>2, <2>3
  <1>13. OfOneFile'
    BY <1>1, <1>12, FileStays
  <1>14. SentOK'
    <2>1. txFile \in sent
      BY <1>1 DEF Inv, SentOK
    <2>2. ASSUME NEW i \in 1 .. Len(stream')
          PROVE  stream'[i].file \in sent
      <3>1. CASE i = n
        BY <1>6, <1>9, <2>1, <3>1
      <3>2. CASE i # n
        <4>1. i \in 1 .. n - 1 /\ i \in 1 .. Len(stream)
          BY <1>3, <1>6, <3>2
        <4>. QED
          BY <1>6, <4>1 DEF Inv, SentOK
      <3>. QED
        BY <3>1, <3>2
    <2>. QED
      BY <1>1, <2>1, <2>2 DEF Inv, SentOK
  <1>. QED
    BY <1>7, <1>8, <1>10, <1>11, <1>13, <1>14, RxStays DEF Inv

LEMMA TxSymbolKeeps ==
    ASSUME Inv, TxSymbol, UNCHANGED <<rxVars, interrupted, sent>>
    PROVE  Inv'
  <1>. DEFINE e == txEsi[txSbn]
  <1>. DEFINE p == PayloadPacket(txFile, txSbn, e)
  <1>1. /\ txPc = "symbols" /\ txPc' = txPc /\ txRunning /\ txFile' = txFile
        /\ txSbn \in SbnOf(txFile.oti) /\ txEsi' = [txEsi EXCEPT ![txSbn] = e + 1]
        /\ txRunning' = ~(e + 1 > MaxEsi)
    BY DEF TxSymbol, UsedUp
  <1>2. /\ txFile \in Files /\ txFile # NoTxFile
        /\ txEsi \in [SbnOf(txFile.oti) -> 0 .. MaxEsi + 1]
        /\ \A b \in SbnOf(txFile.oti) : txEsi[b] <= MaxEsi
        /\ MaxEsi \in Nat
    BY <1>1, SymbolsAssumption DEF Inv, TxOK
  <1>3. e \in Esis
    BY <1>1, <1>2 DEF Esis
  <1>4. p \in Packets
    BY <1>1, <1>2, <1>3 DEF Packets
  <1>5. p.type = "payload" /\ p.file = txFile /\ ~IsTorn(p)
    BY DEF PayloadPacket, IsTorn
  <1>6. /\ StreamOK' /\ outOfStep' = outOfStep
        /\ Len(stream) \in Nat /\ Len(stream') = Len(stream) + 1
        /\ stream'[Len(stream) + 1] = p
        /\ \A i \in 1 .. Len(stream) : stream'[i] = stream[i]
        /\ stream # << >> => Head(stream') = Head(stream)
        /\ stream = << >> => Head(stream') = p
    BY <1>4, AppendShape DEF Inv, TxSymbol
  <1>7. TxOK'
    <2>1. e + 1 \in 0 .. MaxEsi + 1
      BY <1>1, <1>2
    <2>2. txEsi' \in [SbnOf(txFile.oti) -> 0 .. MaxEsi + 1]
      BY <1>1, <1>2, <2>1
    <2>3. ASSUME txRunning', NEW b \in SbnOf(txFile.oti)
          PROVE  txEsi'[b] <= MaxEsi
      <3>1. e + 1 <= MaxEsi
        <4>1. ~(e + 1 > MaxEsi)
          BY <1>1, <2>3
        <4>. QED
          BY <1>2, <2>1, <4>1
      <3>2. txEsi'[b] = IF b = txSbn THEN e + 1 ELSE txEsi[b]
        BY <1>1, <1>2
      <3>. QED
        BY <1>2, <3>1, <3>2
    <2>. QED
      BY <1>1, <1>2, <2>2, <2>3 DEF TxOK
  <1>8. TornOK'
    <2>1. outOfStep' => "kill" \in interrupted'
      BY <1>6 DEF Inv, TornOK, OnlyKillsTear
    <2>2. ASSUME NEW i \in 1 .. Len(stream'), IsTorn(stream'[i])
          PROVE  "kill" \in interrupted'
      <3>1. i \in 1 .. Len(stream) /\ IsTorn(stream[i])
        BY <1>5, <1>6, <2>2
      <3>. QED
        BY <1>1, <3>1 DEF Inv, TornOK, OnlyKillsTear
    <2>. QED
      BY <1>1, <2>1, <2>2 DEF TornOK, OnlyKillsTear
  <1>9. ChainOK'
    <2>1. ASSUME NEW i \in 1 .. Len(stream') - 1, stream'[i + 1].type = "payload"
          PROVE  stream'[i + 1].file = stream'[i].file
      <3>1. stream'[i] = stream[i] /\ i \in 1 .. Len(stream)
        BY <1>6
      <3>2. CASE i = Len(stream)
        <4>1. stream # << >> /\ stream[i].file = txFile
          BY <1>1, <3>1, <3>2 DEF Inv, ChainOK
        <4>2. stream'[i + 1] = p
          BY <1>6, <3>2
        <4>. QED
          BY <1>5, <3>1, <4>1, <4>2
      <3>3. CASE i # Len(stream)
        <4>1. i \in 1 .. Len(stream) - 1 /\ stream'[i + 1] = stream[i + 1]
          BY <1>6, <3>1, <3>3
        <4>. QED
          BY <2>1, <3>1, <4>1 DEF Inv, ChainOK
      <3>. QED
        BY <3>2, <3>3
    <2>. QED
      BY <1>1, <1>5, <1>6, <2>1 DEF ChainOK
  <1>10. ASSUME NEW f \in Files, NextIsOf(f)
         PROVE  NextIsOf(f)'
    <2>1. stream' # << >>
      BY <1>6 DEF StreamOK
    <2>. QED
      BY <1>1, <1>5, <1>6, <1>10, <2>1 DEF NextIsOf
  <1>11. OfOneFile'
    BY <1>6, <1>10, FileStays
  <1>12. SentOK'
    <2>1. txFile \in sent
      BY <1>1 DEF Inv, SentOK
    <2>. QED
      BY <1>1, <1>5, <1>6, <2>1, AppendSent DEF Inv
  <1>. QED
    BY <1>6, <1>7, <1>8, <1>9, <1>11, <1>12, RxStays DEF Inv

LEMMA TxRoundKeeps ==
    ASSUME Inv, TxRound, UNCHANGED <<rxVars, interrupted, sent>>
    PROVE  Inv'
  <1>1. /\ txPc = "symbols" /\ txPc' = "round" /\ txRunning' = txRunning
        /\ txFile' = txFile /\ txEsi' = txEsi
        /\ stream' = stream /\ outOfStep' = outOfStep
    BY DEF TxRound, streamVars
  <1>2. StreamOK'
    BY <1>1 DEF Inv, StreamOK
  <1>3. TxOK'
    BY <1>1 DEF Inv, TxOK
  <1>4. TornOK' /\ ChainOK'
    BY <1>1 DEF Inv, TornOK, ChainOK, OnlyKillsTear
  <1>5. SentOK'
    BY <1>1 DEF Inv, SentOK
  <1>6. OfOneFile'
    BY <1>1, FileStays DEF NextIsOf
  <1>. QED
    BY <1>2, <1>3, <1>4, <1>5, <1>6, RxStays DEF Inv

\* A frame that is lost on the air.
LEMMA LoseKeeps ==
    ASSUME Inv, LoseFrame, UNCHANGED <<txVars, interrupted, sent>>
    PROVE  Inv'
  <1>1. /\ Take /\ outcome' = outcome /\ rx' = rx
        /\ lost' = (lost \/ LosesConfig(Head(stream)))
        /\ UNCHANGED <<txPc, txFile>> /\ interrupted' = interrupted
    BY DEF LoseFrame, txVars
  <1>2. StreamOK' /\ TornOK' /\ ChainOK'
    BY <1>1, TakeShape, TakeKeeps DEF Inv
  <1>3. TxOK'
    BY TxStays
  <1>4. RxOK'
    BY <1>1 DEF Inv, RxOK, Configured, FileReceived
  <1>5. OfOneFile'
    <2>1. SUFFICES ASSUME Configured, ~lost', outcome \in {"on", "received"}, OtiTells(sent)
                   PROVE  \E f \in sent : /\ f.oti = rx.oti
                                          /\ HoldsOnly(rx, f.content)
                                          /\ outcome = "on" => NextIsOf(f)'
      BY <1>1 DEF OfOneFile, Configured, HoldsOnly, OtiTells
    <2>2. ~lost /\ ~outOfStep /\ Head(stream).type # "config"
      BY <1>1, <2>1 DEF LosesConfig
    <2>3. PICK f \in sent : /\ f.oti = rx.oti /\ HoldsOnly(rx, f.content)
                            /\ outcome = "on" => NextIsOf(f)
      BY <2>1, <2>2 DEF Inv, OfOneFile
    <2>4. stream # << >> /\ Head(stream).type = "payload"
      <3>1. Head(stream) \in Packets
        BY <1>1, TakeShape DEF Inv
      <3>. QED
        BY <1>1, <2>2, <3>1, PacketFields DEF Take, Readable
    <2>5. ASSUME outcome = "on"
          PROVE  NextIsOf(f)'
      <3>1. Head(stream).file = f
        BY <2>3, <2>4, <2>5 DEF NextIsOf
      <3>. QED
        BY <1>1, <3>1, TakeNext DEF Inv
    <2>. QED
      BY <2>3, <2>5
  <1>6. SentOK'
    BY <1>1, TakeSent DEF Inv
  <1>. QED
    BY <1>2, <1>3, <1>4, <1>5, <1>6 DEF Inv

\* What all steps of the receiver have in common.
LEMMA ReceiverTakes ==
    ASSUME Inv, Take, UNCHANGED <<txVars, interrupted, sent>>
    PROVE  /\ StreamOK' /\ TxOK' /\ TornOK' /\ ChainOK' /\ SentOK'
           /\ UNCHANGED <<txPc, txFile>>
           /\ stream # << >> /\ Head(stream) \in Packets /\ Head(stream).file \in sent
  <1>1. UNCHANGED <<txPc, txFile>> /\ interrupted' = interrupted
    BY DEF txVars
  <1>2. stream # << >> /\ Head(stream) \in Packets
    BY TakeShape DEF Inv, Take, Readable
  <1>. QED
    BY <1>1, <1>2, TakeShape, TakeKeeps, TakeSent, TxStays DEF Inv

LEMMA RxDropKeeps ==
    ASSUME Inv, RxDrop, UNCHANGED <<txVars, interrupted, sent>>
    PROVE  Inv'
  <1>1. /\ Take /\ Dropped(Taken) /\ outcome' = outcome /\ rx' = rx
        /\ lost' = (lost \/ outOfStep)
    BY DEF RxDrop
  <1>2. /\ StreamOK' /\ TxOK' /\ TornOK' /\ ChainOK' /\ SentOK'
        /\ UNCHANGED <<txPc, txFile>>
        /\ stream # << >> /\ Head(stream) \in Packets /\ Head(stream).file \in sent
    BY <1>1, ReceiverTakes
  <1>3. RxOK'
    BY <1>1 DEF Inv, RxOK, Configured, FileReceived
  <1>4. OfOneFile'
    <2>1. SUFFICES ASSUME Configured, ~lost', outcome \in {"on", "received"}, OtiTells(sent)
                   PROVE  \E f \in sent : /\ f.oti = rx.oti
                                          /\ HoldsOnly(rx, f.content)
                                          /\ NextIsOf(f)'
      BY <1>1 DEF OfOneFile, Configured, HoldsOnly, OtiTells
    <2>2. ~lost /\ ~outOfStep /\ Taken = Head(stream)
      BY <1>1, <2>1 DEF Taken
    <2>3. PICK f \in sent : f.oti = rx.oti /\ HoldsOnly(rx, f.content)
      BY <2>1, <2>2 DEF Inv, OfOneFile
    <2>4. Head(stream).file.oti = rx.oti
      <3>1. Head(stream).type \in {"config", "payload"}
        BY <1>2, PacketFields
      <3>. QED
        BY <1>1, <2>1, <2>2, <3>1 DEF Dropped, OtherFile
    <2>5. Head(stream).file = f
      BY <1>2, <2>1, <2>3, <2>4 DEF OtiTells
    <2>6. NextIsOf(f)'
      BY <1>1, <1>2, <2>5, TakeNext DEF Inv
    <2>. QED
      BY <2>3, <2>6
  <1>. QED
    BY <1>2, <1>3, <1>4 DEF Inv

LEMMA RxConfigKeeps ==
    ASSUME Inv, RxConfig, UNCHANGED <<txVars, interrupted, sent>>
    PROVE  Inv'
  <1>1. Take /\ Taken.type = "config" /\ outcome = "on" /\ outcome' = "on"
    BY DEF RxConfig
  <1>2. /\ StreamOK' /\ TxOK' /\ TornOK' /\ ChainOK' /\ SentOK'
        /\ UNCHANGED <<txPc, txFile>>
        /\ stream # << >> /\ Head(stream) \in Packets /\ Head(stream).file \in sent
    BY <1>1, ReceiverTakes
  <1>3. Taken = Head(stream)
    BY <1>1 DEF Taken, BadFrame
  <1>4. PICK f \in Files : f = Head(stream).file /\ f \in sent
    BY <1>2, PacketFields
  <1>5. SessionOK(rx') /\ rx'.oti = f.oti /\ HoldsOnly(rx', f.content)
    BY <1>3, <1>4, ConfigOK DEF Inv
  <1>6. RxOK'
    <2>1. rx'.oti \in Otis
      BY <1>5, FileFields
    <2>. QED
      BY <1>1, <1>5, <2>1 DEF RxOK
  <1>7. NextIsOf(f)'
    BY <1>1, <1>2, <1>4, TakeNext DEF Inv
  <1>8. OfOneFile'
    <2>1. HoldsOnly(rx', f.content) = HoldsOnly(rx, f.content)'
      BY DEF HoldsOnly
    <2>. QED
      BY <1>4, <1>5, <1>7, <2>1 DEF OfOneFile
  <1>. QED
    BY <1>2, <1>6, <1>8 DEF Inv

LEMMA RxOtherFileKeeps ==
    ASSUME Inv, RxOtherFile, UNCHANGED <<txVars, interrupted, sent>>
    PROVE  Inv'
  <1>1. Take /\ outcome' = "todo" /\ rx' = rx
    BY DEF RxOtherFile
  <1>2. StreamOK' /\ TxOK' /\ TornOK' /\ ChainOK' /\ SentOK'
    BY <1>1, ReceiverTakes
  <1>3. RxOK'
    BY <1>1 DEF Inv, RxOK, Configured
  <1>4. OfOneFile'
    BY <1>1 DEF OfOneFile
  <1>. QED
    BY <1>2, <1>3, <1>4 DEF Inv

LEMMA RxPayloadKeeps ==
    ASSUME Inv, RxPayload, UNCHANGED <<txVars, interrupted, sent>>
    PROVE  Inv'
  <1>1. /\ Take /\ Configured /\ Taken.type = "payload" /\ lost' = lost
        /\ rx' \in AfterPayload(Taken.sbn, Taken.esi, Taken.file.content)
        /\ outcome = "on"
        /\ outcome' = IF FileReceived(rx') THEN "received" ELSE "on"
    BY DEF RxPayload
  <1>2. /\ StreamOK' /\ TxOK' /\ TornOK' /\ ChainOK' /\ SentOK'
        /\ UNCHANGED <<txPc, txFile>>
        /\ stream # << >> /\ Head(stream) \in Packets /\ Head(stream).file \in sent
    BY <1>1, ReceiverTakes
  <1>3. Taken = Head(stream) /\ ~outOfStep
    BY <1>1 DEF Taken, BadFrame
  <1>4. PICK p \in Packets : p = Head(stream)
    BY <1>2
  <1>5. p.type = "payload" /\ p.file \in Files /\ p.esi \in Esis /\ p.file.content \in Contents
    BY <1>1, <1>3, <1>4, PacketFields, FileFields
  <1>6. /\ SessionOK(rx') /\ rx'.oti = rx.oti
        /\ HoldsOnly(rx, p.file.content) => HoldsOnly(rx', p.file.content)
    BY <1>1, <1>3, <1>4, <1>5, PayloadOK DEF Inv
  <1>7. RxOK'
    <2>1. Configured' /\ rx'.oti \in Otis \union {NoOti}
      BY <1>1, <1>6 DEF Configured, Inv, RxOK
    <2>2. outcome' \in {"on", "received"} /\ (outcome' = "received" => FileReceived(rx'))
      BY <1>1
    <2>. QED
      BY <1>6, <2>1, <2>2 DEF RxOK, FileReceived
  <1>8. OfOneFile'
    <2>1. SUFFICES ASSUME ~lost, OtiTells(sent)
                   PROVE  \E f \in sent : /\ f.oti = rx'.oti
                                          /\ HoldsOnly(rx', f.content)
                                          /\ NextIsOf(f)'
      BY <1>1 DEF OfOneFile, HoldsOnly, OtiTells
    <2>2. PICK f \in sent : /\ f.oti = rx.oti /\ HoldsOnly(rx, f.content)
                            /\ NextIsOf(f)
      BY <1>1, <1>3, <2>1 DEF Inv, OfOneFile
    <2>3. Head(stream).file = f
      BY <1>2, <1>4, <1>5, <2>2 DEF NextIsOf
    <2>4. NextIsOf(f)'
      BY <1>1, <1>2, <2>3, TakeNext DEF Inv
    <2>. QED
      BY <1>4, <1>6, <2>2, <2>3, <2>4
  <1>. QED
    BY <1>2, <1>7, <1>8 DEF Inv

LEMMA RxSignalKeeps ==
    ASSUME Inv, RxSignal, UNCHANGED <<txVars, sent>>,
           "kill" \in interrupted => "kill" \in interrupted'
    PROVE  Inv'
  <1>1. /\ stream' = stream /\ outOfStep' = outOfStep /\ outcome' = "stopped" /\ rx' = rx
        /\ txPc' = txPc /\ txFile' = txFile
    BY DEF RxSignal, streamVars, txVars
  <1>2. StreamOK'
    BY <1>1 DEF Inv, StreamOK
  <1>3. TornOK' /\ ChainOK'
    BY <1>1 DEF Inv, TornOK, ChainOK, OnlyKillsTear
  <1>4. RxOK'
    BY <1>1 DEF Inv, RxOK, Configured
  <1>5. OfOneFile'
    BY <1>1 DEF OfOneFile
  <1>6. SentOK'
    BY <1>1 DEF Inv, SentOK
  <1>. QED
    BY <1>2, <1>3, <1>4, <1>5, <1>6, TxStays DEF Inv

LEMMA InvInit == Init => Inv
  <1>. SUFFICES ASSUME Init
                PROVE  Inv
    OBVIOUS
  <1>1. stream = << >> /\ outOfStep = FALSE /\ outcome = "on" /\ rx.oti = NoOti
    BY DEF Init, StreamInit, RxInit
  <1>2. txRunning = FALSE /\ txPc = "off" /\ txFile = NoTxFile
    BY DEF Init, TxInit
  <1>3. StreamOK
    <2>1. Capacity \in Nat /\ outOfStep \in BOOLEAN
      BY <1>1, FilesAssumption
    <2>2. Len(stream) = 0 /\ stream \in Seq(Packets)
      BY <1>1
    <2>3. Len(stream) <= Capacity
      BY <2>1, <2>2
    <2>. QED
      BY <2>1, <2>2, <2>3 DEF StreamOK
  <1>4. TxOK /\ RxOK
    BY <1>1, <1>2 DEF TxOK, RxOK, Configured
  <1>5. TornOK /\ ChainOK /\ OfOneFile /\ SentOK
    <2>1. sent = {} /\ Len(stream) = 0
      BY <1>1 DEF Init
    <2>. QED
      BY <1>1, <1>2, <2>1 DEF SentOK, TornOK, ChainOK, OfOneFile, OnlyKillsTear, Configured
  <1>. QED
    BY <1>3, <1>4, <1>5 DEF Inv

LEMMA InvNext == Inv /\ [Next]_vars => Inv'
  <1>. SUFFICES ASSUME Inv, [Next]_vars
                PROVE  Inv'
    OBVIOUS
  <1>1. CASE Start
    BY <1>1, StartKeeps
  <1>2. CASE Lose
    BY <1>2, LoseKeeps DEF Lose
  <1>3. CASE People
    <2>1. CASE TxSignal /\ Interrupt("signal") /\ UNCHANGED rxVars
      BY <2>1, SignalKeeps DEF Interrupt
    <2>2. CASE TxKill /\ Interrupt("kill") /\ UNCHANGED rxVars
      BY <2>2, EndKeeps DEF Interrupt, TxKill
    <2>3. CASE RxSignal /\ Interrupt("signal") /\ UNCHANGED txVars
      BY <2>3, RxSignalKeeps DEF Interrupt
    <2>. QED
      BY <1>3, <2>1, <2>2, <2>3 DEF People
  <1>4. CASE Transmitting
    <2>1. UNCHANGED <<rxVars, interrupted, sent>>
      BY <1>4 DEF Transmitting, Go
    <2>2. CASE TxLeave
      <3>1. TxEnd /\ UNCHANGED streamVars /\ txPc # "stuffing"
        BY <2>2 DEF TxLeave
      <3>. QED
        BY <2>1, <3>1, EndKeeps
    <2>. QED
      BY <1>4, <2>1, <2>2, TxConfigKeeps, TxStuffingKeeps, TxSymbolKeeps, TxRoundKeeps
         DEF Transmitting, Transmit
  <1>5. CASE Receiving
    <2>1. UNCHANGED <<txVars, interrupted, sent>>
      BY <1>5 DEF Receiving, Go
    <2>. QED
      BY <1>5, <2>1, RxDropKeeps, RxConfigKeeps, RxOtherFileKeeps, RxPayloadKeeps
         DEF Receiving, Receive
  <1>6. CASE UNCHANGED vars
    <2>1. UNCHANGED <<txVars, rxVars, interrupted, sent, stream, outOfStep>>
      BY <1>6 DEF vars, streamVars
    <2>2. StreamOK'
      BY <2>1 DEF Inv, StreamOK
    <2>3. TornOK' /\ ChainOK'
      BY <2>1 DEF Inv, TornOK, ChainOK, OnlyKillsTear, txVars
    <2>4. OfOneFile'
      BY <2>1, FileStays DEF NextIsOf, txVars
    <2>5. SentOK'
      BY <2>1 DEF Inv, SentOK, txVars
    <2>. QED
      BY <2>1, <2>2, <2>3, <2>4, <2>5, TxStays, RxStays DEF Inv
  <1>. QED
    BY <1>1, <1>2, <1>3, <1>4, <1>5, <1>6 DEF Next

LEMMA Invariance == Spec => []Inv
  BY InvInit, InvNext, PTL DEF Spec

-----------------------------------------------------------------------------
(***************************************************************************)
(* The theorems.                                                           *)
(***************************************************************************)

\* No more symbols of a block are counted than there are.
LEMMA CountIsBounded ==
    ASSUME NEW o \in Otis, NEW s \in Session(o), NEW taken, BlocksOK(o, s, taken)
    PROVE  s.seen \in [SbnOf(o) -> 0 .. MaxEsi + 1]
  <1>1. s.seen \in [SbnOf(o) -> Nat]
    BY DEF Session
  <1>2. ASSUME NEW b \in SbnOf(o)
        PROVE  s.seen[b] \in 0 .. MaxEsi + 1
    <2>1. taken[b] \in SUBSET Esis /\ s.seen[b] = Cardinality(taken[b])
      BY DEF BlocksOK, BlockOK
    <2>2. IsFiniteSet(Esis) /\ Cardinality(Esis) = MaxEsi + 1 /\ MaxEsi \in Nat
      <3>1. MaxEsi \in Nat /\ 0 \in Int /\ MaxEsi \in Int /\ ~(0 > MaxEsi)
        BY SymbolsAssumption
      <3>2. IsFiniteSet(0 .. MaxEsi) /\ Cardinality(0 .. MaxEsi) = MaxEsi - 0 + 1
        BY <3>1, FS_Interval
      <3>. QED
        BY <3>1, <3>2 DEF Esis
    <2>3. Cardinality(taken[b]) <= Cardinality(Esis) /\ Cardinality(taken[b]) \in Nat
      BY <2>1, <2>2, FS_Subset, FiniteEsis
    <2>. QED
      BY <2>1, <2>2, <2>3
  <1>. QED
    BY <1>1, <1>2

\* In the stream there are only packets of the files, a running transmitter stays
\* within the ESIs, and a receiver with a configuration has just the blocks of
\* its object.
THEOREM TypeCorrect == Spec => []TypeOK
  <1>1. Inv => TypeOK
    <2>. SUFFICES ASSUME Inv
                  PROVE  TypeOK
      OBVIOUS
    <2>1. Len(stream) <= Capacity /\ outOfStep \in BOOLEAN
      BY DEF Inv, StreamOK
    <2>2. ASSUME NEW i \in 1 .. Len(stream), NEW p, p = stream[i]
          PROVE  \/ p.type = "config" /\ p.file \in Files
                 \/ /\ p.type = "payload" /\ p.file \in Files
                    /\ p.sbn \in SbnOf(p.file.oti) /\ p.esi \in Esis
      <3>1. p \in Packets
        BY <2>2 DEF Inv, StreamOK
      <3>. QED
        BY <3>1, PacketFields
    <2>3. ASSUME Configured
          PROVE  /\ rx.blocks \in [SbnOf(rx.oti) -> [Esis -> Cells]]
                 /\ rx.seen \in [SbnOf(rx.oti) -> 0 .. MaxEsi + 1]
      <3>1. PICK o \in Otis : o = rx.oti
        BY <2>3 DEF Configured, Inv, RxOK
      <3>2. PICK taken : rx \in Session(o) /\ BlocksOK(o, rx, taken)
        BY <2>3, <3>1 DEF Inv, RxOK, SessionOK
      <3>3. rx.blocks \in [SbnOf(o) -> [Esis -> Cells]]
        BY <3>2 DEF Session
      <3>. QED
        BY <3>1, <3>2, <3>3, CountIsBounded
    <2>. QED
      BY <2>1, <2>2, <2>3 DEF TypeOK, Inv, TxOK, RxOK, SentOK
  <1>. QED
    BY <1>1, Invariance, PTL

\* A reader gets out of step only if a transmitter was killed, and a frame that is
\* torn for good is the work of one, too: what a running transmitter has left
\* half written nobody can read, for the ring lacks the bytes.
THEOREM TornByKillsOnly == Spec => []OnlyKillsTear
  <1>1. Inv => OnlyKillsTear
    BY DEF Inv, TornOK
  <1>. QED
    BY <1>1, Invariance, PTL

\* No block of the receiver ever has all its source symbols without being marked
\* as decoded, nor is one marked that lacks a symbol: none gets stuck.
THEOREM NoBlockSticks == Spec => []NoBlockIsStuck
  <1>1. Inv => NoBlockIsStuck
    BY DEF Inv, RxOK, SessionOK, BlocksOK, BlockOK, NoBlockIsStuck
  <1>. QED
    BY <1>1, Invariance, PTL

\* If no configuration packet was lost and no two of the files that were sent
\* have the same OTI, a file that is received is one that was sent, and whole:
\* the configuration packet at the head of each round keeps the symbols of
\* different files apart, although they do not say which file they are of.
\* Files of one OTI may exist; only that the transmitter was started with both
\* is excluded, by a premise of the property itself.
THEOREM WholeFiles == Spec => []WholeUnlessConfigLost
  <1>1. Inv => WholeUnlessConfigLost
    <2>1. SUFFICES ASSUME Inv, outcome = "received", ~lost, OtiTells(sent)
                   PROVE  \E f \in sent : /\ f.oti = rx.oti
                                          /\ HoldsWhole(rx.oti, rx.file, f.content)
      BY DEF WholeUnlessConfigLost, ReceivedOneOf
    <2>2. Configured /\ FileReceived(rx) /\ SessionOK(rx)
      BY <2>1 DEF Inv, RxOK
    <2>3. PICK f \in sent : f.oti = rx.oti /\ HoldsOnly(rx, f.content)
      BY <2>1, <2>2 DEF Inv, OfOneFile
    <2>4. PICK taken : BlocksOK(rx.oti, rx, taken)
      BY <2>2 DEF SessionOK
    <2>5. HoldsWhole(rx.oti, rx.file, f.content)
      BY <2>2, <2>3, <2>4, CompleteHoldsWhole DEF FileReceived
    <2>. QED
      BY <2>3, <2>5
  <1>. QED
    BY <1>1, Invariance, PTL
=============================================================================
