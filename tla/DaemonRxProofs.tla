--------------------------- MODULE DaemonRxProofs ---------------------------
(***************************************************************************)
(* Theorems about DaemonRx, for any objects, any frames on the air and any *)
(* number of symbols, under SymbolsAssumption, MarksAssumption and         *)
(* FramesAssumption.                                                       *)
(***************************************************************************)
EXTENDS DaemonRx, DecoderProofs

(***************************************************************************)
(* The inductive invariant.                                                *)
(***************************************************************************)

\* The sessions of object o
Session(o) ==
    [active : {TRUE}, completed : {FALSE}, last : Otis \union {NoOti}, oti : {o},
     blocks : [SbnOf(o) -> [Esis -> Cells]], file : Outputs(o),
     seen : [SbnOf(o) -> Nat], decoded : [SbnOf(o) -> BOOLEAN]]

SessionOK(s, taken) ==
    /\ s.oti \in Otis
    /\ s \in Session(s.oti)
    /\ BlocksOK(s.oti, s, taken)

\* A session that is complete is never kept.
Inv ==
    /\ running \in BOOLEAN
    /\ rx.active \in BOOLEAN /\ rx.completed \in BOOLEAN
    /\ rx.last \in Otis \union {NoOti}
    /\ ~rx.active => /\ rx = NoSession(rx.completed, rx.last)
                     /\ accepted = [b \in {} |-> {}]
    /\ rx.active => SessionOK(rx, accepted) /\ ~IsComplete(rx)

-----------------------------------------------------------------------------
(***************************************************************************)
(* What a symbol, and an attempt, do to the session.                       *)
(***************************************************************************)

LEMMA SessionDecodes ==
    ASSUME NEW o, NEW s \in Session(o)
    PROVE  Decodes(o, s)
  BY DEF Session, Decodes

\* A symbol that was added, counted
Counted(s, b, e, c, w) == [AddSymbol(s, b, e, c, w) EXCEPT !.seen[b] = @ + 1]

LEMMA Added ==
    ASSUME NEW o \in Otis, NEW s \in Session(o), NEW b \in SbnOf(o), NEW e \in Esis,
           NEW c \in Contents, NEW w \in Written(c),
           NEW u, u = Counted(s, b, e, c, w)
    PROVE  u \in Session(o) /\ u.last = s.last /\ IsCounted(o, s, b, e, c, w, u)
  <1>. DEFINE f == IF e \in SourceEsis(o, b) THEN [s.file[b] EXCEPT ![e] = w] ELSE s.file[b]
  <1>1. s.oti = o
    BY DEF Session
  <1>2. u = [s EXCEPT !.blocks = [s.blocks EXCEPT ![b] = [s.blocks[b] EXCEPT ![e] = c]],
                      !.file = [s.file EXCEPT ![b] = f],
                      !.seen = [s.seen EXCEPT ![b] = s.seen[b] + 1]]
    BY <1>1 DEF Counted, AddSymbol, Session
  <1>3. IsCounted(o, s, b, e, c, w, u) /\ u.last = s.last
    BY <1>1, <1>2 DEF Session, IsCounted
  <1>4. Decodes(o, u)
    BY <1>3, SessionDecodes, CountedDecodes
  <1>. QED
    BY <1>2, <1>3, <1>4 DEF Session, Decodes

\* A block that was solved: its gaps are filled, and it is marked.
Marked(s, b, w) == [Repaired(s, b, w) EXCEPT !.decoded[b] = @ \/ TRUE]

LEMMA Solved ==
    ASSUME NEW o \in Otis, NEW s \in Session(o), NEW b \in SbnOf(o), Mask(s, b) # {},
           NEW w \in Written(Rebuilt(s, b)),
           NEW t, t = Marked(s, b, w)
    PROVE  t \in Session(o) /\ t.last = s.last /\ IsSolved(o, s, b, w, t)
  <1>. DEFINE f == [e \in SourceEsis(o, b) |-> IF e \in Gaps(s, b) THEN w ELSE s.file[b][e]]
  <1>1. s.oti = o
    BY DEF Session
  <1>2. t = [s EXCEPT !.blocks = [s.blocks EXCEPT ![b] = SetRebuilt(s, b)],
                      !.file = [s.file EXCEPT ![b] = f],
                      !.decoded = [s.decoded EXCEPT ![b] = TRUE]]
    BY <1>1 DEF Marked, Repaired, Session
  <1>3. IsSolved(o, s, b, w, t) /\ t.last = s.last
    BY <1>1, <1>2 DEF Session, IsSolved
  <1>4. Decodes(o, t)
    BY <1>3, SessionDecodes, SolvedDecodes
  <1>. QED
    BY <1>2, <1>3, <1>4 DEF Session, Decodes

\* What becomes of a session of which a symbol counts: the symbol is there, and if
\* there was an attempt that did not fail, the block is solved.
LEMMA SymbolShape ==
    ASSUME NEW o \in Otis, NEW s \in Session(o), NEW b, NEW e \in Esis,
           NEW c \in Contents, SymbolResult(s, b, e) = "ADDED",
           ~s.decoded[b], NEW t \in AfterSymbol(s, b, e, c)
    PROVE  /\ b \in SbnOf(o)
           /\ t \in Session(o) /\ t.last = s.last
           /\ \E w, u :
                 /\ w \in Written(c)
                 /\ IsCounted(o, s, b, e, c, w, u)
                 /\ \/ t = u /\ (~(u.seen[b] >= Symbols[o][b]) \/ Gaps(u, b) # {})
                    \/ /\ u.seen[b] >= Symbols[o][b]
                       /\ \E v \in Written(Rebuilt(u, b)) : IsSolved(o, u, b, v, t)
  <1>1. s.oti = o
    BY DEF Session
  <1>2. b \in SbnOf(o)
    BY <1>1 DEF SymbolResult
  <1>3. PICK w \in Written(c) : t \in Attempt(Counted(s, b, e, c, w), b)
    BY DEF AfterSymbol, Counted
  <1>4. PICK u : u = Counted(s, b, e, c, w)
    OBVIOUS
  <1>5. u \in Session(o) /\ u.last = s.last /\ IsCounted(o, s, b, e, c, w, u)
    BY <1>2, <1>3, <1>4, Added
  <1>6. u.oti = o /\ ~u.decoded[b]
    BY <1>5 DEF IsCounted
  <1>7. CASE ~ShouldRepair(u, b)
    <2>1. t = u
      BY <1>3, <1>4, <1>7 DEF Attempt
    <2>2. ~(u.seen[b] >= Symbols[o][b])
      BY <1>6, <1>7 DEF ShouldRepair
    <2>. QED
      BY <1>2, <1>3, <1>5, <2>1, <2>2
  <1>8. CASE ShouldRepair(u, b)
    <2>1. PICK r \in RepairBlock(u, b) : t = [r.session EXCEPT !.decoded[b] = @ \/ r.ok]
      BY <1>3, <1>4, <1>8 DEF Attempt
    <2>2. u.seen[b] >= Symbols[o][b]
      BY <1>6, <1>8 DEF ShouldRepair
    <2>3. CASE \E v \in Written(Rebuilt(u, b)) :
                   r = [ok |-> TRUE, session |-> Repaired(u, b, v)]
      <3>1. PICK v \in Written(Rebuilt(u, b)) :
                r = [ok |-> TRUE, session |-> Repaired(u, b, v)]
        BY <2>3
      <3>2. t = Marked(u, b, v)
        BY <2>1, <3>1 DEF Marked
      <3>3. Mask(u, b) # {}
        BY <1>2, <1>3, <1>5, SessionDecodes, CountedDecodes
      <3>4. t \in Session(o) /\ t.last = u.last /\ IsSolved(o, u, b, v, t)
        BY <1>2, <1>5, <3>1, <3>2, <3>3, Solved
      <3>. QED
        BY <1>2, <1>3, <1>5, <2>2, <3>1, <3>4
    <2>4. CASE FALSE \in RepairResults(u, b) /\ r = [ok |-> FALSE, session |-> u]
      <3>1. u.decoded = [u.decoded EXCEPT ![b] = u.decoded[b] \/ FALSE]
        BY <1>5 DEF Session
      <3>2. t = [u EXCEPT !.decoded = [u.decoded EXCEPT ![b] = u.decoded[b] \/ FALSE]]
        BY <2>1, <2>4
      <3>3. t = u
        BY <1>5, <3>1, <3>2 DEF Session
      <3>4. Gaps(u, b) # {}
        BY <2>4 DEF RepairResults
      <3>. QED
        BY <1>2, <1>3, <1>5, <3>3, <3>4
    <2>. QED
      BY <2>3, <2>4, RepairCases
  <1>. QED
    BY <1>7, <1>8

\* A block of which a symbol counts is open.
LEMMA OpenIsNotDecoded ==
    ASSUME NEW s, NEW taken, SessionOK(s, taken), NEW b, NEW e,
           SymbolResult(s, b, e) = "ADDED"
    PROVE  ~s.decoded[b]
  BY DEF SessionOK, BlocksOK, BlockOK, SymbolResult

\* A symbol that counts keeps the session what it should be, whether or not
\* there is an attempt after it, and whether or not it succeeds; all others
\* leave it alone.
LEMMA AfterSymbolOK ==
    ASSUME NEW s, NEW taken, SessionOK(s, taken),
           NEW b, NEW e \in Esis, NEW c \in Contents,
           NEW t \in AfterSymbol(s, b, e, c)
    PROVE  \/ SymbolResult(s, b, e) # "ADDED" /\ t = s
           \/ /\ SymbolResult(s, b, e) = "ADDED"
              /\ b \in SbnOf(s.oti)
              /\ t.oti = s.oti /\ t.last = s.last
              /\ SessionOK(t, [taken EXCEPT ![b] = @ \union {e}])
  <1>1. CASE SymbolResult(s, b, e) # "ADDED"
    BY <1>1 DEF AfterSymbol
  <1>2. CASE SymbolResult(s, b, e) = "ADDED"
    <2>1. PICK o \in Otis : o = s.oti /\ s \in Session(o) /\ BlocksOK(o, s, taken)
      BY DEF SessionOK
    <2>2. ~s.decoded[b]
      BY <1>2, OpenIsNotDecoded
    <2>3. b \in SbnOf(o) /\ t \in Session(o) /\ t.last = s.last
      BY <1>2, <2>1, <2>2, SymbolShape
    <2>4. PICK w, u :
              /\ w \in Written(c)
              /\ IsCounted(o, s, b, e, c, w, u)
              /\ \/ t = u /\ (~(u.seen[b] >= Symbols[o][b]) \/ Gaps(u, b) # {})
                 \/ /\ u.seen[b] >= Symbols[o][b]
                    /\ \E v \in Written(Rebuilt(u, b)) : IsSolved(o, u, b, v, t)
      BY <1>2, <2>1, <2>2, SymbolShape
    <2>5. PICK more : more = With(taken, b, e)
      OBVIOUS
    <2>6. /\ Decodes(o, u)
          /\ more \in [SbnOf(o) -> SUBSET Esis]
          /\ ~u.decoded[b] /\ Mask(u, b) = more[b] /\ more[b] # {}
          /\ u.seen[b] = Cardinality(more[b])
          /\ \A k \in SbnOf(o) \ {b} : BlockOK(u, more, k)
          /\ ~(u.seen[b] >= Symbols[o][b]) \/ Gaps(u, b) # {} => BlocksOK(o, u, more)
      <3>1. Decodes(o, s) /\ IsCounted(o, s, b, e, c, w, u)
        BY <2>1, <2>4, SessionDecodes
      <3>. QED
        BY <1>2, <2>1, <2>3, <2>4, <2>5, <3>1, CountedOK
    <2>7. BlocksOK(o, t, more)
      <3>1. CASE t = u /\ (~(u.seen[b] >= Symbols[o][b]) \/ Gaps(u, b) # {})
        BY <2>6, <3>1
      <3>2. CASE /\ u.seen[b] >= Symbols[o][b]
                 /\ \E v \in Written(Rebuilt(u, b)) : IsSolved(o, u, b, v, t)
        BY <2>3, <2>6, <3>2, SolvedOK
      <3>. QED
        BY <2>4, <3>1, <3>2
    <2>8. t.oti = o
      BY <2>3 DEF Session
    <2>. QED
      BY <1>2, <2>1, <2>3, <2>5, <2>7, <2>8 DEF SessionOK, With
  <1>. QED
    BY <1>1, <1>2

-----------------------------------------------------------------------------
(***************************************************************************)
(* The invariant holds in every state.                                     *)
(***************************************************************************)

LEMMA NewSessionOK ==
    ASSUME NEW o \in Otis, NEW last \in Otis \union {NoOti}
    PROVE  /\ SessionOK(NewSession(o, last), NoneAccepted(o))
           /\ NewSession(o, last).oti = o
           /\ ~IsComplete(NewSession(o, last))
  <1>1. PICK s : s = NewSession(o, last)
    OBVIOUS
  <1>2. /\ s.oti = o /\ s.blocks = NoBlocks(o) /\ s.file = NoPlaces(o)
        /\ s.seen = [b \in SbnOf(o) |-> 0] /\ s.decoded = [b \in SbnOf(o) |-> FALSE]
    BY <1>1 DEF NewSession
  <1>3. Decodes(o, s) /\ BlocksOK(o, s, NoneAccepted(o))
    BY <1>2, FreshOK DEF NoneAccepted
  <1>4. s \in Session(o)
    BY <1>1, <1>2, <1>3 DEF NewSession, Session, Decodes
  <1>5. ~IsComplete(s)
    BY <1>2, SymbolsAssumption DEF IsComplete
  <1>. QED
    BY <1>1, <1>2, <1>3, <1>4, <1>5 DEF SessionOK

\* The session of which a frame is taken in: the one there is, or a new one.
LEMMA BeforeSymbol ==
    ASSUME Inv, NEW f \in Frames
    PROVE  /\ SessionOK(SessionFor(f), AcceptedFor(f))
           /\ SessionFor(f).oti = f.oti
           /\ ~IsComplete(SessionFor(f))
           /\ AcceptedFor(f) = Delivery!Collected(f.oti)
  <1>1. f.oti \in Otis
    BY FramesAssumption DEF FrameSet
  <1>2. rx.oti = f.oti <=> ~NeedsSession(f)
    <2>1. CASE rx.active
      BY <2>1 DEF NeedsSession
    <2>2. CASE ~rx.active
      <3>1. rx.oti = NoOti
        BY <2>2 DEF Inv, NoSession
      <3>. QED
        BY <1>1, <2>2, <3>1, MarksAssumption DEF NeedsSession
    <2>. QED
      BY <2>1, <2>2
  <1>3. Delivery!Collected(f.oti) = AcceptedFor(f)
    BY <1>2 DEF Delivery!Collected, Delivery!NothingOf, AcceptedFor, NoneAccepted, SbnOf
  <1>4. CASE NeedsSession(f)
    <2>1. rx.last \in Otis \union {NoOti}
      BY DEF Inv
    <2>2. SessionFor(f) = NewSession(f.oti, rx.last) /\ AcceptedFor(f) = NoneAccepted(f.oti)
      BY <1>4 DEF SessionFor, AcceptedFor
    <2>. QED
      BY <1>1, <1>3, <2>1, <2>2, NewSessionOK
  <1>5. CASE ~NeedsSession(f)
    <2>1. rx.active /\ rx.oti = f.oti
      BY <1>5 DEF NeedsSession
    <2>2. SessionFor(f) = rx /\ AcceptedFor(f) = accepted
      BY <1>5 DEF SessionFor, AcceptedFor
    <2>. QED
      BY <1>3, <2>1, <2>2 DEF Inv
  <1>. QED
    BY <1>4, <1>5

\* What a frame that is taken in leaves: the session of its object with one more
\* symbol or none, or, when each block is decoded, no session.
Taken(f, t, g) ==
    /\ t.oti = f.oti
    /\ SessionOK(t, g)
    /\ \/ g = AcceptedFor(f) /\ ~IsComplete(t)
       \/ /\ f.sbn \in SbnOf(f.oti) /\ f.esi \in Esis
          /\ g = [AcceptedFor(f) EXCEPT ![f.sbn] = @ \union {f.esi}]
    /\ IF IsComplete(t)
       THEN rx' = NoSession(TRUE, f.oti) /\ accepted' = [b \in {} |-> {}]
       ELSE rx' = t /\ accepted' = g

LEMMA AcceptTakes ==
    ASSUME Inv, NEW f \in Frames, Accept(f)
    PROVE  \E t, g : Taken(f, t, g)
  <1>1. f.esi \in Esis /\ f.content \in Contents
    BY FramesAssumption DEF FrameSet
  <1>2. PICK s : s = SessionFor(f)
    OBVIOUS
  <1>3. PICK h : h = AcceptedFor(f)
    OBVIOUS
  <1>4. SessionOK(s, h) /\ s.oti = f.oti /\ ~IsComplete(s)
    BY <1>2, <1>3, BeforeSymbol
  <1>5. PICK t \in AfterSymbol(s, f.sbn, f.esi, f.content) :
            IF IsComplete(t)
            THEN rx' = NoSession(TRUE, t.oti) /\ accepted' = [b \in {} |-> {}]
            ELSE /\ rx' = t
                 /\ accepted' = IF SymbolResult(s, f.sbn, f.esi) = "ADDED"
                                THEN [h EXCEPT ![f.sbn] = @ \union {f.esi}]
                                ELSE h
    BY <1>2, <1>3 DEF Accept
  <1>6. \/ SymbolResult(s, f.sbn, f.esi) # "ADDED" /\ t = s
        \/ /\ SymbolResult(s, f.sbn, f.esi) = "ADDED"
           /\ f.sbn \in SbnOf(s.oti)
           /\ t.oti = s.oti /\ t.last = s.last
           /\ SessionOK(t, [h EXCEPT ![f.sbn] = @ \union {f.esi}])
    BY <1>1, <1>4, <1>5, AfterSymbolOK
  <1>7. CASE SymbolResult(s, f.sbn, f.esi) # "ADDED" /\ t = s
    <2>1. Taken(f, t, h)
      BY <1>3, <1>4, <1>5, <1>7 DEF Taken
    <2>. QED
      BY <2>1
  <1>8. CASE /\ SymbolResult(s, f.sbn, f.esi) = "ADDED"
             /\ f.sbn \in SbnOf(s.oti)
             /\ t.oti = s.oti /\ t.last = s.last
             /\ SessionOK(t, [h EXCEPT ![f.sbn] = @ \union {f.esi}])
    <2>1. Taken(f, t, [h EXCEPT ![f.sbn] = @ \union {f.esi}])
      BY <1>1, <1>3, <1>4, <1>5, <1>8 DEF Taken
    <2>. QED
      BY <2>1
  <1>. QED
    BY <1>6, <1>7, <1>8

\* Without a session all is as it was in the beginning, but for the object
\* completed last.
LEMMA NoSessionOK ==
    ASSUME NEW completed \in BOOLEAN, NEW last \in Otis \union {NoOti},
           running' \in BOOLEAN, rx' = NoSession(completed, last),
           accepted' = [b \in {} |-> {}]
    PROVE  Inv'
  <1>1. /\ rx'.active = FALSE /\ rx'.completed = completed /\ rx'.last = last
    BY DEF NoSession
  <1>. QED
    BY <1>1 DEF Inv

LEMMA InvInit == Init => Inv
  BY DEF Init, Inv, NoSession

LEMMA InvNext == Inv /\ [Next]_vars => Inv'
  <1>. SUFFICES ASSUME Inv, [Next]_vars
                PROVE  Inv'
    OBVIOUS
  <1>1. ASSUME NEW f \in Frames, Ignore(f)
        PROVE  Inv'
    BY <1>1 DEF Ignore, Inv, vars, SessionOK, BlocksOK, BlockOK, IsComplete, Mask, Gaps, NoSession
  <1>2. ASSUME NEW f \in Frames, StartFails(f)
        PROVE  Inv'
    <2>1. running' \in BOOLEAN /\ rx' = NoSession(rx.completed, rx.last)
      BY <1>2 DEF StartFails, Reset, Inv
    <2>2. accepted' = [b \in {} |-> {}] /\ rx.completed \in BOOLEAN
          /\ rx.last \in Otis \union {NoOti}
      BY <1>2 DEF StartFails, Inv
    <2>. QED
      BY <2>1, <2>2, NoSessionOK
  <1>3. ASSUME NEW f \in Frames, Accept(f)
        PROVE  Inv'
    <2>1. PICK t, g : Taken(f, t, g)
      BY <1>3, AcceptTakes
    <2>2. running' \in BOOLEAN /\ f.oti \in Otis
      BY <1>3, FramesAssumption DEF Accept, Inv, FrameSet
    <2>3. CASE IsComplete(t)
      <3>1. rx' = NoSession(TRUE, f.oti) /\ accepted' = [b \in {} |-> {}]
        BY <2>1, <2>3 DEF Taken
      <3>. QED
        BY <2>2, <3>1, NoSessionOK
    <2>4. CASE ~IsComplete(t)
      <3>1. rx' = t /\ accepted' = g /\ SessionOK(t, g)
        BY <2>1, <2>4 DEF Taken
      <3>2. SessionOK(rx, accepted)' /\ ~IsComplete(rx)'
        BY <2>4, <3>1 DEF SessionOK, IsComplete, BlocksOK, BlockOK, Mask, Gaps
      <3>3. t.active = TRUE /\ t.completed = FALSE /\ t.last \in Otis \union {NoOti}
        BY <3>1 DEF SessionOK, Session
      <3>. QED
        BY <2>2, <3>1, <3>2, <3>3 DEF Inv
    <2>. QED
      BY <2>3, <2>4
  <1>4. CASE Stop
    BY <1>4, ZenonT(30) DEF Stop, Inv, SessionOK, BlocksOK, BlockOK, IsComplete, Mask, Gaps, NoSession
  <1>5. CASE Leave
    <2>1. /\ running' \in BOOLEAN /\ rx' = NoSession(rx.completed, rx.last)
          /\ accepted' = [b \in {} |-> {}] /\ rx.completed \in BOOLEAN
          /\ rx.last \in Otis \union {NoOti}
      BY <1>5 DEF Leave, Reset, Inv
    <2>. QED
      BY <2>1, NoSessionOK
  <1>6. CASE UNCHANGED vars
    BY <1>6 DEF vars, Inv, SessionOK, BlocksOK, BlockOK, IsComplete, Mask, Gaps, NoSession
  <1>. QED
    BY <1>1, <1>2, <1>3, <1>4, <1>5, <1>6 DEF Next, Receive

LEMMA Invariance == Spec => []Inv
  BY InvInit, InvNext, PTL DEF Spec

-----------------------------------------------------------------------------
(***************************************************************************)
(* The theorems.                                                           *)
(***************************************************************************)

\* The session always has exactly the blocks of its object, the file exactly
\* its places, and without a session everything is reset.
THEOREM TypeCorrect == Spec => []TypeOK
  <1>1. Inv => TypeOK
    <2>. SUFFICES ASSUME Inv
                  PROVE  TypeOK
      OBVIOUS
    <2>1. CASE rx.active
      <3>1. SessionOK(rx, accepted)
        BY <2>1 DEF Inv
      <3>2. /\ rx.oti \in Otis
            /\ rx.blocks \in [SbnOf(rx.oti) -> [Esis -> Cells]]
            /\ rx.file \in Outputs(rx.oti)
            /\ rx.seen \in [SbnOf(rx.oti) -> Nat]
            /\ rx.decoded \in [SbnOf(rx.oti) -> BOOLEAN]
            /\ accepted \in [SbnOf(rx.oti) -> SUBSET Esis]
        BY <3>1 DEF SessionOK, Session, BlocksOK
      <3>3. /\ DOMAIN rx.file = SbnOf(rx.oti)
            /\ \A b \in SbnOf(rx.oti) : rx.file[b] \in [SourceEsis(rx.oti, b) -> Cells]
        BY <3>2 DEF Outputs
      <3>. QED
        BY <2>1, <3>2, <3>3 DEF TypeOK, Inv
    <2>2. CASE ~rx.active
      <3>1. rx = NoSession(rx.completed, rx.last) /\ rx.oti = NoOti
        BY <2>2 DEF Inv, NoSession
      <3>. QED
        BY <2>2, <3>1 DEF TypeOK, Inv
    <2>. QED
      BY <2>1, <2>2
  <1>. QED
    BY <1>1, Invariance, PTL

\* The count the daemon keeps of the symbols of a block, and the mask the
\* decoder keeps of them, never disagree while the block is open; and when the
\* count says that there are enough, the decoder has enough to solve the block.
THEOREM CountAgreesWithMask == Spec => []CountIsMask
  <1>1. Inv => CountIsMask
    <2>. SUFFICES ASSUME Inv, rx.active, NEW b \in SbnOf(rx.oti)
                  PROVE  /\ rx.seen[b] = Cardinality(accepted[b])
                         /\ ~rx.decoded[b] => Mask(rx, b) = accepted[b]
                         /\ ~rx.decoded[b] /\ rx.seen[b] >= Symbols[rx.oti][b]
                               => Solvable(rx, b)
      BY DEF CountIsMask
    <2>1. PICK o \in Otis : o = rx.oti
      BY DEF Inv, SessionOK
    <2>2. BlockOK(rx, accepted, b)
      BY DEF Inv, SessionOK, BlocksOK
    <2>3. ASSUME ~rx.decoded[b], rx.seen[b] >= Symbols[rx.oti][b]
          PROVE  Solvable(rx, b)
      <3>1. Mask(rx, b) = accepted[b] /\ Cardinality(Mask(rx, b)) >= Symbols[o][b]
        BY <2>1, <2>2, <2>3 DEF BlockOK
      <3>2. IsFiniteSet(Mask(rx, b))
        BY FiniteEsis DEF Mask
      <3>3. /\ IsFiniteSet(SourceEsis(o, b))
            /\ Cardinality(SourceEsis(o, b)) = Symbols[o][b]
        BY <2>1, Sizes
      <3>4. Cardinality(Mask(rx, b) \ SourceEsis(o, b))
               >= Cardinality(SourceEsis(o, b) \ Mask(rx, b))
        BY <3>1, <3>2, <3>3, EnoughToFill
      <3>. QED
        BY <2>1, <3>4 DEF Solvable, RepairBin, Gaps
    <2>. QED
      BY <2>2, <2>3 DEF BlockOK
  <1>. QED
    BY <1>1, Invariance, PTL

\* No block of a session ever has all its source symbols without being marked
\* as decoded, nor is one marked that lacks a symbol: none gets stuck.
THEOREM NoBlockSticks == Spec => []NoStuckBlock
  <1>1. Inv => NoStuckBlock
    BY DEF Inv, SessionOK, BlocksOK, BlockOK, NoStuckBlock
  <1>. QED
    BY <1>1, Invariance, PTL

-----------------------------------------------------------------------------
(***************************************************************************)
(* The receive thread implements the delivery of objects.                  *)
(***************************************************************************)

LEMMA DeliveryInit == Init => Delivery!Init
  BY DEF Init, NoSession, Delivery!Init, Delivery!Nothing

LEMMA FrameMayAssemble ==
    ASSUME Inv, NEW f \in Frames, ~AlreadyReceived(f)
    PROVE  Delivery!MayAssemble(f.oti)
  <1>1. f.oti \in Otis /\ f.oti # NoOti
    BY FramesAssumption, MarksAssumption DEF FrameSet
  <1>2. CASE rx.active
    <2>1. rx.oti \in Otis
      BY <1>2 DEF Inv, SessionOK
    <2>2. rx.oti # NoOti
      BY <2>1, MarksAssumption
    <2>. QED
      BY <2>2 DEF Delivery!MayAssemble
  <1>3. CASE ~rx.active
    <2>1. (IF rx.completed THEN rx.last ELSE NoOti) # f.oti
      BY <1>1, <1>3 DEF AlreadyReceived
    <2>. QED
      BY <2>1 DEF Delivery!MayAssemble
  <1>. QED
    BY <1>2, <1>3

\* A session of which each block is decoded has enough symbols of each.
LEMMA CompleteIsEnough ==
    ASSUME NEW t, NEW g, SessionOK(t, g), IsComplete(t)
    PROVE  Delivery!Enough(t.oti, g)
  <1>1. ASSUME NEW b \in SbnOf(t.oti)
        PROVE  Cardinality(g[b]) >= Symbols[t.oti][b]
    <2>1. t.decoded[b] /\ BlockOK(t, g, b)
      BY DEF SessionOK, BlocksOK, IsComplete
    <2>. QED
      BY <2>1 DEF BlockOK
  <1>2. \A S : Delivery!Cardinality(S) = Cardinality(S)
    BY Zenon DEF Delivery!Cardinality, Cardinality
  <1>. QED
    BY <1>1, <1>2 DEF Delivery!Enough, SbnOf

\* Taking a frame in is a symbol of its object, new or not.
LEMMA AcceptDelivers ==
    ASSUME Inv, NEW f \in Frames, Accept(f)
    PROVE  Delivery!Next
  <1>1. f.oti \in Otis /\ Delivery!MayAssemble(f.oti)
    BY FramesAssumption, FrameMayAssemble DEF FrameSet, Accept
  <1>2. AcceptedFor(f) = Delivery!Collected(f.oti)
    BY BeforeSymbol
  <1>3. PICK t, g : Taken(f, t, g)
    BY AcceptTakes
  <1>4. CASE IsComplete(t)
    <2>1. /\ f.sbn \in SbnOf(f.oti) /\ f.esi \in Esis
          /\ g = [AcceptedFor(f) EXCEPT ![f.sbn] = @ \union {f.esi}]
      BY <1>3, <1>4 DEF Taken
    <2>2. rx' = NoSession(TRUE, f.oti) /\ accepted' = [b \in {} |-> {}]
      BY <1>3, <1>4 DEF Taken
    <2>3. Delivery!Enough(f.oti, g)
      BY <1>3, <1>4, CompleteIsEnough DEF Taken
    <2>4. rx'.oti = NoOti /\ rx'.completed = TRUE /\ rx'.last = f.oti
      BY <2>2 DEF NoSession
    <2>5. Delivery!Announce(f.oti, g)
      BY <1>1, <2>2, <2>3, <2>4 DEF Delivery!Announce, Delivery!Nothing
    <2>6. Delivery!Symbol(f.oti)
      BY <1>2, <2>1, <2>5 DEF Delivery!Symbol, SbnOf, Esis
    <2>. QED
      BY <1>1, <2>6 DEF Delivery!Next
  <1>5. CASE ~IsComplete(t)
    <2>1. rx' = t /\ accepted' = g /\ t.oti = f.oti
      BY <1>3, <1>5 DEF Taken
    <2>2. rx'.completed = FALSE
      BY <1>3, <2>1 DEF Taken, SessionOK, Session
    <2>3. Delivery!Collect(f.oti, g)
      BY <1>1, <2>1, <2>2 DEF Delivery!Collect
    <2>4. CASE g = AcceptedFor(f)
      BY <1>1, <1>2, <2>3, <2>4 DEF Delivery!Next, Delivery!Other
    <2>5. CASE /\ f.sbn \in SbnOf(f.oti) /\ f.esi \in Esis
               /\ g = [AcceptedFor(f) EXCEPT ![f.sbn] = @ \union {f.esi}]
      <3>1. Delivery!Symbol(f.oti)
        BY <1>2, <2>3, <2>5 DEF Delivery!Symbol, SbnOf, Esis
      <3>. QED
        BY <1>1, <3>1 DEF Delivery!Next
    <2>. QED
      BY <1>3, <2>4, <2>5 DEF Taken
  <1>. QED
    BY <1>4, <1>5

\* A session that is lost is an assembly that is given up.
LEMMA ResetGivesUp ==
    ASSUME rx' = Reset(rx), accepted' = [b \in {} |-> {}]
    PROVE  Delivery!GiveUp
  <1>1. rx'.oti = NoOti /\ rx'.completed = rx.completed /\ rx'.last = rx.last
    BY DEF Reset, NoSession
  <1>. QED
    BY <1>1 DEF Delivery!GiveUp, Delivery!Nothing

\* Every run of the receive thread is a run of ObjectDelivery.
THEOREM ImplementsObjectDelivery == Spec => RefinesObjectDelivery
  <1>1. Init => Delivery!Init
    BY DeliveryInit
  <1>2. Inv /\ [Next]_vars => [Delivery!Next]_(Delivery!vars)
    <2>. SUFFICES ASSUME Inv, [Next]_vars
                  PROVE  [Delivery!Next]_(Delivery!vars)
      OBVIOUS
    <2>1. CASE UNCHANGED <<rx, accepted>>
      BY <2>1 DEF Delivery!vars
    <2>2. ASSUME NEW f \in Frames, Receive(f)
          PROVE  [Delivery!Next]_(Delivery!vars)
      <3>1. CASE Ignore(f)
        BY <2>1, <3>1 DEF Ignore, vars
      <3>2. CASE StartFails(f)
        BY <3>2, ResetGivesUp DEF StartFails, Delivery!Next
      <3>3. CASE Accept(f)
        BY <3>3, AcceptDelivers
      <3>. QED
        BY <2>2, <3>1, <3>2, <3>3 DEF Receive
    <2>3. CASE Stop
      BY <2>1, <2>3 DEF Stop
    <2>4. CASE Leave
      BY <2>4, ResetGivesUp DEF Leave, Delivery!Next
    <2>5. CASE UNCHANGED vars
      BY <2>1, <2>5 DEF vars
    <2>. QED
      BY <2>2, <2>3, <2>4, <2>5 DEF Next
  <1>. QED
    BY <1>1, <1>2, Invariance, PTL DEF Spec, RefinesObjectDelivery, Delivery!Spec

-----------------------------------------------------------------------------
(***************************************************************************)
(* What is announced is whole, as long as no two files share an OTI.       *)
(***************************************************************************)

\* What the OTI is taken for: frames of one OTI are of one file.
OtiTellsFiles ==
    \A f, g \in Frames : Valid(f) /\ Valid(g) /\ f.oti = g.oti => f.content = g.content

\* The session is of the one contents its OTI has on the air.
OfOneFile ==
    rx.active =>
        \E c \in Contents :
            /\ HoldsOnly(rx, c)
            /\ \A f \in Frames : Valid(f) /\ f.oti = rx.oti => f.content = c

LEMMA AfterSymbolHolds ==
    ASSUME NEW s, NEW taken, SessionOK(s, taken), NEW b, NEW e \in Esis,
           NEW c \in Contents, HoldsOnly(s, c), NEW t \in AfterSymbol(s, b, e, c)
    PROVE  HoldsOnly(t, c)
  <1>1. PICK o \in Otis : o = s.oti /\ s \in Session(o)
    BY DEF SessionOK
  <1>2. CASE SymbolResult(s, b, e) # "ADDED"
    BY <1>2 DEF AfterSymbol
  <1>3. CASE SymbolResult(s, b, e) = "ADDED"
    <2>1. ~s.decoded[b] /\ Decodes(o, s)
      BY <1>1, <1>3, OpenIsNotDecoded, SessionDecodes
    <2>2. b \in SbnOf(o)
      BY <1>1, <1>3, <2>1, SymbolShape
    <2>3. PICK w, u :
              /\ w \in Written(c)
              /\ IsCounted(o, s, b, e, c, w, u)
              /\ t # u => \E v \in Written(Rebuilt(u, b)) : IsSolved(o, u, b, v, t)
      BY <1>1, <1>3, <2>1, SymbolShape
    <2>4. HoldsOnly(u, c)
      BY <2>1, <2>2, <2>3, CountedHolds
    <2>5. Decodes(o, u) /\ Mask(u, b) # {}
      BY <2>1, <2>2, <2>3, CountedDecodes
    <2>. QED
      BY <2>2, <2>3, <2>4, <2>5, SolvedHolds
  <1>. QED
    BY <1>2, <1>3

\* A session that begins is of the contents of the frame it begins with.
LEMMA BeforeSymbolHolds ==
    ASSUME OtiTellsFiles, Inv, OfOneFile, NEW f \in Frames, Valid(f)
    PROVE  /\ HoldsOnly(SessionFor(f), f.content)
           /\ \A g \in Frames : Valid(g) /\ g.oti = f.oti => g.content = f.content
  <1>1. \A g \in Frames : Valid(g) /\ g.oti = f.oti => g.content = f.content
    BY DEF OtiTellsFiles
  <1>2. CASE NeedsSession(f)
    <2>1. PICK s : s = NewSession(f.oti, rx.last)
      OBVIOUS
    <2>2. s.oti = f.oti /\ s.blocks = NoBlocks(f.oti)
      BY <2>1 DEF NewSession
    <2>3. HoldsOnly(s, f.content)
      BY <2>2, FreshHolds, FramesAssumption DEF FrameSet
    <2>. QED
      BY <1>1, <1>2, <2>1, <2>3 DEF SessionFor
  <1>3. CASE ~NeedsSession(f)
    <2>1. rx.active /\ rx.oti = f.oti
      BY <1>3 DEF NeedsSession
    <2>2. PICK c \in Contents :
              /\ HoldsOnly(rx, c)
              /\ \A g \in Frames : Valid(g) /\ g.oti = rx.oti => g.content = c
      BY <2>1 DEF OfOneFile
    <2>3. c = f.content
      BY <2>1, <2>2
    <2>. QED
      BY <1>1, <1>3, <2>2, <2>3 DEF SessionFor
  <1>. QED
    BY <1>2, <1>3

LEMMA WholeNext ==
    ASSUME OtiTellsFiles, Inv, OfOneFile, AnnouncedIsWhole, [Next]_vars
    PROVE  OfOneFile' /\ AnnouncedIsWhole'
  <1>1. CASE UNCHANGED <<rx, announced>>
    BY <1>1 DEF OfOneFile, HoldsOnly, AnnouncedIsWhole
  <1>2. CASE UNCHANGED announced /\ \E p, l : rx' = NoSession(p, l)
    <2>1. rx'.active = FALSE
      BY <1>2 DEF NoSession
    <2>. QED
      BY <1>2, <2>1 DEF OfOneFile, AnnouncedIsWhole
  <1>3. ASSUME NEW f \in Frames, Accept(f)
        PROVE  OfOneFile' /\ AnnouncedIsWhole'
    <2>1. f.esi \in Esis /\ f.content \in Contents /\ Valid(f)
      BY <1>3, FramesAssumption DEF FrameSet, Accept
    <2>2. PICK s, h : s = SessionFor(f) /\ h = AcceptedFor(f)
      OBVIOUS
    <2>3. SessionOK(s, h) /\ s.oti = f.oti
      BY <2>2, BeforeSymbol
    <2>4. PICK c \in Contents : c = f.content
      BY <2>1
    <2>5. /\ HoldsOnly(s, c)
          /\ \A g \in Frames : Valid(g) /\ g.oti = f.oti => g.content = c
      BY <2>1, <2>2, <2>4, BeforeSymbolHolds
    <2>6. PICK t \in AfterSymbol(s, f.sbn, f.esi, c) :
              IF IsComplete(t)
              THEN /\ rx' = NoSession(TRUE, t.oti)
                   /\ announced' = [oti |-> t.oti, file |-> t.file]
              ELSE rx' = t /\ announced' = announced
      BY <1>3, <2>2, <2>4 DEF Accept
    <2>7. HoldsOnly(t, c)
      BY <2>1, <2>3, <2>5, <2>6, AfterSymbolHolds
    <2>8. t.oti = f.oti /\ \E g : SessionOK(t, g)
      <3>1. \/ SymbolResult(s, f.sbn, f.esi) # "ADDED" /\ t = s
            \/ /\ SymbolResult(s, f.sbn, f.esi) = "ADDED"
               /\ f.sbn \in SbnOf(s.oti)
               /\ t.oti = s.oti /\ t.last = s.last
               /\ SessionOK(t, [h EXCEPT ![f.sbn] = @ \union {f.esi}])
        BY <2>1, <2>3, <2>6, AfterSymbolOK
      <3>. QED
        BY <2>3, <3>1
    <2>9. CASE IsComplete(t)
      <3>1. rx'.active = FALSE
        BY <2>6, <2>9 DEF NoSession
      <3>2. announced'.oti = t.oti /\ announced'.file = t.file
        BY <2>6, <2>9
      <3>3. HoldsWhole(t.oti, t.file, c)
        BY <2>7, <2>8, <2>9, CompleteHoldsWhole DEF SessionOK, IsComplete
      <3>4. \E d \in Contents : HoldsWhole(announced'.oti, announced'.file, d)
        BY <3>2, <3>3
      <3>. QED
        BY <3>1, <3>4 DEF OfOneFile, AnnouncedIsWhole
    <2>10. CASE ~IsComplete(t)
      <3>1. rx' = t /\ announced' = announced
        BY <2>6, <2>10
      <3>2. HoldsOnly(rx, c)'
        BY <2>7, <3>1 DEF HoldsOnly
      <3>3. OfOneFile'
        BY <2>5, <2>8, <3>1, <3>2 DEF OfOneFile
      <3>. QED
        BY <3>1, <3>3 DEF AnnouncedIsWhole
    <2>. QED
      BY <2>9, <2>10
  <1>4. ASSUME NEW f \in Frames, Receive(f)
        PROVE  OfOneFile' /\ AnnouncedIsWhole'
    BY <1>1, <1>2, <1>3, <1>4 DEF Receive, Ignore, StartFails, Reset, vars
  <1>. QED
    BY <1>1, <1>2, <1>4 DEF Next, Stop, Leave, Reset, vars

\* If the OTI tells files from one another, every file that is announced is
\* whole, whatever the channel does; that it tells them is all that is needed,
\* and what the replacement of a file by one of the same length breaks.
THEOREM OnlyWholeFiles ==
    ASSUME OtiTellsFiles
    PROVE  Spec => []AnnouncedIsWhole
  <1>1. Init => OfOneFile /\ AnnouncedIsWhole
    BY DEF Init, NoSession, OfOneFile, AnnouncedIsWhole
  <1>2. Inv /\ OfOneFile /\ AnnouncedIsWhole /\ [Next]_vars
            => OfOneFile' /\ AnnouncedIsWhole'
    BY WholeNext
  <1>. QED
    BY <1>1, <1>2, Invariance, PTL DEF Spec
=============================================================================
