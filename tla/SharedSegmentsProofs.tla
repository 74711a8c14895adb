------------------------ MODULE SharedSegmentsProofs ------------------------
(***************************************************************************)
(* Theorems about SharedSegments, for any programs and however often the   *)
(* modem dies and is started again.                                        *)
(***************************************************************************)
EXTENDS SharedSegments, TLAPS

(***************************************************************************)
(* The inductive invariant.                                                *)
(***************************************************************************)

Segment == [of : Nat, sized : BOOLEAN, max : BOOLEAN, mutex : BOOLEAN, empty : BOOLEAN]
Ids == DOMAIN segments
Halves == [Part -> {None} \union Ids]

TypeOK ==
    /\ segments \in Seq(Segment)
    /\ names \in Halves
    /\ modem \in [pc : {"off", "unlink", "create", "size", "max", "mutex", "reset",
                        "check", "aborted", "serves", "destroy"},
                  part : Part, has : Halves]
    /\ progs \in [Programs -> [pc : {"off", "open", "check", "attached", "crashed"},
                               part : Part, has : Halves, from : Nat,
                               settled : BOOLEAN, early : BOOLEAN]]
    /\ starts \in Nat /\ finished \in BOOLEAN
    /\ \A id \in Ids : segments[id].of <= starts

\* A half of the ring of the last start that can be used
Ready(q, id) ==
    /\ segments[id].of = starts /\ segments[id].sized
    /\ q = "-2" => segments[id].max /\ segments[id].mutex

\* The modem has given half q its length, and its name.
Made(q) ==
    /\ modem.has[q] # None /\ names[q] = modem.has[q]
    /\ segments[modem.has[q]].sized

\* What the modem holds is of the present start, and made as far as it has got.
ModemOK ==
    /\ modem.pc = "off" => modem = ModemOff
    /\ \A q \in Part : modem.has[q] # None => segments[modem.has[q]].of = starts
    /\ modem.pc = "create" => names[modem.part] = None
    /\ modem.pc = "size" => /\ modem.has[modem.part] # None
                            /\ names[modem.part] = modem.has[modem.part]
    /\ modem.pc \in {"unlink", "create", "size"} /\ modem.part = "-2" => Made("-1")
    /\ modem.pc \in {"max", "mutex", "reset", "check", "serves"} => Made("-1") /\ Made("-2")
    /\ modem.pc \in {"mutex", "reset", "check", "serves"} => segments[OwnState].max
    /\ modem.pc \in {"reset", "check", "serves"} => segments[OwnState].mutex

\* Between a start that has succeeded and the next one, what has the names is
\* ready.
FinishedOK ==
    finished =>
        /\ modem.pc \in {"serves", "destroy", "off"}
        /\ \A q \in Part : names[q] # None => Ready(q, names[q])

\* A program's halves are there when it goes on to them; they are ready if no
\* start came in between, and older than the last start if it is early.
ProgOK(p) ==
    /\ progs[p].pc = "off" => progs[p] = ProgOff
    /\ progs[p].from <= starts
    /\ progs[p].pc = "open" /\ progs[p].part = "-2" => progs[p].has["-1"] # None
    /\ progs[p].pc \in {"check", "attached"} => \A q \in Part : progs[p].has[q] # None
    /\ Clean(p) => /\ finished
                   /\ progs[p].pc # "crashed"
                   /\ \A q \in Part : progs[p].has[q] # None => Ready(q, progs[p].has[q])
    /\ progs[p].early =>
           /\ progs[p].pc \in {"attached", "crashed"}
           /\ \A q \in Part : /\ progs[p].has[q] # None
                              /\ segments[progs[p].has[q]].of < starts

ProgsOK == \A p \in Programs : ProgOK(p)

Inv == TypeOK /\ ModemOK /\ FinishedOK /\ ProgsOK

-----------------------------------------------------------------------------
(***************************************************************************)
(* What the steps do to the segments.                                      *)
(***************************************************************************)

\* Segments stay, of the start that made them, and never lose what they have.
SegmentsStay ==
    \A id \in Ids :
        /\ id \in Ids'
        /\ segments'[id].of = segments[id].of
        /\ segments[id].sized => segments'[id].sized
        /\ segments[id].max => segments'[id].max
        /\ segments[id].mutex => segments'[id].mutex

LEMMA IdsAreNumbers ==
    ASSUME TypeOK
    PROVE  /\ Ids = 1 .. Len(segments) /\ Len(segments) \in Nat
           /\ None \notin Ids
           /\ \A id \in Ids : segments[id] \in Segment
  BY DEF TypeOK, Ids, None

\* A new segment is behind all others.
LEMMA AppendStays ==
    ASSUME TypeOK, NEW s \in Segment, segments' = Append(segments, s)
    PROVE  /\ SegmentsStay
           /\ segments' \in Seq(Segment)
           /\ Len(segments) + 1 \in Ids' /\ Len(segments) + 1 \notin Ids
           /\ segments'[Len(segments) + 1] = s
           /\ Ids' = Ids \union {Len(segments) + 1}
  BY IdsAreNumbers DEF SegmentsStay, TypeOK, Ids

\* One segment gets a length, max, a mutex, or is filled or emptied.
LEMMA ChangeStays ==
    ASSUME TypeOK, NEW id \in Ids, NEW s \in Segment,
           segments' = [segments EXCEPT ![id] = s],
           s.of = segments[id].of,
           segments[id].sized => s.sized,
           segments[id].max => s.max,
           segments[id].mutex => s.mutex
    PROVE  /\ SegmentsStay
           /\ segments' \in Seq(Segment)
           /\ Ids' = Ids
           /\ segments'[id] = s
  BY IdsAreNumbers DEF SegmentsStay, TypeOK, Ids

LEMMA SameStays ==
    ASSUME TypeOK, UNCHANGED segments
    PROVE  SegmentsStay /\ Ids' = Ids
  BY DEF SegmentsStay, Ids

\* A half that is ready stays so until the next start.
LEMMA ReadyStays ==
    ASSUME TypeOK, SegmentsStay, UNCHANGED starts, NEW q \in Part, NEW id \in Ids,
           Ready(q, id)
    PROVE  Ready(q, id)'
  BY DEF Ready, SegmentsStay

\* What holds of a program that takes no step.
LEMMA ProgStays ==
    ASSUME Inv, SegmentsStay, UNCHANGED starts, NEW p \in Programs,
           progs'[p] = progs[p], finished => finished'
    PROVE  ProgOK(p)'
  <1>1. ProgOK(p) /\ progs[p].has \in Halves
    BY DEF Inv, ProgsOK, TypeOK
  <1>2. \A q \in Part : progs[p].has[q] # None => progs[p].has[q] \in Ids
    BY <1>1 DEF Halves
  <1>3. Clean(p)' => Clean(p)
    BY DEF Clean
  <1>4. ASSUME Clean(p)', NEW q \in Part, progs[p].has[q] # None
        PROVE  Ready(q, progs[p].has[q])'
    <2>1. Ready(q, progs[p].has[q])
      BY <1>1, <1>3, <1>4 DEF ProgOK
    <2>2. DEFINE id == progs[p].has[q]
    <2>3. id \in Ids /\ UNCHANGED id
      BY <1>2, <1>4
    <2>. QED
      BY <2>1, <2>3, <1>4 DEF Ready, SegmentsStay
  <1>5. ASSUME progs[p].early, NEW q \in Part
        PROVE  progs[p].has[q] # None /\ segments'[progs[p].has[q]].of < starts'
    BY <1>1, <1>2, <1>5 DEF ProgOK, SegmentsStay
  <1>. QED
    BY <1>1, <1>3, <1>4, <1>5 DEF ProgOK

-----------------------------------------------------------------------------
(***************************************************************************)
(* The modem.                                                              *)
(***************************************************************************)

\* A step of the modem after its start leaves the programs what they had.
LEMMA ModemLeavesProgs ==
    ASSUME Inv, SegmentsStay, UNCHANGED <<progs, starts>>, finished => finished'
    PROVE  ProgsOK'
  BY ProgStays DEF ProgsOK

\* What the modem holds, as numbers of segments
LEMMA ModemHas ==
    ASSUME TypeOK
    PROVE  /\ \A q \in Part : modem.has[q] # None => modem.has[q] \in Ids
           /\ \A q \in Part : names[q] # None => names[q] \in Ids
           /\ modem.part \in Part /\ "-1" \in Part /\ "-2" \in Part
           /\ \A q \in Part : q = "-1" \/ q = "-2"
  BY DEF TypeOK, Halves, Part

LEMMA StartKeepsInv ==
    ASSUME Inv, Start
    PROVE  Inv'
  <1>. USE DEF Inv, Start, ModemAt, ModemTo
  <1>1. SegmentsStay /\ Ids' = Ids
    BY SameStays
  <1>2. modem = ModemOff
    BY DEF ModemOK
  <1>3. TypeOK'
    <2>1. progs' \in [Programs -> [pc : {"off", "open", "check", "attached", "crashed"},
                                   part : Part, has : Halves, from : Nat,
                                   settled : BOOLEAN, early : BOOLEAN]]
      BY ZenonT(30) DEF TypeOK
    <2>2. \A id \in Ids : segments[id].of <= starts + 1
      BY IdsAreNumbers DEF TypeOK, Segment
    <2>3. modem' \in [pc : {"unlink"}, part : Part, has : Halves]
      BY DEF TypeOK
    <2>4. \A id \in Ids' : segments'[id].of <= starts'
      BY <1>1, <2>2
    <2>5. Halves' = Halves
      BY <1>1 DEF Halves
    <2>6. starts' \in Nat
      BY DEF TypeOK
    <2>7. finished' \in BOOLEAN
      BY Zenon
    <2>. QED
      BY <2>1, <2>3, <2>4, <2>5, <2>6, <2>7 DEF TypeOK
  <1>4. ModemOK'
    BY <1>2 DEF ModemOK, ModemOff, Nothing, Made
  <1>5. FinishedOK'
    BY DEF FinishedOK
  <1>6. ProgsOK'
    <2>. SUFFICES ASSUME NEW p \in Programs
                  PROVE  ProgOK(p)'
      BY DEF ProgsOK
    <2>1. progs'[p] = [progs[p] EXCEPT !.early = progs[p].pc = "attached"]
      BY DEF TypeOK
    <2>2. progs[p].from <= starts /\ starts \in Nat /\ progs[p].from \in Nat
      BY DEF ProgsOK, ProgOK, TypeOK
    <2>3. ~Clean(p)'
      BY <2>1, <2>2, SMTT(30) DEF Clean, TypeOK
    <2>4. ASSUME progs[p].pc = "attached", NEW q \in Part
          PROVE  progs[p].has[q] # None /\ segments'[progs[p].has[q]].of < starts'
      <3>1. progs[p].has[q] \in Ids
        BY <2>4 DEF ProgsOK, ProgOK, TypeOK, Halves
      <3>2. segments[progs[p].has[q]].of <= starts /\ segments[progs[p].has[q]].of \in Nat
        BY <3>1, IdsAreNumbers DEF TypeOK, Segment
      <3>. QED
        BY <2>2, <2>4, <3>2 DEF ProgsOK, ProgOK
    <2>5. progs'[p].pc = "off" => progs'[p] = ProgOff
      BY <2>1, ZenonT(30) DEF ProgsOK, ProgOK, ProgOff, TypeOK
    <2>6. /\ progs'[p].pc = progs[p].pc /\ progs'[p].part = progs[p].part
          /\ progs'[p].has = progs[p].has /\ progs'[p].from = progs[p].from
          /\ progs'[p].early = (progs[p].pc = "attached")
      BY <2>1 DEF TypeOK
    <2>7. progs'[p].from <= starts'
      BY <2>2, <2>6
    <2>. QED
      BY <2>3, <2>4, <2>5, <2>6, <2>7, ZenonT(30) DEF ProgsOK, ProgOK
  <1>. QED
    BY <1>3, <1>4, <1>5, <1>6

LEMMA UnlinkKeepsInv ==
    ASSUME Inv, Unlink
    PROVE  Inv'
  <1>. USE DEF Inv, Unlink, ModemAt, ModemTo, Unlinked
  <1>1. SegmentsStay /\ Ids' = Ids
    BY SameStays
  <1>2. ~finished
    BY DEF FinishedOK
  <1>3. TypeOK'
    BY <1>1 DEF TypeOK, Halves
  <1>4. ModemOK'
    BY DEF ModemOK, Made, TypeOK, Part, Halves, ModemOff
  <1>5. FinishedOK' /\ ProgsOK'
    BY <1>1, <1>2, ModemLeavesProgs DEF FinishedOK
  <1>. QED
    BY <1>3, <1>4, <1>5

LEMMA CreateKeepsInv ==
    ASSUME Inv, Create
    PROVE  Inv'
  <1>. USE DEF Inv, Create, ModemAt
  <1>. DEFINE q == modem.part
              id == Len(segments) + 1
              new == [of |-> starts, sized |-> FALSE, max |-> FALSE, mutex |-> FALSE,
                      empty |-> TRUE]
  <1>1. names[q] = None /\ q \in Part
    BY ModemHas DEF ModemOK
  <1>2. id \notin Ids
    BY IdsAreNumbers
  <1>3. /\ segments' = Append(segments, new)
        /\ names' = [names EXCEPT ![q] = id]
        /\ modem' = [modem EXCEPT !.pc = "size", !.has[q] = id]
    BY <1>1, <1>2 DEF Ids
  <1>4. new \in Segment
    BY DEF Segment, TypeOK
  <1>5. /\ SegmentsStay
        /\ segments' \in Seq(Segment)
        /\ id \in Ids' /\ id \notin Ids
        /\ segments'[id] = new
        /\ Ids' = Ids \union {id}
    BY <1>3, <1>4, AppendStays
  <1>6. id # None
    BY <1>5, IdsAreNumbers DEF None
  <1>7. TypeOK'
    <2>1. names' \in Halves' /\ modem'.has \in Halves'
      BY <1>1, <1>3, <1>5 DEF TypeOK, Halves
    <2>2. \A s \in Ids' : segments'[s].of <= starts'
      <3>1. segments'[id].of <= starts'
        BY <1>5 DEF TypeOK
      <3>2. \A s \in Ids : segments'[s].of <= starts'
        BY <1>5 DEF TypeOK, SegmentsStay
      <3>. QED
        BY <1>5, <3>1, <3>2
    <2>3. progs' \in [Programs -> [pc : {"off", "open", "check", "attached", "crashed"},
                                   part : Part, has : Halves', from : Nat,
                                   settled : BOOLEAN, early : BOOLEAN]]
      BY <1>5 DEF TypeOK, Halves
    <2>. QED
      BY <1>1, <1>3, <1>5, <2>1, <2>2, <2>3 DEF TypeOK
  <1>8. ModemOK'
    <2>1. modem'.pc = "size" /\ modem'.part = q
      BY <1>3 DEF TypeOK
    <2>2. modem'.has[q] = id /\ names'[q] = id
      BY <1>1, <1>3 DEF TypeOK, Halves
    <2>3. \A r \in Part \ {q} : modem'.has[r] = modem.has[r] /\ names'[r] = names[r]
      BY <1>1, <1>3 DEF TypeOK, Halves
    <2>4. \A r \in Part : modem'.has[r] # None => segments'[modem'.has[r]].of = starts'
      <3>1. segments'[modem'.has[q]].of = starts'
        BY <1>5, <2>2
      <3>2. ASSUME NEW r \in Part \ {q}, modem.has[r] # None
            PROVE  segments'[modem.has[r]].of = starts'
        <4>1. modem.has[r] \in Ids /\ segments[modem.has[r]].of = starts
          BY <3>2, ModemHas DEF ModemOK
        <4>. QED
          BY <1>5, <4>1 DEF SegmentsStay
      <3>. QED
        BY <2>3, <3>1, <3>2
    <2>5. q = "-2" => Made("-1")'
      BY <1>5, <2>1, <2>3, ModemHas DEF ModemOK, Made, SegmentsStay
    <2>. QED
      BY <1>6, <2>1, <2>2, <2>4, <2>5 DEF ModemOK
  <1>9. FinishedOK' /\ ProgsOK'
    BY <1>5, ModemLeavesProgs DEF FinishedOK
  <1>. QED
    BY <1>7, <1>8, <1>9

\* The modem changes one of its own segments and goes on; the names stay.
LEMMA ModemChangesOwn ==
    ASSUME Inv, NEW id \in Ids, NEW s \in Segment,
           segments' = [segments EXCEPT ![id] = s],
           s.of = segments[id].of,
           segments[id].sized => s.sized,
           segments[id].max => s.max,
           segments[id].mutex => s.mutex,
           modem' \in [pc : {"unlink", "max", "mutex", "reset", "check"},
                       part : Part, has : {modem.has}],
           ~finished, UNCHANGED <<names, progs, starts, finished>>
    PROVE  TypeOK' /\ FinishedOK' /\ ProgsOK'
  <1>. USE DEF Inv
  <1>1. /\ SegmentsStay
        /\ segments' \in Seq(Segment)
        /\ Ids' = Ids
    BY ChangeStays
  <1>2. TypeOK'
    <2>1. \A r \in Ids' : segments'[r].of <= starts'
      BY <1>1 DEF TypeOK, SegmentsStay
    <2>. QED
      BY <1>1, <2>1 DEF TypeOK, Halves
  <1>3. FinishedOK' /\ ProgsOK'
    BY <1>1, ModemLeavesProgs DEF FinishedOK
  <1>. QED
    BY <1>2, <1>3

LEMMA TruncateKeepsInv ==
    ASSUME Inv, Truncate
    PROVE  Inv'
  <1>. USE DEF Inv, Truncate, ModemAt
  <1>. DEFINE q == modem.part
              id == modem.has[q]
              s == [segments[id] EXCEPT !.sized = TRUE]
  <1>1. id \in Ids /\ names[q] = id /\ q \in Part /\ id # None
    BY ModemHas, IdsAreNumbers DEF ModemOK
  <1>2. segments[id] \in Segment /\ s \in Segment
    BY <1>1, IdsAreNumbers DEF Segment
  <1>3. segments' = [segments EXCEPT ![id] = s]
    BY <1>1 DEF Sized
  <1>4. /\ s.of = segments[id].of /\ s.max = segments[id].max
        /\ s.mutex = segments[id].mutex /\ s.sized
    BY <1>2 DEF Segment
  <1>5. /\ modem'.pc = (IF q = "-1" THEN "unlink" ELSE "max")
        /\ modem'.part = "-2" /\ modem'.has = modem.has
        /\ modem' \in [pc : {"unlink", "max", "mutex", "reset", "check"},
                       part : Part, has : {modem.has}]
    BY DEF TypeOK, Part
  <1>6. ~finished
    BY DEF FinishedOK
  <1>7. TypeOK' /\ FinishedOK' /\ ProgsOK'
    BY <1>1, <1>2, <1>3, <1>4, <1>5, <1>6, ModemChangesOwn, ZenonT(30)
  <1>8. SegmentsStay /\ segments'[id] = s
    BY <1>1, <1>2, <1>3, <1>4, ChangeStays, ZenonT(30)
  <1>9. ModemOK'
    <2>1. \A r \in Part : modem.has[r] # None => segments'[modem.has[r]].of = starts
      BY <1>8, ModemHas DEF ModemOK, SegmentsStay
    <2>2. PICK r \in Part : r = q
      BY <1>1
    <2>3. Made(r)'
      BY <1>1, <1>4, <1>5, <1>8, <2>2, ZenonT(30) DEF Made
    <2>4. r = "-2" => Made("-1")'
      <3>1. ASSUME r = "-2"
            PROVE  Made("-1") /\ modem.has["-1"] \in Ids
        BY <2>2, <3>1, ModemHas DEF ModemOK, Made
      <3>. QED
        BY <1>5, <1>8, <3>1 DEF Made, SegmentsStay
    <2>. QED
      BY <1>5, <2>1, <2>2, <2>3, <2>4, ModemHas DEF ModemOK
  <1>. QED
    BY <1>7, <1>9

\* The modem has both halves; it completes the state and goes on.
LEMMA ModemChangesState ==
    ASSUME Inv, NEW s \in Segment, NEW next \in {"mutex", "reset", "check"},
           modem.pc \in {"max", "mutex", "reset"},
           modem' = [modem EXCEPT !.pc = next],
           segments' = [segments EXCEPT ![OwnState] = s],
           s.of = segments[OwnState].of,
           s.sized = segments[OwnState].sized,
           s.max,
           segments[OwnState].mutex => s.mutex,
           next # "mutex" => s.mutex,
           UNCHANGED <<names, progs, starts, finished>>
    PROVE  Inv'
  <1>. USE DEF Inv
  <1>1. OwnState \in Ids
    BY ModemHas DEF ModemOK, Made, OwnState
  <1>2. /\ modem'.pc = next /\ modem'.part = modem.part /\ modem'.has = modem.has
        /\ modem' \in [pc : {"unlink", "max", "mutex", "reset", "check"},
                       part : Part, has : {modem.has}]
    BY DEF TypeOK
  <1>3. ~finished
    BY DEF FinishedOK
  <1>4. segments[OwnState] \in Segment
    BY <1>1, IdsAreNumbers
  <1>5. TypeOK' /\ FinishedOK' /\ ProgsOK'
    BY <1>1, <1>2, <1>3, ModemChangesOwn
  <1>6. SegmentsStay /\ segments'[OwnState] = s
    BY <1>1, ChangeStays
  <1>7. ModemOK'
    <2>1. \A r \in Part : modem.has[r] # None => segments'[modem.has[r]].of = starts
      BY <1>6, ModemHas DEF ModemOK, SegmentsStay
    <2>2. Made("-1") /\ Made("-2") /\ modem.has["-1"] \in Ids /\ modem.has["-2"] \in Ids
      BY ModemHas DEF ModemOK, Made
    <2>3. Made("-1")' /\ Made("-2")'
      BY <1>2, <1>6, <2>2 DEF Made, SegmentsStay
    <2>4. OwnState' = OwnState
      BY <1>2 DEF OwnState
    <2>. QED
      BY <1>2, <1>6, <2>1, <2>3, <2>4 DEF ModemOK
  <1>. QED
    BY <1>5, <1>7

LEMMA StateStepsKeepInv ==
    ASSUME Inv, SetMax \/ InitMutex \/ Reset
    PROVE  Inv'
  <1>. USE DEF Inv, ModemAt, ModemTo, SetState
  <1>1. modem.pc \in {"max", "mutex", "reset"}
    BY DEF SetMax, InitMutex, Reset
  <1>2. OwnState \in Ids
    BY <1>1, ModemHas DEF ModemOK, Made, OwnState
  <1>3. segments[OwnState] \in Segment
    BY <1>2, IdsAreNumbers
  <1>4. CASE SetMax
    <2>. DEFINE s == [segments[OwnState] EXCEPT !.max = TRUE]
    <2>1. s \in Segment /\ s.max /\ s.of = segments[OwnState].of
          /\ s.sized = segments[OwnState].sized /\ s.mutex = segments[OwnState].mutex
      BY <1>3 DEF Segment
    <2>2. segments' = [segments EXCEPT ![OwnState] = s]
      BY <1>4 DEF SetMax
    <2>. QED
      BY <1>1, <1>4, <2>1, <2>2, ModemChangesState DEF SetMax
  <1>5. CASE InitMutex
    <2>. DEFINE s == [segments[OwnState] EXCEPT !.mutex = TRUE]
    <2>1. s \in Segment /\ s.mutex /\ s.of = segments[OwnState].of
          /\ s.sized = segments[OwnState].sized /\ s.max = segments[OwnState].max
      BY <1>3 DEF Segment
    <2>2. segments[OwnState].max
      BY <1>5 DEF InitMutex, ModemOK
    <2>3. segments' = [segments EXCEPT ![OwnState] = s]
      BY <1>5 DEF InitMutex
    <2>. QED
      BY <1>1, <1>5, <2>1, <2>2, <2>3, ModemChangesState DEF InitMutex
  <1>6. CASE Reset
    <2>. DEFINE s == [segments[OwnState] EXCEPT !.empty = TRUE]
    <2>1. s \in Segment /\ s.of = segments[OwnState].of
          /\ s.sized = segments[OwnState].sized /\ s.max = segments[OwnState].max
          /\ s.mutex = segments[OwnState].mutex
      BY <1>3 DEF Segment
    <2>2. segments[OwnState].max /\ segments[OwnState].mutex
      BY <1>6 DEF Reset, ModemOK
    <2>3. segments' = [segments EXCEPT ![OwnState] = s]
      BY <1>6 DEF Reset
    <2>. QED
      BY <1>1, <1>6, <2>1, <2>2, <2>3, ModemChangesState DEF Reset
  <1>. QED
    BY <1>4, <1>5, <1>6

\* The start has succeeded, and what has the names is ready.
LEMMA CheckEmptyKeepsInv ==
    ASSUME Inv, CheckEmpty
    PROVE  Inv'
  <1>. USE DEF Inv, CheckEmpty, ModemAt, ModemTo
  <1>1. SegmentsStay /\ Ids' = Ids
    BY SameStays
  <1>2. Made("-1") /\ Made("-2") /\ segments[OwnState].max /\ segments[OwnState].mutex
    BY DEF ModemOK
  <1>3. CASE segments[OwnState].empty
    <2>1. TypeOK'
      <3>1. finished' \in BOOLEAN
        BY <1>3, Zenon
      <3>. QED
        BY <1>1, <1>3, <3>1 DEF TypeOK, Halves
    <2>2. modem'.pc = "serves" /\ modem'.has = modem.has /\ modem'.part = modem.part
      BY <1>3 DEF TypeOK
    <2>3. ModemOK'
      BY <1>2, <2>2 DEF ModemOK, Made, OwnState
    <2>4. FinishedOK'
      BY <1>2, <2>2, ModemHas DEF FinishedOK, Ready, Made, OwnState, ModemOK
    <2>5. ProgsOK'
      BY <1>1, <1>3, ModemLeavesProgs
    <2>. QED
      BY <2>1, <2>3, <2>4, <2>5
  <1>4. CASE ~segments[OwnState].empty
    <2>1. TypeOK'
      BY <1>1, <1>4 DEF TypeOK, Halves
    <2>2. modem'.pc = "aborted" /\ modem'.has = modem.has /\ modem'.part = modem.part
      BY <1>4 DEF TypeOK
    <2>3. ModemOK'
      BY <2>2 DEF ModemOK
    <2>4. ~finished /\ ~finished'
      BY <1>4 DEF FinishedOK
    <2>5. FinishedOK' /\ ProgsOK'
      BY <1>1, <1>4, <2>4, ModemLeavesProgs DEF FinishedOK
    <2>. QED
      BY <2>1, <2>3, <2>5
  <1>. QED
    BY <1>3, <1>4

LEMMA DestroyKeepsInv ==
    ASSUME Inv, Destroy
    PROVE  Inv'
  <1>. USE DEF Inv, ModemAt
  <1>1. SegmentsStay /\ Ids' = Ids /\ UNCHANGED <<segments, progs, starts, finished>>
    BY SameStays DEF Destroy
  <1>2. PICK r \in Part : names' = [names EXCEPT ![r] = None]
    BY DEF Destroy, Part
  <1>3. CASE modem.pc = "serves"
    <2>1. modem' = [modem EXCEPT !.pc = "destroy", !.part = "-1"]
      BY <1>3 DEF Destroy
    <2>2. modem'.pc = "destroy" /\ modem'.has = modem.has /\ modem'.part = "-1"
      BY <2>1 DEF TypeOK
    <2>3. TypeOK'
      BY <1>1, <1>2, <2>1 DEF TypeOK, Halves, Part
    <2>4. ModemOK'
      BY <1>1, <2>2 DEF ModemOK
    <2>5. FinishedOK'
      BY <1>1, <1>2, <2>2 DEF FinishedOK, Ready, TypeOK, Halves
    <2>. QED
      BY <1>1, <2>3, <2>4, <2>5, ModemLeavesProgs
  <1>4. CASE modem.pc = "destroy"
    <2>1. modem' = ModemOff
      BY <1>4 DEF Destroy
    <2>2. ModemOff \in [pc : {"off"}, part : Part, has : Halves]
      BY DEF ModemOff, Nothing, Halves, Part
    <2>3. TypeOK'
      BY <1>1, <1>2, <2>1, <2>2 DEF TypeOK, Halves
    <2>4. ModemOK'
      BY <2>1 DEF ModemOK, ModemOff, Nothing
    <2>5. FinishedOK'
      BY <1>1, <1>2, <2>1 DEF FinishedOK, Ready, TypeOK, Halves, ModemOff
    <2>. QED
      BY <1>1, <2>3, <2>4, <2>5, ModemLeavesProgs
  <1>. QED
    BY <1>3, <1>4 DEF Destroy

LEMMA DiesKeepsInv ==
    ASSUME Inv, Dies
    PROVE  Inv'
  <1>. USE DEF Inv, Dies, ModemAt
  <1>1. SegmentsStay /\ Ids' = Ids
    BY SameStays
  <1>2. ModemOff \in [pc : {"off"}, part : Part, has : Halves]
    BY DEF ModemOff, Nothing, Halves, Part
  <1>3. TypeOK'
    BY <1>1, <1>2 DEF TypeOK, Halves
  <1>4. ModemOK'
    BY DEF ModemOK, ModemOff, Nothing
  <1>5. FinishedOK'
    BY <1>1 DEF FinishedOK, Ready, ModemOff
  <1>6. ProgsOK'
    BY <1>1, ModemLeavesProgs
  <1>. QED
    BY <1>3, <1>4, <1>5, <1>6

-----------------------------------------------------------------------------
(***************************************************************************)
(* The programs.                                                           *)
(***************************************************************************)

\* A step of one program that keeps its own part of the invariant keeps all
\* of it; of the segments it changes at most whether one is empty.
LEMMA ProgStepKeepsInv ==
    ASSUME Inv, SegmentsStay, segments' \in Seq(Segment), Ids' = Ids,
           \A id \in Ids : segments'[id].sized = segments[id].sized,
           UNCHANGED <<names, modem, starts, finished>>,
           NEW p \in Programs,
           NEW r \in [pc : {"off", "open", "check", "attached", "crashed"},
                      part : Part, has : Halves, from : Nat,
                      settled : BOOLEAN, early : BOOLEAN],
           progs' = [progs EXCEPT ![p] = r],
           ProgOK(p)'
    PROVE  Inv'
  <1>. USE DEF Inv
  <1>1. \A q \in Programs \ {p} : ProgOK(q)'
    <2>. TAKE q \in Programs \ {p}
    <2>1. progs'[q] = progs[q]
      BY DEF TypeOK
    <2>. QED
      BY <2>1, ProgStays
  <1>2. ProgsOK'
    BY <1>1 DEF ProgsOK
  <1>3. TypeOK'
    <2>1. \A id \in Ids' : segments'[id].of <= starts'
      BY DEF TypeOK, SegmentsStay
    <2>2. Halves' = Halves
      BY DEF Halves
    <2>. QED
      BY <2>1, <2>2 DEF TypeOK
  <1>4. ModemOK'
    <2>1. \A q \in Part : modem.has[q] # None => segments'[modem.has[q]].of = starts
      BY ModemHas DEF ModemOK, SegmentsStay
    <2>2. \A q \in Part : Made(q) => Made(q)'
      BY ModemHas DEF Made, SegmentsStay
    <2>3. Made("-2") => OwnState \in Ids
      BY ModemHas DEF Made, OwnState
    <2>4. OwnState' = OwnState
      BY DEF OwnState
    <2>5. OwnState \in Ids =>
              /\ segments[OwnState].max => segments'[OwnState].max
              /\ segments[OwnState].mutex => segments'[OwnState].mutex
      BY DEF SegmentsStay
    <2>6. "-1" \in Part /\ "-2" \in Part
      BY DEF Part
    <2>. QED
      BY <2>1, <2>2, <2>3, <2>4, <2>5, <2>6 DEF ModemOK
  <1>5. FinishedOK'
    <2>1. ASSUME finished, NEW q \in Part, names[q] # None
          PROVE  Ready(q, names[q])'
      <3>1. Ready(q, names[q]) /\ names[q] \in Ids
        BY <2>1, ModemHas DEF FinishedOK
      <3>. QED
        BY <3>1 DEF Ready, SegmentsStay
    <2>. QED
      BY <2>1 DEF FinishedOK
  <1>. QED
    BY <1>2, <1>3, <1>4, <1>5

LEMMA ProgOffOK ==
    ASSUME Inv
    PROVE  ProgOff \in [pc : {"off", "open", "check", "attached", "crashed"},
                        part : Part, has : Halves, from : Nat,
                        settled : BOOLEAN, early : BOOLEAN]
  BY DEF ProgOff, Nothing, Halves, Part

\* A program that ends has nothing left that could be wrong.
LEMMA EndsKeepsInv ==
    ASSUME Inv, NEW p \in Programs, ProgEnds(p),
           UNCHANGED <<names, segments, modem, starts, finished>>
    PROVE  Inv'
  <1>. USE DEF Inv
  <1>1. SegmentsStay /\ Ids' = Ids /\ segments' \in Seq(Segment)
    BY SameStays DEF TypeOK
  <1>2. progs'[p] = ProgOff
    BY DEF ProgEnds, TypeOK
  <1>3. ProgOK(p)'
    BY <1>2 DEF ProgOK, ProgOff, Nothing, Clean, TypeOK
  <1>. QED
    BY <1>1, <1>3, ProgOffOK, ProgStepKeepsInv DEF ProgEnds

LEMMA BeginKeepsInv ==
    ASSUME Inv, NEW p \in Programs, Begin(p)
    PROVE  Inv'
  <1>. USE DEF Inv, Begin
  <1>. DEFINE r == [progs[p] EXCEPT !.pc = "open", !.from = starts, !.settled = finished]
  <1>1. SegmentsStay /\ Ids' = Ids /\ segments' \in Seq(Segment)
    BY SameStays DEF TypeOK
  <1>2. progs[p] = ProgOff
    BY DEF ProgsOK, ProgOK
  <1>3. /\ r.pc = "open" /\ r.part = "-1" /\ r.has = Nothing
        /\ r.from = starts /\ r.settled = finished /\ r.early = FALSE
    BY <1>2 DEF ProgOff
  <1>4. progs' = [progs EXCEPT ![p] = r] /\ progs'[p] = r
    BY DEF TypeOK
  <1>5. r \in [pc : {"off", "open", "check", "attached", "crashed"},
               part : Part, has : Halves, from : Nat,
               settled : BOOLEAN, early : BOOLEAN]
    BY DEF TypeOK
  <1>6. ProgOK(p)'
    BY <1>3, <1>4 DEF ProgOK, Clean, Nothing, TypeOK
  <1>. QED
    BY <1>1, <1>4, <1>5, <1>6, ProgStepKeepsInv

\* What has a name while no start is under way is ready.
LEMMA OpenKeepsInv ==
    ASSUME Inv, NEW p \in Programs, Open(p)
    PROVE  Inv'
  <1>. USE DEF Inv, Open
  <1>. DEFINE q == progs[p].part
  <1>1. CASE names[q] = None
    BY <1>1, EndsKeepsInv
  <1>2. CASE names[q] # None
    <2>. DEFINE r == [progs[p] EXCEPT !.has[q] = names[q], !.part = "-2",
                                      !.pc = IF q = "-1" THEN "open" ELSE "check"]
    <2>1. SegmentsStay /\ Ids' = Ids /\ segments' \in Seq(Segment)
      BY SameStays DEF TypeOK
    <2>2. progs' = [progs EXCEPT ![p] = r] /\ progs'[p] = r
      BY <1>2 DEF TypeOK
    <2>3. q \in Part /\ names[q] \in Ids
      BY <1>2, ModemHas DEF TypeOK
    <2>4. r \in [pc : {"off", "open", "check", "attached", "crashed"},
                 part : Part, has : Halves, from : Nat,
                 settled : BOOLEAN, early : BOOLEAN]
      <3>1. [progs[p].has EXCEPT ![q] = names[q]] \in Halves
        BY <2>3 DEF TypeOK, Halves
      <3>. QED
        BY <3>1, ZenonT(30) DEF TypeOK, Part
    <2>5. /\ r.pc = (IF q = "-1" THEN "open" ELSE "check") /\ r.part = "-2"
          /\ r.from = progs[p].from /\ r.settled = progs[p].settled
          /\ r.early = progs[p].early
          /\ r.has[q] = names[q]
          /\ \A h \in Part \ {q} : r.has[h] = progs[p].has[h]
      BY <2>3 DEF TypeOK, Halves
    <2>6. ~progs[p].early
      BY DEF ProgsOK, ProgOK
    <2>7. Clean(p)' => Clean(p)
      BY <2>2, <2>5 DEF Clean
    <2>8. ASSUME Clean(p), NEW h \in Part, r.has[h] # None
          PROVE  Ready(h, r.has[h])
      <3>1. CASE h = q
        BY <1>2, <2>5, <2>8, <3>1 DEF ProgsOK, ProgOK, FinishedOK
      <3>2. CASE h # q
        BY <2>5, <2>8, <3>2 DEF ProgsOK, ProgOK
      <3>. QED
        BY <3>1, <3>2
    <2>9. r.pc = "check" => \A h \in Part : r.has[h] # None
      BY <1>2, <2>3, <2>5 DEF ProgsOK, ProgOK, Part
    <2>10. r.pc = "open" => r.has["-1"] # None
      BY <1>2, <2>5, SMTT(30)
    <2>11. ProgOK(p)'
      <3>1. UNCHANGED <<segments, starts, finished>> /\ ProgOK(p)
        BY DEF ProgsOK
      <3>2. progs[p].pc = "open"
        OBVIOUS
      <3>. HIDE DEF r, q, Inv, Open
      <3>3. PICK s : s = r
        OBVIOUS
      <3>4. progs'[p] = s
        BY <2>2, <3>3
      <3>5. /\ s.pc \in {"open", "check"} /\ s.from = progs[p].from /\ ~s.early
            /\ s.pc = "check" => \A h \in Part : s.has[h] # None
            /\ s.pc = "open" => s.has["-1"] # None
        BY <2>5, <2>6, <2>9, <2>10, <3>3
      <3>6. ASSUME Clean(p)', NEW h \in Part, s.has[h] # None
            PROVE  Ready(h, s.has[h])
        BY <2>7, <2>8, <3>3, <3>6
      <3>7. Clean(p)' => finished'
        BY <2>7, <3>1 DEF ProgOK
      <3>. QED
        BY <3>1, <3>4, <3>5, <3>6, <3>7 DEF ProgOK, Ready
    <2>. QED
      BY <2>1, <2>2, <2>4, <2>11, ProgStepKeepsInv
  <1>. QED
    BY <1>1, <1>2

\* A program goes on to another place with the halves it has.
LEMMA ProgGoesOn ==
    ASSUME Inv, NEW p \in Programs, NEW place \in {"attached", "crashed"},
           ProgTo(p, place),
           progs[p].pc \in {"check", "attached"},
           place = "crashed" => ~Clean(p) /\ (progs[p].early => progs[p].pc = "attached"),
           UNCHANGED <<names, segments, modem, starts, finished>>
    PROVE  Inv'
  <1>. USE DEF Inv
  <1>. DEFINE r == [progs[p] EXCEPT !.pc = place]
  <1>1. SegmentsStay /\ Ids' = Ids /\ segments' \in Seq(Segment)
    BY SameStays DEF TypeOK
  <1>2. progs' = [progs EXCEPT ![p] = r] /\ progs'[p] = r
    BY DEF ProgTo, TypeOK
  <1>3. r \in [pc : {"off", "open", "check", "attached", "crashed"},
               part : Part, has : Halves, from : Nat,
               settled : BOOLEAN, early : BOOLEAN]
    BY DEF TypeOK
  <1>4. /\ r.pc = place /\ r.part = progs[p].part /\ r.has = progs[p].has
        /\ r.from = progs[p].from /\ r.settled = progs[p].settled
        /\ r.early = progs[p].early
    BY DEF TypeOK
  <1>5. Clean(p)' => Clean(p)
    BY <1>2, <1>4 DEF Clean
  <1>6. ProgOK(p)
    BY DEF ProgsOK
  <1>7. ProgOK(p)'
    BY <1>2, <1>4, <1>5, <1>6 DEF ProgOK, Ready
  <1>. QED
    BY <1>1, <1>2, <1>3, <1>7, ProgStepKeepsInv

LEMMA CheckMaxKeepsInv ==
    ASSUME Inv, NEW p \in Programs, CheckMax(p)
    PROVE  Inv'
  <1>. USE DEF Inv, CheckMax
  <1>1. ProgOK(p) /\ "-2" \in Part
    BY DEF ProgsOK, Part
  <1>. DEFINE state == segments[progs[p].has["-2"]]
              place == IF state.sized /\ state.max THEN "attached" ELSE "crashed"
  <1>2. Clean(p) => Ready("-2", progs[p].has["-2"])
    BY <1>1 DEF ProgOK
  <1>3. place = "crashed" => ~Clean(p)
    BY <1>2 DEF Ready
  <1>4. ~progs[p].early
    BY <1>1 DEF ProgOK
  <1>5. place \in {"attached", "crashed"} /\ ProgTo(p, place)
    OBVIOUS
  <1>. QED
    BY <1>3, <1>4, <1>5, ProgGoesOn

LEMMA UseKeepsInv ==
    ASSUME Inv, NEW p \in Programs, Use(p)
    PROVE  Inv'
  <1>. USE DEF Inv, Use
  <1>1. /\ ProgOK(p) /\ "-1" \in Part /\ "-2" \in Part
        /\ progs[p].has["-1"] \in Ids /\ progs[p].has["-2"] \in Ids
    BY DEF ProgsOK, ProgOK, Part, TypeOK, Halves
  <1>2. CASE segments[progs[p].has["-1"]].sized
    <2>. DEFINE id == progs[p].has["-2"]
    <2>1. PICK e \in BOOLEAN : segments' = [segments EXCEPT ![id].empty = e]
      BY <1>2
    <2>. DEFINE s == [segments[id] EXCEPT !.empty = e]
    <2>2. segments[id] \in Segment
      BY <1>1, IdsAreNumbers
    <2>3. /\ s \in Segment /\ s.of = segments[id].of /\ s.sized = segments[id].sized
          /\ s.max = segments[id].max /\ s.mutex = segments[id].mutex
      BY <2>2 DEF Segment
    <2>4. segments' = [segments EXCEPT ![id] = s]
      BY <2>1
    <2>5. SegmentsStay /\ segments' \in Seq(Segment) /\ Ids' = Ids /\ segments'[id] = s
      BY <1>1, <2>3, <2>4, ChangeStays, ZenonT(30)
    <2>6. \A k \in Ids : segments'[k].sized = segments[k].sized
      BY <2>3, <2>4, <2>5, IdsAreNumbers DEF Ids, TypeOK
    <2>7. progs'[p] = progs[p] /\ progs' = [progs EXCEPT ![p] = progs[p]]
      BY <1>2 DEF TypeOK
    <2>8. ProgOK(p)'
      BY <1>2, <2>5, <2>7, ProgStays
    <2>9. progs[p] \in [pc : {"off", "open", "check", "attached", "crashed"},
                        part : Part, has : Halves, from : Nat,
                        settled : BOOLEAN, early : BOOLEAN]
      BY DEF TypeOK
    <2>. QED
      BY <2>5, <2>6, <2>7, <2>8, <2>9, ProgStepKeepsInv
  <1>3. CASE ~segments[progs[p].has["-1"]].sized
    <2>1. ~Clean(p)
      BY <1>1, <1>3 DEF ProgOK, Ready
    <2>. QED
      BY <1>3, <2>1, ProgGoesOn
  <1>. QED
    BY <1>2, <1>3

-----------------------------------------------------------------------------
(***************************************************************************)
(* The theorems.                                                           *)
(***************************************************************************)

LEMMA Invariance == Spec => []Inv
  <1>1. Init => Inv
    <2>. SUFFICES ASSUME Init PROVE Inv
      OBVIOUS
    <2>. USE DEF Init
    <2>1. segments \in Seq(Segment) /\ Ids = {}
      BY DEF Ids
    <2>2. Nothing \in Halves
      BY DEF Nothing, Halves
    <2>3. TypeOK
      BY <2>1, <2>2 DEF TypeOK, ModemOff, ProgOff, Part
    <2>4. ModemOK /\ FinishedOK
      BY DEF ModemOK, FinishedOK, ModemOff, Nothing
    <2>5. ASSUME NEW p \in Programs
          PROVE  ProgOK(p)
      <3>1. /\ progs[p] = ProgOff
            /\ progs[p].pc = "off" /\ progs[p].from = 0
            /\ progs[p].settled = FALSE /\ progs[p].early = FALSE
        BY DEF ProgOff
      <3>. QED
        BY <3>1 DEF ProgOK, Clean
    <2>. QED
      BY <2>3, <2>4, <2>5 DEF Inv, ProgsOK
  <1>2. Inv /\ [Next]_vars => Inv'
    <2>. SUFFICES ASSUME Inv, [Next]_vars PROVE Inv'
      OBVIOUS
    <2>1. CASE Start \/ Unlink \/ Create \/ Truncate
      BY <2>1, StartKeepsInv, UnlinkKeepsInv, CreateKeepsInv, TruncateKeepsInv
    <2>2. CASE SetMax \/ InitMutex \/ Reset \/ CheckEmpty
      BY <2>2, StateStepsKeepInv, CheckEmptyKeepsInv
    <2>3. CASE Destroy \/ Dies
      BY <2>3, DestroyKeepsInv, DiesKeepsInv
    <2>4. ASSUME NEW p \in Programs,
                 Begin(p) \/ Open(p) \/ CheckMax(p) \/ Use(p) \/ End(p)
          PROVE  Inv'
      <3>1. CASE End(p)
        BY <3>1, EndsKeepsInv DEF End
      <3>. QED
        BY <2>4, <3>1, BeginKeepsInv, OpenKeepsInv, CheckMaxKeepsInv, UseKeepsInv
    <2>5. CASE UNCHANGED vars
      BY <2>5 DEF vars, Inv, TypeOK, Segment, Halves, Ids, ModemOK, Made, OwnState,
                  FinishedOK, Ready, ProgsOK, ProgOK, Clean
    <2>. QED
      BY <2>1, <2>2, <2>3, <2>4, <2>5 DEF Next
  <1>. QED
    BY <1>1, <1>2, PTL DEF Spec

\* However the modem dies and wherever other starts have been cut off, a
\* program that connects while no start is under way gets both halves of the
\* last ring, ready for use, or none.
THEOREM CleanConnectsWork == Spec => []CleanConnectWorks
  <1>1. Inv => CleanConnectWorks
    <2>. SUFFICES ASSUME Inv, NEW p \in Programs, Clean(p)
                  PROVE  /\ progs[p].pc # "crashed"
                         /\ progs[p].pc = "attached" =>
                                \A q \in Part : Ready(q, progs[p].has[q])
      BY DEF CleanConnectWorks, Ready
    <2>. QED
      BY DEF Inv, ProgsOK, ProgOK
  <1>. QED
    BY <1>1, Invariance, PTL

\* Wherever the modem has died before, a start makes a whole ring of its own,
\* and a program that was attached to an earlier one shares no half of it.
THEOREM RestartsMakeNewRings == Spec => []RestartMakesNewRing
  <1>1. Inv => RestartMakesNewRing
    <2>. SUFFICES ASSUME Inv
                  PROVE  RestartMakesNewRing
      OBVIOUS
    <2>1. ASSUME modem.pc = "serves", NEW q \in Part
          PROVE  /\ names[q] = modem.has[q]
                 /\ segments[modem.has[q]].of = starts /\ segments[modem.has[q]].sized
                 /\ q = "-2" => /\ segments[modem.has[q]].max
                                /\ segments[modem.has[q]].mutex
      BY <2>1 DEF Inv, ModemOK, Made, OwnState, Part
    <2>2. ASSUME NEW p \in Programs, progs[p].early, NEW q \in Part
          PROVE  progs[p].has[q] # modem.has[q]
      <3>1. /\ progs[p].has[q] # None /\ segments[progs[p].has[q]].of < starts
            /\ modem.has[q] # None => segments[modem.has[q]].of = starts
            /\ starts \in Nat
        BY <2>2 DEF Inv, ProgsOK, ProgOK, ModemOK, TypeOK
      <3>. QED
        BY <3>1
    <2>. QED
      BY <2>1, <2>2 DEF RestartMakesNewRing, ModemAt
  <1>. QED
    BY <1>1, Invariance, PTL
=============================================================================
