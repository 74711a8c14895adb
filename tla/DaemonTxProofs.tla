--------------------------- MODULE DaemonTxProofs ---------------------------
(***************************************************************************)
(* Theorems about DaemonTx, for any directory, any contents and any        *)
(* bounds that satisfy SizesAssumption and MarksAssumption.                *)
(***************************************************************************)
EXTENDS DaemonTx, WellFoundedInduction, TLAPS

(***************************************************************************)
(* The inductive invariant.                                                *)
(***************************************************************************)

\* An open session is one of a name of the directory, with a counter for each
\* of its blocks, and within its budget.
SessionOK ==
    tx.active =>
        /\ tx.path \in Names
        /\ tx.length \in Good
        /\ tx.next \in SbnOf(tx.length)
        /\ tx.esi \in [SbnOf(tx.length) -> 0 .. MaxEsi + 1]
        /\ tx.limit = FramesLimit(tx.path)
        /\ tx.limit # Unlimited => tx.sent <= tx.limit

\* Where the thread stands says whether a session is open, what the scan has
\* found, and that the budget was looked at.
ControlOK ==
    /\ pc \in {"stat", "budget", "send"} => tx.active
    /\ pc \in {"scan", "statFound", "fopen", "load", "ended"} => ~tx.active
    /\ pc \in {"statFound", "fopen", "load"} => found.path \in Names
    /\ pc = "load" => tx.length \in Good
    /\ pc = "send" => BudgetLeft

-----------------------------------------------------------------------------
(***************************************************************************)
(* What the steps do to the session.                                       *)
(***************************************************************************)

LEMMA Sizes ==
    /\ MaxEsi \in Nat /\ MaxTime \in Nat /\ FramesCap \in Nat
    /\ Unlimited = -1
    /\ \A n \in Names : FramesLimit(n) \in {Unlimited} \union 1 .. FramesCap - 1
    /\ \A c \in Good : Blocks[c] \in Nat \ {0} /\ 0 \in SbnOf(c)
    /\ Good \subseteq Contents /\ Empty \in Contents
    /\ NoFile \notin Names
  <1>1. \A n \in Names : Suffix[n] \in Nat /\ Suffix[n] < FramesCap
    BY SizesAssumption
  <1>2. \A c \in Good : Blocks[c] \in Nat \ {0}
    BY SizesAssumption
  <1>. QED
    BY <1>1, <1>2, SizesAssumption, MarksAssumption
    DEF FramesLimit, Unlimited, SbnOf, Contents

\* strcmp orders the names, so that the scan has a first one to choose.
LEMMA FirstOfSome ==
    ASSUME NEW P \in SUBSET Names, P # {}
    PROVE  First(P) \in P
  <1>1. Names \subseteq Nat
    BY SizesAssumption DEF Names
  <1>2. \E n \in P : \A m \in P : ~(<<m, n>> \in OpToRel(<, Nat))
    BY <1>1, NatLessThanWellFounded, WFMin
  <1>3. PICK n \in P : \A m \in P : ~(<<m, n>> \in OpToRel(<, Nat))
    BY <1>2
  <1>4. ASSUME NEW m \in P PROVE n <= m
    <2>1. m \in Nat /\ n \in Nat
      BY <1>1
    <2>2. ~(<<m, n>> \in {ss \in Nat \X Nat : ss[1] < ss[2]})
      BY <1>3 DEF OpToRel
    <2>3. ~(m < n)
      BY <2>1, <2>2
    <2>. QED
      BY <2>1, <2>3
  <1>. QED
    BY <1>4 DEF First

LEMMA CountersType ==
    ASSUME NEW c \in Good, NEW f \in [SbnOf(c) -> 0 .. MaxEsi + 1]
    PROVE  f \in Counters
  BY DEF Counters

\* What tx_session_reset leaves is a session that is not open.
LEMMA NoSessionType ==
    /\ NoSession \in Session
    /\ NoSession.active = FALSE
    /\ NoSession.path = NoFile
  <1>1. NoSession.esi \in Counters
    BY DEF Counters
  <1>. QED
    BY <1>1, Sizes DEF NoSession, Session

\* A session once opened.
LEMMA LoadOpens ==
    ASSUME TypeOK, ControlOK, Load
    PROVE  /\ tx' \in Session
           /\ tx'.active /\ tx'.path = found.path /\ tx'.mtime = SessionTime
           /\ tx'.limit = FramesLimit(found.path) /\ tx'.sent = 0
           /\ tx'.next = 0 /\ tx'.length = tx.length
           /\ tx'.length \in Good /\ tx'.path \in Names
           /\ tx'.esi = [b \in SbnOf(tx.length) |-> 0]
  <1>1. PICK c \in {tx.length} \union
                   {dir[n].content : n \in {found.path} \cap
                                           {m \in Names : Present(m)}} :
           tx' = [active |-> TRUE, path |-> found.path, mtime |-> SessionTime,
                  limit |-> FramesLimit(found.path), sent |-> 0, next |-> 0,
                  length |-> tx.length, content |-> c,
                  esi |-> [b \in SbnOf(tx.length) |-> 0]]
    BY DEF Load
  <1>2. tx.length \in Good /\ found.path \in Names
    BY DEF Load, ControlOK
  <1>3. c \in Contents
    <2>1. CASE c = tx.length
      BY <1>2, <2>1, Sizes
    <2>2. CASE c # tx.length
      <3>1. PICK n \in Names : Present(n) /\ c = dir[n].content
        BY <1>1, <2>2
      <3>. QED
        BY <3>1 DEF TypeOK, Present
    <2>. QED
      BY <2>1, <2>2
  <1>4. [b \in SbnOf(tx.length) |-> 0] \in [SbnOf(tx.length) -> 0 .. MaxEsi + 1]
    BY Sizes
  <1>5. [b \in SbnOf(tx.length) |-> 0] \in Counters
    BY <1>2, <1>4, CountersType
  <1>6. SessionTime \in 0 .. MaxTime
    BY DEF TypeOK, SessionTime
  <1>7. FramesLimit(found.path) \in {Unlimited} \union 0 .. FramesCap
    BY <1>2, Sizes
  <1>8. tx' \in Session
    BY <1>1, <1>2, <1>3, <1>5, <1>6, <1>7, Sizes DEF Session
  <1>. QED
    BY <1>1, <1>2, <1>8

\* A frame sent: only the counters of the session move.
LEMMA SendMoves ==
    ASSUME TypeOK, SessionOK, ControlOK, SendFrame
    PROVE  /\ tx' \in Session
           /\ tx'.active /\ tx'.path = tx.path /\ tx'.mtime = tx.mtime
           /\ tx'.limit = tx.limit /\ tx'.length = tx.length
           /\ tx'.sent = Saturate(tx.sent)
           /\ tx'.next = NextBlock(tx.next)
           /\ tx'.next \in SbnOf(tx.length)
           /\ tx'.esi = [tx.esi EXCEPT ![tx.next] = EsiToSend(tx.next) + 1]
           /\ tx'.esi \in [SbnOf(tx.length) -> 0 .. MaxEsi + 1]
           /\ EsiToSend(tx.next) \in 0 .. MaxEsi
  <1>1. /\ tx.active /\ tx.path \in Names /\ tx.length \in Good
        /\ tx.next \in SbnOf(tx.length)
        /\ tx.esi \in [SbnOf(tx.length) -> 0 .. MaxEsi + 1]
    BY DEF SendFrame, SessionOK, ControlOK
  <1>2. tx \in Session
    BY DEF TypeOK
  <1>. DEFINE esi == EsiToSend(tx.next)
  <1>3. esi \in 0 .. MaxEsi
    <2>1. tx.esi[tx.next] \in 0 .. MaxEsi + 1
      BY <1>1
    <2>. QED
      BY <2>1, Sizes DEF EsiToSend
  <1>4. NextBlock(tx.next) \in SbnOf(tx.length)
    <2>1. Blocks[tx.length] \in Nat \ {0} /\ tx.next \in Nat
      BY <1>1, Sizes DEF SbnOf
    <2>. DEFINE B == Blocks[tx.length]
    <2>2. (tx.next + 1) % B \in 0 .. B - 1
      <3>. HIDE DEF B
      <3>1. B \in Nat \ {0}
        BY <2>1 DEF B
      <3>. QED
        BY <2>1, <3>1
    <2>. QED
      BY <2>2 DEF NextBlock, SbnOf
  <1>5. tx' = [tx EXCEPT !.next = NextBlock(tx.next), !.esi[tx.next] = esi + 1,
                         !.sent = Saturate(@)]
    BY DEF SendFrame
  <1>. HIDE DEF esi
  <1>6. /\ tx'.active = tx.active /\ tx'.path = tx.path /\ tx'.mtime = tx.mtime
        /\ tx'.limit = tx.limit /\ tx'.length = tx.length
        /\ tx'.content = tx.content
        /\ tx'.sent = Saturate(tx.sent)
        /\ tx'.next = NextBlock(tx.next)
        /\ tx'.esi = [tx.esi EXCEPT ![tx.next] = esi + 1]
    BY <1>2, <1>5 DEF Session
  <1>7. tx'.esi \in [SbnOf(tx.length) -> 0 .. MaxEsi + 1]
    BY <1>1, <1>3, <1>6, Sizes
  <1>8. tx'.esi \in Counters
    BY <1>1, <1>7, CountersType
  <1>9. Saturate(tx.sent) \in 0 .. FramesCap
    BY <1>2, Sizes DEF Session, Saturate
  <1>10. NextBlock(tx.next) \in Nat
    BY <1>4, <1>1, Sizes DEF SbnOf
  <1>11. tx' \in Session
    <2>1. tx' = [active |-> tx.active, path |-> tx.path, mtime |-> tx.mtime,
                 limit |-> tx.limit, sent |-> Saturate(tx.sent),
                 next |-> NextBlock(tx.next), length |-> tx.length,
                 content |-> tx.content,
                 esi |-> [tx.esi EXCEPT ![tx.next] = esi + 1]]
      BY <1>2, <1>5 DEF Session
    <2>. QED
      BY <1>2, <1>6, <1>8, <1>9, <1>10, <2>1 DEF Session
  <1>. QED
    BY <1>1, <1>3, <1>4, <1>6, <1>7, <1>11 DEF esi

-----------------------------------------------------------------------------
(***************************************************************************)
(* Type correctness.                                                       *)
(***************************************************************************)

Inv == TypeOK /\ SessionOK /\ ControlOK

LEMMA InvInit == Init => Inv
  <1>. SUFFICES ASSUME Init PROVE Inv
    OBVIOUS
  <1>1. TypeOK
    <2>1. tx \in Session
      BY NoSessionType DEF Init
    <2>2. /\ dir \in [Names -> [content : Contents, mtime : 0 .. MaxTime]
                               \union {Absent}]
          /\ sent \in [Names -> 0 .. FramesCap]
          /\ mtimes \in [Names -> SUBSET (0 .. MaxTime)]
          /\ shared \subseteq Names
      BY Sizes DEF Init
    <2>. QED
      BY <2>1, <2>2, Sizes DEF Init, TypeOK, Labels
  <1>2. SessionOK /\ ControlOK
    BY NoSessionType DEF Init, SessionOK, ControlOK
  <1>. QED
    BY <1>1, <1>2 DEF Inv

\* Users, clock and signals touch the directory and the flag only.
LEMMA EnvironmentType ==
    ASSUME TypeOK, Environment
    PROVE  /\ dir' \in [Names -> [content : Contents, mtime : 0 .. MaxTime]
                                 \union {Absent}]
           /\ now' \in 0 .. MaxTime
           /\ running' \in BOOLEAN
           /\ sent' \in [Names -> 0 .. FramesCap]
           /\ mtimes' \in [Names -> SUBSET (0 .. MaxTime)]
           /\ shared' \subseteq Names
           /\ UNCHANGED <<pc, found, tx, frame>>
  <1>. DEFINE Files == [content : Contents, mtime : 0 .. MaxTime]
  <1>0. /\ dir \in [Names -> Files \union {Absent}]
        /\ now \in 0 .. MaxTime
        /\ running \in BOOLEAN
        /\ sent \in [Names -> 0 .. FramesCap]
        /\ mtimes \in [Names -> SUBSET (0 .. MaxTime)]
        /\ shared \subseteq Names
    BY DEF TypeOK
  <1>1. ASSUME NEW n \in Names, NEW e \in Files \union {Absent}, Entry(n, e)
        PROVE  /\ dir' \in [Names -> Files \union {Absent}]
               /\ sent' \in [Names -> 0 .. FramesCap]
               /\ mtimes' \in [Names -> SUBSET (0 .. MaxTime)]
               /\ shared' \subseteq Names
               /\ UNCHANGED <<now, running, pc, found, tx, frame>>
    <2>1. dir' \in [Names -> Files \union {Absent}]
      BY <1>0, <1>1 DEF Entry
    <2>2. sent' \in [Names -> 0 .. FramesCap]
      BY <1>0, <1>1, Sizes DEF Entry
    <2>3. shared' \subseteq Names
      BY <1>0, <1>1 DEF Entry
    <2>4. mtimes' \in [Names -> SUBSET (0 .. MaxTime)]
      <3>. DEFINE ts == IF n \in shared' THEN {} ELSE IF e = Absent
                        THEN mtimes[n] ELSE mtimes[n] \union {e.mtime}
      <3>1. ts \in SUBSET (0 .. MaxTime)
        <4>1. e # Absent => e.mtime \in 0 .. MaxTime
          BY <1>1
        <4>. QED
          BY <1>0, <4>1
      <3>2. mtimes' = [mtimes EXCEPT ![n] = ts]
        BY <1>1 DEF Entry
      <3>. HIDE DEF ts
      <3>. QED
        BY <1>0, <3>1, <3>2
    <2>. QED
      BY <1>1, <2>1, <2>2, <2>3, <2>4 DEF Entry
  <1>2. ASSUME NEW n \in Names, NEW e \in Files \union {Absent}, Entry(n, e)
        PROVE  /\ dir' \in [Names -> Files \union {Absent}]
               /\ now' \in 0 .. MaxTime
               /\ running' \in BOOLEAN
               /\ sent' \in [Names -> 0 .. FramesCap]
               /\ mtimes' \in [Names -> SUBSET (0 .. MaxTime)]
               /\ shared' \subseteq Names
               /\ UNCHANGED <<pc, found, tx, frame>>
    BY <1>0, <1>1, <1>2
  <1>3. ASSUME NEW n \in Names, Create(n)
        PROVE  \E e \in Files \union {Absent} : Entry(n, e)
    BY <1>0, <1>3, Sizes DEF Create
  <1>4. ASSUME NEW n \in Names, NEW c \in Contents, Write(n, c)
        PROVE  \E e \in Files \union {Absent} : Entry(n, e)
    BY <1>0, <1>4 DEF Write
  <1>5. ASSUME NEW n \in Names, NEW c \in Contents, NEW t \in 0 .. now,
               MoveIn(n, c, t)
        PROVE  \E e \in Files \union {Absent} : Entry(n, e)
    <2>1. t \in 0 .. MaxTime
      BY <1>0, Sizes
    <2>. QED
      BY <1>5, <2>1 DEF MoveIn
  <1>6. ASSUME NEW n \in Names, Remove(n)
        PROVE  \E e \in Files \union {Absent} : Entry(n, e)
    BY <1>6 DEF Remove
  <1>7. CASE \E n \in Names : \E e \in Files \union {Absent} : Entry(n, e)
    BY <1>2, <1>7
  <1>8. CASE Tick
    BY <1>0, <1>8, Sizes DEF Tick
  <1>9. CASE Stop
    BY <1>0, <1>9 DEF Stop
  <1>. HIDE DEF Files
  <1>10. Tick \/ Stop \/ \E n \in Names : \E e \in Files \union {Absent} : Entry(n, e)
    BY <1>3, <1>4, <1>5, <1>6, Zenon DEF Environment
  <1>. QED
    BY <1>7, <1>8, <1>9, <1>10 DEF Files

\* The steps of the thread that end a session or fail to open one.
Resets == Leave \/ StatGone \/ StatChanged \/ FopenRefused \/ FopenEmpty
          \/ SendFails

\* The steps that only move the thread.
Moves == Top \/ StatUnchanged \/ ScanNothing \/ StatFoundGone \/ Budget
         \/ BudgetUsed

LEMMA ThreadSteps ==
    Next => \/ Environment \/ Moves \/ Resets
            \/ Scan \/ StatFound \/ Fopen \/ Load \/ SendFrame
  BY Zenon DEF Next, Loop, Moves, Resets

LEMMA ResetsReset ==
    ASSUME ControlOK, Resets
    PROVE  /\ tx' = NoSession
           /\ pc' \in {"top", "ended", "crashed"}
           /\ running' \in {running, FALSE}
           /\ UNCHANGED <<diskVars, found, frame, sent>>
  <1>1. CASE FopenEmpty
    BY <1>1 DEF FopenEmpty, OpenFails
  <1>2. CASE Leave \/ StatGone \/ StatChanged \/ FopenRefused \/ SendFails
    BY <1>2 DEF Leave, StatGone, StatChanged, FopenRefused, SendFails,
                OpenFails, Reload
  <1>. QED
    BY <1>1, <1>2 DEF Resets

LEMMA MovesMove ==
    ASSUME ControlOK, Moves
    PROVE  /\ UNCHANGED <<diskVars, running, found, tx, frame, sent>>
           /\ \/ pc' = "top"
              \/ pc' \in {"stat", "budget"} /\ tx.active
              \/ pc' = "scan" /\ ~tx.active
              \/ pc' = "send" /\ tx.active /\ BudgetLeft
  BY DEF Moves, Top, StatUnchanged, ScanNothing, StatFoundGone, Budget,
         BudgetUsed, ControlOK

LEMMA InvStep == Inv /\ [Next]_vars => Inv'
  <1>. SUFFICES ASSUME Inv, [Next]_vars PROVE Inv'
    OBVIOUS
  <1>0. /\ dir \in [Names -> [content : Contents, mtime : 0 .. MaxTime]
                             \union {Absent}]
        /\ now \in 0 .. MaxTime
        /\ running \in BOOLEAN
        /\ pc \in Labels
        /\ found \in [path : Names \union {NoFile}, mtime : 0 .. MaxTime]
        /\ tx \in Session
        /\ frame \in [length : Good, content : Contents, sbn : Nat, esi : Nat]
                     \union {NoFrame}
        /\ sent \in [Names -> 0 .. FramesCap]
        /\ mtimes \in [Names -> SUBSET (0 .. MaxTime)]
        /\ shared \subseteq Names
        /\ TypeOK /\ SessionOK /\ ControlOK
    BY DEF Inv, TypeOK
  <1>1. CASE UNCHANGED vars
    BY <1>0, <1>1
    DEF vars, Inv, TypeOK, SessionOK, ControlOK, BudgetLeft
  <1>2. CASE Environment
    <2>1. UNCHANGED <<pc, found, tx, frame>>
      BY <1>0, <1>2, EnvironmentType
    <2>2. TypeOK'
      BY <1>0, <1>2, EnvironmentType DEF TypeOK
    <2>3. SessionOK' /\ ControlOK'
      BY <1>0, <2>1 DEF SessionOK, ControlOK, BudgetLeft
    <2>. QED
      BY <2>2, <2>3 DEF Inv
  <1>3. CASE Moves
    <2>1. /\ UNCHANGED <<diskVars, running, found, tx, frame, sent>>
          /\ \/ pc' = "top"
             \/ pc' \in {"stat", "budget"} /\ tx.active
             \/ pc' = "scan" /\ ~tx.active
             \/ pc' = "send" /\ tx.active /\ BudgetLeft
      BY <1>0, <1>3, MovesMove
    <2>2. TypeOK'
      BY <1>0, <2>1 DEF TypeOK, diskVars, Labels
    <2>3. SessionOK' /\ ControlOK'
      BY <1>0, <2>1 DEF SessionOK, ControlOK, BudgetLeft
    <2>. QED
      BY <2>2, <2>3 DEF Inv
  <1>4. CASE Resets
    <2>1. /\ tx' = NoSession
          /\ pc' \in {"top", "ended", "crashed"}
          /\ running' \in {running, FALSE}
          /\ UNCHANGED <<diskVars, found, frame, sent>>
      BY <1>0, <1>4, ResetsReset
    <2>2. TypeOK'
      BY <1>0, <2>1, NoSessionType DEF TypeOK, diskVars, Labels
    <2>3. SessionOK' /\ ControlOK'
      BY <2>1, NoSessionType DEF SessionOK, ControlOK
    <2>. QED
      BY <2>2, <2>3 DEF Inv
  <1>5. CASE Scan
    <2>1. First({n \in Names : Present(n)}) \in Names
      <3>1. {n \in Names : Present(n)} # {}
        BY <1>5 DEF Scan
      <3>. QED
        BY <3>1, FirstOfSome
    <2>2. found' = [path |-> First({n \in Names : Present(n)}), mtime |-> 0]
      BY <1>5 DEF Scan
    <2>3. found'.path \in Names /\ found' \in [path : Names \union {NoFile}, mtime : 0 .. MaxTime]
      BY <2>1, <2>2, Sizes
    <2>4. /\ UNCHANGED <<diskVars, running, tx, frame, sent>>
          /\ pc' = "statFound"
      BY <1>5 DEF Scan
    <2>5. TypeOK'
      BY <1>0, <2>3, <2>4 DEF TypeOK, diskVars, Labels
    <2>6. SessionOK' /\ ControlOK'
      BY <1>0, <1>5, <2>3, <2>4 DEF SessionOK, ControlOK, Scan
    <2>. QED
      BY <2>5, <2>6 DEF Inv
  <1>6. CASE StatFound
    <2>1. found.path \in Names /\ Present(found.path) /\ ~tx.active
      BY <1>0, <1>6 DEF StatFound, ControlOK
    <2>2. dir[found.path].mtime \in 0 .. MaxTime
      BY <1>0, <2>1 DEF Present
    <2>3. found' = [found EXCEPT !.mtime = dir[found.path].mtime]
      BY <1>6 DEF StatFound
    <2>4. /\ found'.path \in Names
          /\ found' \in [path : Names \union {NoFile}, mtime : 0 .. MaxTime]
      BY <1>0, <2>1, <2>2, <2>3
    <2>5. UNCHANGED <<diskVars, running, tx, frame, sent>> /\ pc' = "fopen"
      BY <1>6 DEF StatFound
    <2>6. TypeOK'
      BY <1>0, <2>4, <2>5 DEF TypeOK, diskVars, Labels
    <2>7. SessionOK' /\ ControlOK'
      BY <1>0, <2>1, <2>4, <2>5 DEF SessionOK, ControlOK
    <2>. QED
      BY <2>6, <2>7 DEF Inv
  <1>7. CASE Fopen
    <2>1. found.path \in Names
      BY <1>0, <1>7 DEF Fopen, ControlOK
    <2>2. /\ dir[found.path].content \in Good
          /\ tx' = [NoSession EXCEPT !.length = dir[found.path].content]
          /\ UNCHANGED <<diskVars, running, found, frame, sent>>
          /\ pc' = "load"
      BY <1>7 DEF Fopen
    <2>3. /\ tx' \in Session
          /\ tx'.active = FALSE
          /\ tx'.length \in Good
      BY <2>2, NoSessionType, Sizes DEF Session
    <2>4. TypeOK'
      BY <1>0, <2>2, <2>3 DEF TypeOK, diskVars, Labels
    <2>5. SessionOK' /\ ControlOK'
      BY <2>1, <2>2, <2>3 DEF SessionOK, ControlOK
    <2>. QED
      BY <2>4, <2>5 DEF Inv
  <1>8. CASE Load
    <2>1. /\ tx' \in Session
          /\ tx'.active /\ tx'.path = found.path
          /\ tx'.limit = FramesLimit(found.path) /\ tx'.sent = 0
          /\ tx'.next = 0 /\ tx'.length = tx.length
          /\ tx'.length \in Good /\ tx'.path \in Names
          /\ tx'.esi = [b \in SbnOf(tx.length) |-> 0]
      BY <1>0, <1>8, LoadOpens
    <2>2. /\ pc' = "budget"
          /\ UNCHANGED <<diskVars, running, found, frame, sent>>
      BY <1>8 DEF Load
    <2>3. TypeOK'
      BY <1>0, <2>1, <2>2 DEF TypeOK, diskVars, Labels
    <2>4. /\ tx'.esi \in [SbnOf(tx'.length) -> 0 .. MaxEsi + 1]
          /\ tx'.next \in SbnOf(tx'.length)
          /\ tx'.limit # Unlimited => tx'.sent <= tx'.limit
      BY <2>1, Sizes
    <2>5. SessionOK' /\ ControlOK'
      BY <2>1, <2>2, <2>4 DEF SessionOK, ControlOK
    <2>. QED
      BY <2>3, <2>5 DEF Inv
  <1>9. CASE SendFrame
    <2>1. /\ tx.active /\ tx.path \in Names /\ tx.length \in Good
          /\ tx.next \in SbnOf(tx.length) /\ BudgetLeft
          /\ tx.limit = FramesLimit(tx.path)
      BY <1>0, <1>9 DEF SendFrame, SessionOK, ControlOK
    <2>2. /\ tx' \in Session
          /\ tx'.active /\ tx'.path = tx.path
          /\ tx'.limit = tx.limit /\ tx'.length = tx.length
          /\ tx'.sent = Saturate(tx.sent)
          /\ tx'.next \in SbnOf(tx.length)
          /\ tx'.esi \in [SbnOf(tx.length) -> 0 .. MaxEsi + 1]
          /\ EsiToSend(tx.next) \in 0 .. MaxEsi
      BY <1>0, <1>9, SendMoves
    <2>3. /\ frame' = [length |-> tx.length, content |-> tx.content,
                       sbn |-> tx.next, esi |-> EsiToSend(tx.next)]
          /\ sent' = [sent EXCEPT ![tx.path] = Saturate(@)]
          /\ UNCHANGED <<diskVars, running, found>>
          /\ pc' = "top"
      BY <1>9 DEF SendFrame
    <2>4. tx.next \in Nat /\ tx.content \in Contents
      BY <1>0 DEF Session
    <2>5. frame' \in [length : Good, content : Contents, sbn : Nat, esi : Nat]
      BY <2>1, <2>2, <2>3, <2>4, Sizes
    <2>6. sent' \in [Names -> 0 .. FramesCap]
      BY <1>0, <2>1, <2>3, Sizes DEF Saturate
    <2>7. TypeOK'
      BY <1>0, <2>2, <2>3, <2>5, <2>6 DEF TypeOK, diskVars, Labels
    <2>8. tx.limit # Unlimited => tx'.sent <= tx.limit
      <3>1. tx.sent \in 0 .. FramesCap
        BY <1>0 DEF Session
      <3>2. tx.limit \in {Unlimited} \union 1 .. FramesCap - 1
        BY <2>1, Sizes
      <3>. QED
        BY <2>1, <2>2, <3>1, <3>2, Sizes DEF BudgetLeft, Saturate
    <2>9. SessionOK' /\ ControlOK'
      BY <2>1, <2>2, <2>3, <2>8 DEF SessionOK, ControlOK
    <2>. QED
      BY <2>7, <2>9 DEF Inv
  <1>. QED
    BY <1>1, <1>2, <1>3, <1>4, <1>5, <1>6, <1>7, <1>8, <1>9, ThreadSteps

\* All variables of the transmit thread keep their types, whatever happens in
\* the directory; an open session has a length and as many counters as blocks.
THEOREM TypeCorrect == Spec => []TypeOK
  <1>1. Inv => TypeOK
    BY DEF Inv
  <1>. QED
    BY <1>1, InvInit, InvStep, PTL DEF Spec

-----------------------------------------------------------------------------
(***************************************************************************)
(* Frames and the carousel.                                                *)
(***************************************************************************)

LEMMA FrameKept ==
    Next => SendFrame \/ UNCHANGED frame
  <1>. SUFFICES ASSUME Next, ~SendFrame PROVE frame' = frame
    OBVIOUS
  <1>1. CASE Moves \/ Resets
    BY <1>1 DEF Moves, Resets, Top, StatUnchanged, ScanNothing, StatFoundGone,
                Budget, BudgetUsed, Leave, StatGone, StatChanged,
                FopenRefused, FopenEmpty, SendFails
  <1>2. CASE Scan \/ StatFound \/ Fopen \/ Load
    BY <1>2 DEF Scan, StatFound, Fopen, Load
  <1>3. CASE Environment
    BY <1>3 DEF Environment, Create, Write, MoveIn, Remove, Tick, Stop, Entry
  <1>. QED
    BY <1>1, <1>2, <1>3, ThreadSteps

\* Every frame is of a block that the session has, and its ESI is one that
\* the tag can hold and the decoder takes (tx_send_one_frame).
THEOREM FramesFitTheirTags == Spec => []FrameFitsTag
  <1>1. Init => FrameFitsTag
    BY DEF Init, FrameFitsTag
  <1>2. Inv /\ FrameFitsTag /\ [Next]_vars => FrameFitsTag'
    <2>. SUFFICES ASSUME Inv, FrameFitsTag, [Next]_vars
                  PROVE  FrameFitsTag'
      OBVIOUS
    <2>1. CASE UNCHANGED frame
      BY <2>1 DEF FrameFitsTag
    <2>2. CASE SendFrame
      <3>1. frame' = [length |-> tx.length, content |-> tx.content,
                      sbn |-> tx.next, esi |-> EsiToSend(tx.next)]
        BY <2>2 DEF SendFrame
      <3>2. tx.next \in SbnOf(tx.length)
        BY <2>2 DEF SendFrame, Inv, ControlOK, SessionOK
      <3>3. EsiToSend(tx.next) \in 0 .. MaxEsi
        BY <2>2, SendMoves DEF Inv
      <3>4. EsiToSend(tx.next) <= MaxEsi
        BY <3>3, Sizes
      <3>. QED
        BY <3>1, <3>2, <3>4 DEF FrameFitsTag
    <2>. QED
      BY <2>1, <2>2, FrameKept DEF vars
  <1>. QED
    BY <1>1, <1>2, InvInit, InvStep, PTL DEF Spec

\* One turn further around the ESIs, a late wrap included.
LEMMA TurnOn ==
    ASSUME NEW e \in 0 .. MaxEsi + 1
    PROVE  /\ e % (MaxEsi + 1) \in 0 .. MaxEsi
           /\ ((IF e > MaxEsi THEN 0 ELSE e) + 1) % (MaxEsi + 1)
              = ((e % (MaxEsi + 1)) + 1) % (MaxEsi + 1)
  <1>1. MaxEsi \in Nat
    BY Sizes
  <1>2. CASE e <= MaxEsi
    <2>1. e % (MaxEsi + 1) = e
      BY <1>1, <1>2
    <2>. QED
      BY <1>1, <1>2, <2>1
  <1>3. CASE e > MaxEsi
    <2>1. e = MaxEsi + 1
      BY <1>1, <1>3
    <2>2. (MaxEsi + 1) % (MaxEsi + 1) = 0
      BY <1>1
    <2>. QED
      BY <1>1, <1>3, <2>1, <2>2
  <1>. QED
    BY <1>1, <1>2, <1>3

LEMMA CarouselSend ==
    ASSUME Inv, Carousel, SendFrame
    PROVE  Carousel'
  <1>. DEFINE N == MaxEsi + 1
              B == Blocks[tx.length]
              up(e) == (e + 1) % N
  <1>0. PICK k : k = tx.next
    OBVIOUS
  <1>1. /\ tx.active /\ tx.length \in Good
        /\ tx.esi \in [SbnOf(tx.length) -> 0 .. MaxEsi + 1]
        /\ k \in SbnOf(tx.length)
    BY <1>0 DEF SendFrame, Inv, ControlOK, SessionOK
  <1>2. /\ tx'.length = tx.length
        /\ tx'.next = NextBlock(k)
        /\ tx'.next \in SbnOf(tx.length)
        /\ tx'.esi = [tx.esi EXCEPT ![k] = EsiToSend(k) + 1]
    BY <1>0, SendMoves DEF Inv
  <1>3. PICK e \in 0 .. MaxEsi : \A b \in SbnOf(tx.length) :
           Turn(b) = IF b < k THEN up(e) ELSE e
    BY <1>0, <1>1 DEF Carousel
  <1>4. MaxEsi \in Nat /\ B \in Nat \ {0}
    BY <1>1, Sizes
  <1>5. k \in Nat /\ k < B /\ SbnOf(tx.length) = 0 .. B - 1
    BY <1>1, <1>4 DEF SbnOf
  <1>6. up(e) \in 0 .. MaxEsi
    BY <1>4
  <1>7. Turn(k)' = up(e)
    <2>1. /\ tx.esi[k] \in 0 .. MaxEsi + 1
          /\ tx'.esi[k] = EsiToSend(k) + 1
      BY <1>1, <1>2
    <2>2. (EsiToSend(k) + 1) % N = up(Turn(k))
      BY <2>1, TurnOn DEF EsiToSend, Turn
    <2>3. Turn(k) = e
      BY <1>1, <1>3, <1>5
    <2>. QED
      BY <2>1, <2>2, <2>3 DEF Turn
  <1>8. ASSUME NEW b \in SbnOf(tx.length), b # k
        PROVE  Turn(b)' = Turn(b)
    BY <1>1, <1>2, <1>8 DEF Turn
  <1>9. CASE k + 1 < B
    <2>1. tx'.next = k + 1
      BY <1>2, <1>4, <1>5, <1>9 DEF NextBlock
    <2>2. ASSUME NEW b \in SbnOf(tx.length)
          PROVE  Turn(b)' = IF b < tx'.next THEN up(e) ELSE e
      <3>1. b \in Nat
        BY <1>5
      <3>. HIDE DEF up
      <3>2. CASE b = k
        BY <1>5, <1>7, <2>1, <3>2
      <3>3. CASE b # k
        BY <1>3, <1>5, <1>8, <2>1, <3>1, <3>3
      <3>. QED
        BY <3>2, <3>3
    <2>. QED
      BY <1>2, <2>2 DEF Carousel, Turn
  <1>10. CASE k + 1 = B
    <2>1. tx'.next = 0
      <3>1. B % B = 0
        BY <1>4
      <3>. QED
        BY <1>2, <1>10, <3>1 DEF NextBlock
    <2>2. ASSUME NEW b \in SbnOf(tx.length)
          PROVE  Turn(b)' = up(e) /\ ~(b < tx'.next)
      <3>1. b \in Nat /\ b <= k
        BY <1>5, <1>10
      <3>. HIDE DEF up
      <3>2. CASE b = k
        BY <1>7, <2>1, <3>1, <3>2
      <3>3. CASE b # k
        BY <1>3, <1>5, <1>8, <2>1, <3>1, <3>3
      <3>. QED
        BY <3>2, <3>3
    <2>3. \A b \in SbnOf(tx.length) :
             Turn(b)' = IF b < tx'.next THEN up(up(e)) ELSE up(e)
      BY <2>2
    <2>. QED
      BY <1>2, <1>6, <2>3 DEF Carousel, Turn
  <1>. QED
    BY <1>4, <1>5, <1>9, <1>10

\* The carousel is fair: the blocks before next_sbn are one symbol ahead of
\* the others, whatever number of blocks and of ESIs there is.
THEOREM CarouselIsFair == Spec => []Carousel
  <1>1. Init => Carousel
    BY NoSessionType DEF Init, Carousel
  <1>2. Inv /\ Carousel /\ [Next]_vars => Carousel'
    <2>. SUFFICES ASSUME Inv, Carousel, [Next]_vars
                  PROVE  Carousel'
      OBVIOUS
    <2>1. CASE UNCHANGED tx
      BY <2>1 DEF Carousel, Turn
    <2>2. CASE tx'.active = FALSE
      BY <2>2 DEF Carousel
    <2>3. CASE Environment
      BY <2>1, <2>3, EnvironmentType DEF Inv
    <2>4. CASE Moves
      BY <2>1, <2>4, MovesMove DEF Inv
    <2>5. CASE Resets
      BY <2>2, <2>5, ResetsReset, NoSessionType DEF Inv
    <2>6. CASE Scan \/ StatFound
      BY <2>1, <2>6 DEF Scan, StatFound
    <2>7. CASE Fopen
      <3>1. tx' = [NoSession EXCEPT !.length = dir[found.path].content]
        BY <2>7 DEF Fopen
      <3>2. tx'.active = FALSE
        BY <3>1, NoSessionType DEF Session
      <3>. QED
        BY <2>2, <3>2
    <2>8. CASE Load
      <3>1. /\ tx'.next = 0 /\ tx'.length = tx.length /\ tx'.length \in Good
            /\ tx'.esi = [b \in SbnOf(tx.length) |-> 0]
        BY <2>8, LoadOpens DEF Inv
      <3>2. ASSUME NEW b \in SbnOf(tx'.length)
            PROVE  Turn(b)' = IF b < tx'.next THEN (0 + 1) % (MaxEsi + 1) ELSE 0
        <4>1. tx'.esi[b] = 0 /\ b \in Nat
          BY <3>1, <3>2, Sizes DEF SbnOf
        <4>2. 0 % (MaxEsi + 1) = 0
          BY Sizes
        <4>. QED
          BY <3>1, <4>1, <4>2 DEF Turn
      <3>3. 0 \in 0 .. MaxEsi /\ tx'.next \in SbnOf(tx'.length)
        BY <3>1, Sizes
      <3>. QED
        BY <3>2, <3>3 DEF Carousel, Turn
    <2>9. CASE SendFrame
      BY <2>9, CarouselSend
    <2>. QED
      BY <2>1, <2>3, <2>4, <2>5, <2>6, <2>7, <2>8, <2>9, ThreadSteps DEF vars
  <1>. QED
    BY <1>1, <1>2, InvInit, InvStep, PTL DEF Spec

-----------------------------------------------------------------------------
(***************************************************************************)
(* The frame budget.                                                       *)
(***************************************************************************)

\* The session is of the file's present version, as far as stat can tell.
Matches(n) ==
    tx.active /\ tx.path = n /\ Present(n) /\ tx.mtime = dir[n].mtime

\* What n has been sent since it changed is what the session counts, and one
\* frame at most of a session that did not know of the change yet.  That one
\* is sent before the next stat, if the change falls behind the last one.
BudgetOf(n) ==
    /\ Matches(n) => sent[n] <= tx.sent + 1
    /\ ~Matches(n) /\ pc # "ended" => sent[n] <= 1
    /\ pc \in {"budget", "send"} /\ tx.path = n /\ ~Matches(n) => sent[n] = 0
    /\ pc \in {"fopen", "load"} /\ found.path = n
       /\ (Present(n) => dir[n].mtime # found.mtime)
       => sent[n] = 0
    /\ ~Present(n) => sent[n] <= 1
    /\ FramesLimit(n) # Unlimited => sent[n] <= FramesLimit(n) + 1
BudgetOK == \A n \in Names : BudgetOf(n)

\* A name of which nothing changed, while the thread goes where the session
\* is the same and a frame need not match more than before.
LEMMA BudgetSame ==
    ASSUME NEW n \in Names, BudgetOf(n), UNCHANGED <<dir, tx, sent>>,
           \/ pc' = pc /\ found' = found
           \/ pc' \in {"top", "stat", "scan", "statFound", "send"}
              /\ pc # "ended" /\ (pc' = "send" => pc = "budget")
           \/ pc' = "budget" /\ pc # "ended" /\ (tx.path = n => Matches(n))
           \/ pc' = "fopen" /\ pc # "ended"
              /\ (found'.path = n =>
                     Present(n) /\ dir[n].mtime = found'.mtime)
    PROVE  BudgetOf(n)'
  BY DEF BudgetOf, Matches, Present

LEMMA BudgetStep == Inv /\ BudgetOK /\ [Next]_vars => BudgetOK'
  <1>. SUFFICES ASSUME Inv, BudgetOK, [Next]_vars, NEW n \in Names
                PROVE  BudgetOf(n)'
    BY DEF BudgetOK
  <1>0. /\ BudgetOf(n) /\ TypeOK /\ SessionOK /\ ControlOK
        /\ sent[n] \in 0 .. FramesCap
        /\ tx.sent \in 0 .. FramesCap
        /\ FramesLimit(n) \in {Unlimited} \union 1 .. FramesCap - 1
        /\ FramesCap \in Nat
    BY Sizes DEF Inv, BudgetOK, TypeOK, Session
  <1>1. CASE UNCHANGED vars
    BY <1>0, <1>1, BudgetSame DEF vars
  <1>2. CASE Environment
    <2>1. UNCHANGED <<pc, found, tx>>
      BY <1>0, <1>2, EnvironmentType
    <2>2. CASE UNCHANGED <<dir, sent>>
      BY <1>0, <2>1, <2>2, BudgetSame
    <2>3. CASE \E m \in Names : \E e : Entry(m, e)
      <3>0. PICK m \in Names : \E e : Entry(m, e)
        BY <2>3
      <3>1. PICK e : /\ dir' = [dir EXCEPT ![m] = e]
                     /\ sent' = [sent EXCEPT ![m] = 0]
        BY <3>0 DEF Entry
      <3>2. CASE m = n
        <4>1. sent'[n] = 0
          BY <3>1, <3>2 DEF Inv, TypeOK
        <4>. QED
          BY <1>0, <2>1, <4>1, Sizes DEF BudgetOf
      <3>3. CASE m # n
        <4>1. sent'[n] = sent[n] /\ dir'[n] = dir[n]
          BY <3>1, <3>3 DEF Inv, TypeOK
        <4>. QED
          BY <1>0, <2>1, <4>1 DEF BudgetOf, Matches, Present
      <3>. QED
        BY <3>2, <3>3
    <2>4. UNCHANGED <<dir, sent>> \/ \E m \in Names : \E e : Entry(m, e)
      BY <1>2 DEF Environment, Create, Write, MoveIn, Remove, Tick, Stop
    <2>. QED
      BY <2>2, <2>3, <2>4
  <1>3. CASE Moves
    <2>1. UNCHANGED <<dir, tx, sent>> /\ pc # "ended"
      BY <1>3 DEF Moves, Top, StatUnchanged, ScanNothing, StatFoundGone,
                  Budget, BudgetUsed, diskVars
    <2>2. CASE StatUnchanged
      <3>1. /\ pc' = "budget" /\ tx.active
            /\ Present(tx.path) /\ dir[tx.path].mtime = tx.mtime
        BY <1>0, <2>2 DEF StatUnchanged, Changed, ControlOK
      <3>. QED
        BY <1>0, <2>1, <3>1, BudgetSame DEF Matches
    <2>3. CASE Top \/ ScanNothing \/ StatFoundGone \/ Budget \/ BudgetUsed
      <3>1. /\ pc' \in {"top", "stat", "scan", "send"}
            /\ pc' = "send" => pc = "budget"
        BY <2>3 DEF Top, ScanNothing, StatFoundGone, Budget, BudgetUsed
      <3>. QED
        BY <1>0, <2>1, <3>1, BudgetSame
    <2>. QED
      BY <1>3, <2>2, <2>3 DEF Moves
  <1>4. CASE Resets
    <2>1. /\ tx' = NoSession /\ ~tx'.active
          /\ pc' \in {"top", "ended", "crashed"}
          /\ UNCHANGED <<dir, sent>>
      BY <1>0, <1>4, ResetsReset, NoSessionType DEF diskVars
    <2>2. CASE SendFails
      <3>1. pc' = "ended"
        BY <2>2 DEF SendFails
      <3>. QED
        BY <1>0, <2>1, <3>1 DEF BudgetOf, Matches, Present
    <2>3. CASE Leave
      <3>1. pc' = "ended"
        BY <2>3 DEF Leave
      <3>. QED
        BY <1>0, <2>1, <3>1 DEF BudgetOf, Matches, Present
    <2>4. CASE StatGone \/ StatChanged
      <3>1. ~Matches(n) /\ pc = "stat"
        BY <2>4 DEF StatGone, StatChanged, Matches, Changed
      <3>. QED
        BY <1>0, <2>1, <3>1 DEF BudgetOf, Matches, Present
    <2>5. CASE FopenRefused \/ FopenEmpty
      <3>1. pc = "fopen" /\ ~tx.active
        BY <1>0, <2>5 DEF FopenRefused, FopenEmpty, ControlOK
      <3>. QED
        BY <1>0, <2>1, <3>1 DEF BudgetOf, Matches, Present
    <2>. QED
      BY <1>4, <2>2, <2>3, <2>4, <2>5 DEF Resets
  <1>5. CASE Scan
    <2>1. /\ UNCHANGED <<dir, tx, sent>>
          /\ pc = "scan" /\ pc' = "statFound"
      BY <1>5 DEF Scan, diskVars
    <2>. QED
      BY <1>0, <2>1, BudgetSame
  <1>6. CASE StatFound
    <2>1. /\ UNCHANGED <<dir, tx, sent>>
          /\ pc = "statFound" /\ pc' = "fopen"
          /\ Present(found.path)
          /\ found' = [found EXCEPT !.mtime = dir[found.path].mtime]
      BY <1>6 DEF StatFound, diskVars
    <2>2. found'.path = found.path /\ found'.mtime = dir[found.path].mtime
      BY <1>0, <2>1 DEF TypeOK
    <2>. QED
      BY <1>0, <2>1, <2>2, BudgetSame
  <1>7. CASE Fopen
    <2>1. /\ UNCHANGED <<dir, found, sent>>
          /\ pc = "fopen" /\ pc' = "load"
          /\ tx' = [NoSession EXCEPT !.length = dir[found.path].content]
      BY <1>7 DEF Fopen, diskVars
    <2>2. ~tx'.active /\ ~tx.active
      BY <1>0, <2>1, NoSessionType DEF Session, ControlOK
    <2>. QED
      BY <1>0, <2>1, <2>2 DEF BudgetOf, Matches, Present
  <1>8. CASE Load
    <2>1. /\ tx'.active /\ tx'.path = found.path /\ tx'.mtime = found.mtime
          /\ tx'.sent = 0
      BY <1>0, <1>8, LoadOpens DEF SessionTime
    <2>2. /\ UNCHANGED <<dir, found, sent>>
          /\ pc = "load" /\ pc' = "budget" /\ ~tx.active
      BY <1>0, <1>8 DEF Load, diskVars, ControlOK
    <2>3. sent[n] <= 1
      BY <1>0, <2>2 DEF BudgetOf, Matches
    <2>. QED
      BY <1>0, <2>1, <2>2, <2>3 DEF BudgetOf, Matches, Present
  <1>9. CASE SendFrame
    <2>1. /\ tx'.active /\ tx'.path = tx.path /\ tx'.mtime = tx.mtime
          /\ tx'.sent = Saturate(tx.sent)
      BY <1>0, <1>9, SendMoves
    <2>2. /\ UNCHANGED <<dir, found>>
          /\ sent' = [sent EXCEPT ![tx.path] = Saturate(@)]
          /\ pc = "send" /\ pc' = "top"
          /\ tx.active /\ BudgetLeft /\ tx.limit = FramesLimit(tx.path)
      BY <1>0, <1>9 DEF SendFrame, diskVars, ControlOK, SessionOK
    <2>3. CASE tx.path = n
      <3>1. sent'[n] = Saturate(sent[n])
        BY <1>0, <2>2, <2>3 DEF TypeOK
      <3>2. CASE Matches(n)
        <4>1. sent[n] <= tx.sent + 1
          BY <1>0, <3>2 DEF BudgetOf
        <4>2. sent'[n] <= tx'.sent + 1
          BY <1>0, <2>1, <3>1, <4>1 DEF Saturate
        <4>3. FramesLimit(n) # Unlimited => sent'[n] <= FramesLimit(n) + 1
          BY <1>0, <2>2, <2>3, <3>1, <4>1, Sizes DEF BudgetLeft, Saturate
        <4>4. Matches(n)' /\ Present(n)'
          BY <2>1, <2>2, <3>2 DEF Matches, Present
        <4>. QED
          BY <2>2, <4>2, <4>3, <4>4 DEF BudgetOf
      <3>3. CASE ~Matches(n)
        <4>1. sent[n] = 0
          BY <1>0, <2>2, <2>3, <3>3 DEF BudgetOf
        <4>2. sent'[n] <= 1
          BY <1>0, <3>1, <4>1 DEF Saturate
        <4>3. sent'[n] \in Nat
          BY <1>0, <3>1, <4>1 DEF Saturate
        <4>4. ~Matches(n)'
          BY <2>1, <2>2, <3>3 DEF Matches, Present
        <4>. QED
          BY <1>0, <2>2, <4>2, <4>3, <4>4, Sizes DEF BudgetOf
      <3>. QED
        BY <3>2, <3>3
    <2>4. CASE tx.path # n
      <3>1. sent'[n] = sent[n] /\ ~Matches(n) /\ ~Matches(n)'
        BY <1>0, <2>1, <2>2, <2>4 DEF TypeOK, Matches
      <3>. QED
        BY <1>0, <2>2, <3>1 DEF BudgetOf, Present
    <2>. QED
      BY <2>3, <2>4
  <1>. QED
    BY <1>1, <1>2, <1>3, <1>4, <1>5, <1>6, <1>7, <1>8, <1>9, ThreadSteps

\* A version of a file with a budget is sent within it, plus the one frame of
\* the session before, wherever changes of the directory fall between the
\* thread's steps; a file that is gone gets at most that one.
THEOREM BudgetIsKept == Spec => []BudgetPerVersion
  <1>1. Init => BudgetOK
    <2>. SUFFICES ASSUME Init, NEW n \in Names PROVE BudgetOf(n)
      BY DEF BudgetOK
    <2>1. sent[n] = 0 /\ pc = "top" /\ ~tx.active
      BY NoSessionType DEF Init
    <2>. QED
      BY <2>1, Sizes DEF BudgetOf, Matches
  <1>2. BudgetOK => BudgetPerVersion
    BY DEF BudgetOK, BudgetOf, BudgetPerVersion
  <1>. QED
    BY <1>1, <1>2, InvInit, InvStep, BudgetStep, PTL DEF Spec

-----------------------------------------------------------------------------
(***************************************************************************)
(* The session and the file's present version.                             *)
(***************************************************************************)

\* As long as no two versions of n share a modification time, equal times mean
\* the same version, at every step between stat, fopen and the reading.
FreshFor(n) ==
    n \notin shared =>
        /\ Present(n) => dir[n].mtime \in mtimes[n]
        /\ pc \in {"fopen", "load"} /\ found.path = n
           => found.mtime \in mtimes[n]
        /\ pc = "load" /\ found.path = n /\ Present(n)
           /\ dir[n].mtime = found.mtime
           => tx.length = dir[n].content
        /\ tx.active /\ tx.path = n => tx.mtime \in mtimes[n]
        /\ Matches(n) => tx.length = dir[n].content /\ tx.content = tx.length
FreshOK == \A n \in Names : FreshFor(n)

\* A new version whose time n never had is no version the thread knows.
LEMMA FreshEntry ==
    ASSUME Inv, NEW n \in Names, FreshFor(n), NEW m \in Names, NEW e,
           Entry(m, e)
    PROVE  FreshFor(n)'
  <1>1. /\ dir' = [dir EXCEPT ![m] = e]
        /\ shared' = IF e # Absent /\ e.mtime \in mtimes[m]
                     THEN shared \union {m} ELSE shared
        /\ mtimes' = [mtimes EXCEPT ![m] = IF m \in shared' THEN {}
                                           ELSE IF e = Absent THEN @
                                           ELSE @ \union {e.mtime}]
        /\ UNCHANGED <<pc, found, tx>>
    BY DEF Entry
  <1>2. dir \in [Names -> [content : Contents, mtime : 0 .. MaxTime]
                          \union {Absent}]
        /\ mtimes \in [Names -> SUBSET (0 .. MaxTime)]
    BY DEF Inv, TypeOK
  <1>3. CASE m # n
    <2>1. dir'[n] = dir[n] /\ mtimes'[n] = mtimes[n]
          /\ (n \in shared' <=> n \in shared)
      BY <1>1, <1>2, <1>3
    <2>. QED
      BY <1>1, <2>1 DEF FreshFor, Matches, Present
  <1>4. CASE m = n
    <2>. SUFFICES ASSUME n \notin shared' PROVE FreshFor(n)'
      BY DEF FreshFor
    <2>1. n \notin shared /\ (e # Absent => e.mtime \notin mtimes[n])
      BY <1>1, <1>4
    <2>2. dir'[n] = e
      BY <1>1, <1>2, <1>4
    <2>3. mtimes'[n] = IF e = Absent THEN mtimes[n]
                       ELSE mtimes[n] \union {e.mtime}
      BY <1>1, <1>2, <1>4
    <2>. QED
      BY <1>1, <2>1, <2>2, <2>3 DEF FreshFor, Matches, Present
  <1>. QED
    BY <1>3, <1>4

LEMMA FreshStep == Inv /\ FreshOK /\ [Next]_vars => FreshOK'
  <1>. SUFFICES ASSUME Inv, FreshOK, [Next]_vars, NEW n \in Names
                PROVE  FreshFor(n)'
    BY DEF FreshOK
  <1>0. FreshFor(n) /\ TypeOK /\ SessionOK /\ ControlOK
    BY DEF Inv, FreshOK
  <1>1. CASE UNCHANGED vars
    BY <1>0, <1>1 DEF vars, FreshFor, Matches, Present
  <1>2. CASE Environment
    <2>1. UNCHANGED <<pc, found, tx>>
      BY <1>0, <1>2, EnvironmentType
    <2>2. CASE UNCHANGED <<dir, mtimes, shared>>
      BY <1>0, <2>1, <2>2 DEF FreshFor, Matches, Present
    <2>3. CASE \E m \in Names : \E e : Entry(m, e)
      BY <1>0, <2>3, FreshEntry
    <2>4. \/ UNCHANGED <<dir, mtimes, shared>>
          \/ \E m \in Names : \E e : Entry(m, e)
      BY <1>2 DEF Environment, Create, Write, MoveIn, Remove, Tick, Stop
    <2>. QED
      BY <2>2, <2>3, <2>4
  <1>3. CASE Moves
    <2>1. UNCHANGED <<diskVars, tx>> /\ pc' \notin {"fopen", "load"}
      BY <1>0, <1>3, MovesMove
    <2>. QED
      BY <1>0, <2>1 DEF FreshFor, Matches, Present, diskVars
  <1>4. CASE Resets
    <2>1. /\ tx' = NoSession /\ ~tx'.active
          /\ pc' \in {"top", "ended", "crashed"}
          /\ UNCHANGED diskVars
      BY <1>0, <1>4, ResetsReset, NoSessionType
    <2>. QED
      BY <1>0, <2>1 DEF FreshFor, Matches, Present, diskVars
  <1>5. CASE Scan
    <2>1. UNCHANGED <<diskVars, tx>> /\ pc' = "statFound"
      BY <1>5 DEF Scan
    <2>. QED
      BY <1>0, <2>1 DEF FreshFor, Matches, Present, diskVars
  <1>6. CASE StatFound
    <2>1. /\ UNCHANGED <<diskVars, tx>> /\ pc' = "fopen"
          /\ Present(found.path)
          /\ found' = [found EXCEPT !.mtime = dir[found.path].mtime]
      BY <1>6 DEF StatFound
    <2>2. found'.path = found.path /\ found'.mtime = dir[found.path].mtime
      BY <1>0, <2>1 DEF TypeOK
    <2>. QED
      BY <1>0, <2>1, <2>2 DEF FreshFor, Matches, Present, diskVars
  <1>7. CASE Fopen
    <2>1. /\ UNCHANGED <<diskVars, found>> /\ pc = "fopen" /\ pc' = "load"
          /\ tx' = [NoSession EXCEPT !.length = dir[found.path].content]
      BY <1>7 DEF Fopen
    <2>2. ~tx'.active /\ tx'.length = dir[found.path].content
      BY <2>1, NoSessionType DEF Session
    <2>. QED
      BY <1>0, <2>1, <2>2 DEF FreshFor, Matches, Present, diskVars
  <1>8. CASE Load
    <2>1. /\ tx'.active /\ tx'.path = found.path /\ tx'.mtime = found.mtime
          /\ tx'.length = tx.length
      BY <1>0, <1>8, LoadOpens DEF SessionTime
    <2>2. UNCHANGED <<diskVars, found>> /\ pc = "load" /\ pc' = "budget"
      BY <1>8 DEF Load
    <2>3. tx'.content = tx.length
          \/ (Present(found.path) /\ tx'.content = dir[found.path].content)
      <3>1. PICK c \in {tx.length} \union
                       {dir[m].content : m \in {found.path} \cap
                                               {k \in Names : Present(k)}} :
               tx' = [active |-> TRUE, path |-> found.path,
                      mtime |-> SessionTime, limit |-> FramesLimit(found.path),
                      sent |-> 0, next |-> 0, length |-> tx.length,
                      content |-> c, esi |-> [b \in SbnOf(tx.length) |-> 0]]
        BY <1>8 DEF Load
      <3>2. tx'.content = c
        BY <3>1
      <3>. QED
        BY <3>1, <3>2
    <2>. QED
      BY <1>0, <2>1, <2>2, <2>3 DEF FreshFor, Matches, Present, diskVars
  <1>9. CASE SendFrame
    <2>1. /\ tx'.active /\ tx'.path = tx.path /\ tx'.mtime = tx.mtime
          /\ tx'.length = tx.length
      BY <1>0, <1>9, SendMoves
    <2>2. tx'.content = tx.content
      BY <1>0, <1>9 DEF SendFrame, TypeOK, Session
    <2>3. UNCHANGED <<diskVars, found>> /\ pc' = "top" /\ tx.active
      BY <1>0, <1>9 DEF SendFrame, ControlOK
    <2>. QED
      BY <1>0, <2>1, <2>2, <2>3 DEF FreshFor, Matches, Present, diskVars
  <1>. QED
    BY <1>1, <1>2, <1>3, <1>4, <1>5, <1>6, <1>7, <1>8, <1>9, ThreadSteps

\* A session whose file has the time the session knows is of the version that
\* is in the directory, length and symbols alike, although stat, fopen and the
\* reading are separate calls between which the file may change.
THEOREM SessionIsNotStale == Spec => []NotStale
  <1>1. Init => FreshOK
    BY NoSessionType DEF Init, FreshOK, FreshFor, Matches, Present
  <1>2. Inv /\ FreshOK => NotStale
    BY DEF FreshOK, FreshFor, NotStale, Matches, Changed, Inv, SessionOK
  <1>. QED
    BY <1>1, <1>2, InvInit, InvStep, FreshStep, PTL DEF Spec
=============================================================================
