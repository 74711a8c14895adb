------------------------------ MODULE DaemonTx ------------------------------
(***************************************************************************)
(* The transmit thread of broadcast_daemon (daemon.c, tx_thread_main): it  *)
(* watches a directory, opens a session on the first regular file, and     *)
(* sends the file as a carousel of RaptorQ frames, one source block after  *)
(* the other, until the file goes away or its frame budget is used up.     *)
(*                                                                         *)
(* Users change the directory while the thread runs.  The thread looks at  *)
(* it through separate system calls (readdir, stat, fopen, read), and each *)
(* of them is an action here, so that a change may fall between any two.   *)
(* A scan is one step: it takes the names at one instant.                  *)
(*                                                                         *)
(* A file's bytes are one member of Good; its blocks are all that is known *)
(* of them.  nanorq_generate_symbols reads every block when the session    *)
(* opens, so the symbols sent later do not depend on the file any more.    *)
(***************************************************************************)
EXTENDS Integers, FiniteSets

CONSTANTS
    NumFiles,    \* the names are 1 .. NumFiles, in strcmp order
    Good,        \* the contents that can be transmitted
    Empty,       \* the content of a file of zero bytes
    Huge,        \* a content the daemon refuses: over 16777215 bytes
    Blocks,      \* Blocks[c]: number of source blocks of a good content
    Suffix,      \* Suffix[n]: N in "-N_frames" of name n, 0 without suffix
    MaxEsi,      \* MAX_ESI
    MaxTime,     \* bound: the clock stops here
    FramesCap,   \* bound: frames are counted up to here, beyond any budget
    SendMayFail, \* whether the connection to the modem may break
    Absent,      \* no file of that name
    NoFile,      \* tx.file_path as memset leaves it: the empty string
    NoFrame      \* nothing was sent yet

Names == 1 .. NumFiles
Contents == Good \union {Empty, Huge}
Unlimited == -1

ASSUME SizesAssumption ==
    /\ NumFiles \in Nat \ {0}
    /\ MaxEsi \in Nat
    /\ MaxTime \in Nat
    /\ Blocks \in [Good -> Nat \ {0}]
    /\ Suffix \in [Names -> Nat]
    /\ FramesCap \in Nat
    /\ \A n \in Names : Suffix[n] < FramesCap
ASSUME MarksAssumption ==
    /\ NoFile \notin Names
    /\ Empty \notin Good /\ Huge \notin Good
    /\ SendMayFail \in BOOLEAN

VARIABLES
    dir,      \* the directory: for each name Absent or [content, mtime]
    now,      \* the clock, in the seconds of st_mtime
    running,  \* the flag all threads of the daemon share
    pc,       \* where the thread stands in its loop
    found,    \* file_path and mtime of the iteration: what the scan chose
    tx,       \* tx_session_t
    frame,    \* the last frame given to the modem
    \* What the properties remember:
    sent,     \* sent[n]: frames sent from n since its entry last changed
    mtimes,   \* mtimes[n]: the modification times n has ever had
    shared    \* the names of which two versions had one modification time

vars == <<dir, now, running, pc, found, tx, frame, sent, mtimes, shared>>
diskVars == <<dir, now, mtimes, shared>>

Labels == {"top", "stat", "scan", "statFound", "fopen", "load", "budget",
           "send", "ended", "crashed"}

\* tx_session_reset: memset 0.  With no encoder there are no blocks.
NoSession == [active |-> FALSE, path |-> NoFile, mtime |-> 0, limit |-> 0,
              sent |-> 0, next |-> 0, length |-> Empty, content |-> Empty,
              esi |-> [b \in {} |-> 0]]

\* parse_frames_limit_from_filename: a missing or zero N is no limit.
FramesLimit(n) == IF Suffix[n] > 0 THEN Suffix[n] ELSE Unlimited

SbnOf(c) == 0 .. Blocks[c] - 1

Present(n) == n \in Names /\ dir[n] # Absent
First(ns) == CHOOSE n \in ns : \A m \in ns : n <= m

Init ==
    /\ dir = [n \in Names |-> Absent]
    /\ now = 0
    /\ running = TRUE
    /\ pc = "top"
    /\ found = [path |-> NoFile, mtime |-> 0]
    /\ tx = NoSession
    /\ frame = NoFrame
    /\ sent = [n \in Names |-> 0]
    /\ mtimes = [n \in Names |-> {}]
    /\ shared = {}

-----------------------------------------------------------------------------
(***************************************************************************)
(* The directory's users and the clock.                                    *)
(***************************************************************************)

\* The entry of n becomes e: a new version of the file, or no file.  Of a
\* name in shared the times are not needed any more.
Entry(n, e) ==
    /\ dir' = [dir EXCEPT ![n] = e]
    /\ sent' = [sent EXCEPT ![n] = 0]
    /\ shared' = IF e # Absent /\ e.mtime \in mtimes[n]
                 THEN shared \union {n} ELSE shared
    /\ mtimes' = [mtimes EXCEPT ![n] = IF n \in shared' THEN {}
                                       ELSE IF e = Absent THEN @
                                       ELSE @ \union {e.mtime}]
    /\ UNCHANGED <<now, running, pc, found, tx, frame>>

\* open(O_CREAT | O_TRUNC), then write: cp, an editor, a download.
Create(n) == Entry(n, [content |-> Empty, mtime |-> now])
Write(n, c) == Present(n) /\ Entry(n, [content |-> c, mtime |-> now])

\* mv, which keeps the time of the file that is moved in.
MoveIn(n, c, t) == Entry(n, [content |-> c, mtime |-> t])

Remove(n) == Present(n) /\ Entry(n, Absent)

Tick == /\ now < MaxTime
        /\ now' = now + 1
        /\ UNCHANGED <<dir, running, pc, found, tx, frame, sent, mtimes, shared>>

\* A signal, or the receive thread at a lost connection.
Stop == /\ running
        /\ running' = FALSE
        /\ UNCHANGED <<dir, now, pc, found, tx, frame, sent, mtimes, shared>>

-----------------------------------------------------------------------------
(***************************************************************************)
(* The loop.                                                               *)
(***************************************************************************)

\* while (running): on to the session's file, or to the scan.
Top ==
    /\ pc = "top" /\ running
    /\ pc' = IF tx.active THEN "stat" ELSE "scan"
    /\ UNCHANGED <<diskVars, running, found, tx, frame, sent>>

\* The loop ends; tx_session_reset.
Leave ==
    /\ pc = "top" /\ ~running
    /\ pc' = "ended"
    /\ tx' = NoSession
    /\ UNCHANGED <<diskVars, running, found, frame, sent>>

\* A slip of Changed: a replacement by an older file goes unnoticed.
ChangedOnlyIfNewer(n) == dir[n].mtime > tx.mtime

Changed(n) == dir[n].mtime # tx.mtime

StatUnchanged ==
    /\ pc = "stat" /\ Present(tx.path) /\ ~Changed(tx.path)
    /\ pc' = "budget"
    /\ UNCHANGED <<diskVars, running, found, tx, frame, sent>>

\* "TX: file removed"
StatGone ==
    /\ pc = "stat" /\ ~Present(tx.path)
    /\ tx' = NoSession
    /\ pc' = "top"
    /\ UNCHANGED <<diskVars, running, found, frame, sent>>

\* tx_session_open(ctx, &tx, tx.file_path, ...): the path is an alias into
\* the session that tx_session_reset clears first, so what is opened is "",
\* which never exists; the result is ignored and the loop starts over.
Reload ==
    /\ tx' = NoSession
    /\ pc' = "top"

\* "TX: file changed, reloading"
StatChanged ==
    /\ pc = "stat" /\ Present(tx.path) /\ Changed(tx.path)
    /\ Reload
    /\ UNCHANGED <<diskVars, running, found, frame, sent>>

\* find_first_regular_file, the readdir loop.
Scan ==
    /\ pc = "scan"
    /\ \E n \in Names : Present(n)
    /\ found' = [path |-> First({n \in Names : Present(n)}), mtime |-> 0]
    /\ pc' = "statFound"
    /\ UNCHANGED <<diskVars, running, tx, frame, sent>>

\* Nothing there: wait for inotify or the timeout, whichever comes first.
ScanNothing ==
    /\ pc = "scan"
    /\ ~\E n \in Names : Present(n)
    /\ pc' = "top"
    /\ UNCHANGED <<diskVars, running, found, tx, frame, sent>>

\* find_first_regular_file, the second stat: it gives the session's mtime.
StatFound ==
    /\ pc = "statFound" /\ Present(found.path)
    /\ found' = [found EXCEPT !.mtime = dir[found.path].mtime]
    /\ pc' = "fopen"
    /\ UNCHANGED <<diskVars, running, tx, frame, sent>>

StatFoundGone ==
    /\ pc = "statFound" /\ ~Present(found.path)
    /\ pc' = "top"
    /\ UNCHANGED <<diskVars, running, found, tx, frame, sent>>

-----------------------------------------------------------------------------
(***************************************************************************)
(* tx_session_open.  Every failure leaves the session reset and is         *)
(* followed by a pause and the next iteration.                             *)
(***************************************************************************)

OpenFails == tx' = NoSession /\ pc' = "top"

\* The file is opened and its size taken; what it holds is read later.
Fopen ==
    /\ pc = "fopen" /\ Present(found.path)
    /\ dir[found.path].content \in Good
    /\ tx' = [NoSession EXCEPT !.length = dir[found.path].content]
    /\ pc' = "load"
    /\ UNCHANGED <<diskVars, running, found, frame, sent>>

\* fopen fails, or "file too large"
FopenRefused ==
    /\ pc = "fopen"
    /\ (Present(found.path) => dir[found.path].content = Huge)
    /\ OpenFails
    /\ UNCHANGED <<diskVars, running, found, frame, sent>>

\* nanorq_encoder_new of no bytes divides by zero (gen_scheme_specific) before
\* it can find that there are no blocks: the process dies where division by
\* zero traps, elsewhere NULL is returned.
FopenEmpty ==
    /\ pc = "fopen" /\ Present(found.path)
    /\ dir[found.path].content = Empty
    /\ \/ OpenFails
       \/ pc' = "crashed" /\ tx' = NoSession
    /\ UNCHANGED <<diskVars, running, found, frame, sent>>

\* A slip of SessionTime: the time is taken after the contents.
SessionTimeAfterLoad ==
    IF Present(found.path) THEN dir[found.path].mtime ELSE found.mtime

SessionTime == found.mtime

\* nanorq_generate_symbols reads the blocks; the file may have been rewritten
\* since its size was taken, so that length and contents are of two versions.
Load ==
    /\ pc = "load"
    /\ \E c \in {tx.length} \union
                {dir[n].content : n \in {found.path} \cap
                                        {m \in Names : Present(m)}} :
          tx' = [active |-> TRUE, path |-> found.path, mtime |-> SessionTime,
                 limit |-> FramesLimit(found.path), sent |-> 0, next |-> 0,
                 length |-> tx.length, content |-> c,
                 esi |-> [b \in SbnOf(tx.length) |-> 0]]
    /\ pc' = "budget"
    /\ UNCHANGED <<diskVars, running, found, frame, sent>>

-----------------------------------------------------------------------------
(***************************************************************************)
(* The frame budget, and tx_send_one_frame.                                *)
(***************************************************************************)

\* A slip of BudgetLeft: one frame too many.
BudgetLeftOffByOne == tx.limit = Unlimited \/ tx.sent <= tx.limit

BudgetLeft == tx.limit = Unlimited \/ tx.sent < tx.limit

Budget ==
    /\ pc = "budget" /\ BudgetLeft
    /\ pc' = "send"
    /\ UNCHANGED <<diskVars, running, found, tx, frame, sent>>

BudgetUsed ==
    /\ pc = "budget" /\ ~BudgetLeft
    /\ pc' = "top"
    /\ UNCHANGED <<diskVars, running, found, tx, frame, sent>>

Saturate(k) == IF k < FramesCap THEN k + 1 ELSE k

\* A slip of EsiToSend: the wrap comes one symbol late.
EsiToSendLate(b) == IF tx.esi[b] > MaxEsi + 1 THEN 0 ELSE tx.esi[b]

EsiToSend(b) == IF tx.esi[b] > MaxEsi THEN 0 ELSE tx.esi[b]

\* A slip of NextBlock: the block is changed only when its ESIs are used up.
NextBlockAfterWrap(b) ==
    IF tx.esi[b] >= MaxEsi THEN (b + 1) % Blocks[tx.length] ELSE b

\* next_sbn is only used modulo the number of blocks, and is kept so.
NextBlock(b) == (b + 1) % Blocks[tx.length]

SendFrame ==
    /\ pc = "send"
    /\ LET b == tx.next  esi == EsiToSend(b)
       IN  /\ frame' = [length |-> tx.length, content |-> tx.content,
                        sbn |-> b, esi |-> esi]
           /\ tx' = [tx EXCEPT !.next = NextBlock(b), !.esi[b] = esi + 1,
                               !.sent = Saturate(@)]
    /\ sent' = [sent EXCEPT ![tx.path] = Saturate(@)]
    /\ pc' = "top"
    /\ UNCHANGED <<diskVars, running, found>>

\* "failed to send frame to modem": the daemon stops.
SendFails ==
    /\ pc = "send" /\ SendMayFail
    /\ running' = FALSE
    /\ tx' = NoSession
    /\ pc' = "ended"
    /\ UNCHANGED <<diskVars, found, frame, sent>>

Loop ==
    \/ Top \/ Leave
    \/ StatUnchanged \/ StatGone \/ StatChanged
    \/ Scan \/ ScanNothing \/ StatFound \/ StatFoundGone
    \/ Fopen \/ FopenRefused \/ FopenEmpty \/ Load
    \/ Budget \/ BudgetUsed \/ SendFrame

Environment ==
    \/ \E n \in Names :
          \/ Create(n)
          \/ \E c \in Contents : Write(n, c)
          \/ \E c \in Contents, t \in 0 .. now : MoveIn(n, c, t)
          \/ Remove(n)
    \/ Tick
    \/ Stop

Next == Loop \/ SendFails \/ Environment

Spec == Init /\ [][Next]_vars

\* The scheduler runs the thread; nothing makes users, clock or modem act.
FairSpec == Spec /\ WF_vars(Loop)

-----------------------------------------------------------------------------
(***************************************************************************)
(* Properties.                                                             *)
(***************************************************************************)

Counters ==
    {NoSession.esi} \union
        (UNION {[SbnOf(c) -> 0 .. MaxEsi + 1] : c \in Good})
Session ==
    [active : BOOLEAN, path : Names \union {NoFile}, mtime : 0 .. MaxTime,
     limit : {Unlimited} \union 0 .. FramesCap, sent : 0 .. FramesCap,
     next : Nat, length : Contents, content : Contents, esi : Counters]

\* The variables keep their types; an open session has a good length, and one
\* counter for each block.
TypeOK ==
    /\ dir \in [Names -> [content : Contents, mtime : 0 .. MaxTime]
                         \union {Absent}]
    /\ now \in 0 .. MaxTime
    /\ running \in BOOLEAN
    /\ pc \in Labels
    /\ found \in [path : Names \union {NoFile}, mtime : 0 .. MaxTime]
    /\ tx \in Session
    /\ frame \in [length : Good, content : Contents, sbn : Nat, esi : Nat]
                 \union {NoFrame}
    /\ sent \in [Names -> 0 .. FramesCap]
    /\ mtimes \in [Names -> SUBSET (0 .. MaxTime)]
    /\ shared \subseteq Names

\* Every frame names a block the session has, and an ESI that MAX_ESI, the
\* decoder's bound and the tag's 16 bits all admit: had the wrap come a
\* symbol later, a repair symbol would be tagged as source symbol 0.
FrameFitsTag ==
    frame # NoFrame => frame.sbn \in SbnOf(frame.length) /\ frame.esi <= MaxEsi

\* The carousel is fair: whatever was sent so far, the blocks before next_sbn
\* are exactly one symbol ahead of the others, around the wrap of the ESIs
\* too; so no tag is repeated before all others have been sent.
Turn(b) == tx.esi[b] % (MaxEsi + 1)
Carousel ==
    tx.active =>
        /\ tx.next \in SbnOf(tx.length)
        /\ \E e \in 0 .. MaxEsi : \A b \in SbnOf(tx.length) :
              Turn(b) = IF b < tx.next THEN (e + 1) % (MaxEsi + 1) ELSE e

\* A version of a file with suffix "-N_frames" is sent at most N times, plus
\* the one frame of the session before that may still be under way when the
\* directory changes; of a file that is gone, at most that one.
BudgetPerVersion ==
    \A n \in Names :
        /\ FramesLimit(n) # Unlimited => sent[n] <= FramesLimit(n) + 1
        /\ ~Present(n) => sent[n] <= 1

\* A session is never left behind by its file: if the modification times are
\* those of one version, then so are the length and the symbols.  (Two
\* versions within one second cannot be told apart.)
NotStale ==
    (/\ tx.active /\ Present(tx.path) /\ tx.path \notin shared
     /\ ~Changed(tx.path))
    => tx.length = dir[tx.path].content /\ tx.content = tx.length

\* A good file that stays alone in the directory is in the end the one the
\* session holds, and without a budget its frames never end.
Alone(n, e) ==
    /\ running /\ pc # "crashed"
    /\ n \notin shared
    /\ dir = [m \in Names |-> IF m = n THEN e ELSE Absent]
StaysAlone(n, e) == <>[]Alone(n, e)
AloneFileIsSent ==
    \A n \in Names : \A c \in Good, t \in 0 .. MaxTime :
        LET e == [content |-> c, mtime |-> t]
        IN  StaysAlone(n, e) =>
                /\ <>[](tx.active /\ tx.path = n /\ tx.content = c)
                /\ FramesLimit(n) = Unlimited => []<>(pc = "send")
                /\ FramesLimit(n) # Unlimited => <>[](sent[n] >= FramesLimit(n))

\* What the checks of the code promise ("TX: failed to create RaptorQ encoder",
\* and nanorq_encoder_new's test for no blocks): an empty file is refused.
EmptyFileIsRefused == pc # "crashed"

\* What the log promises ("TX: file changed, reloading"): once the users leave
\* the directory alone, the file that changed is sent again, if it is good and
\* the daemon goes on.
Reloading(n) == pc = "stat" /\ tx.path = n /\ Present(n) /\ Changed(n)
CanBeSent(n) == /\ running /\ pc # "crashed"
                /\ Present(n) /\ dir[n].content \in Good
ReloadsTheFile ==
    <>[][FALSE]_dir =>
        \A n \in Names :
            Reloading(n) ~>
                (CanBeSent(n) => tx.active /\ tx.path = n /\ ~Changed(n))
=============================================================================
