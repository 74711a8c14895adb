------------------------------ MODULE DaemonRx ------------------------------
(***************************************************************************)
(* The receive thread of broadcast_daemon (daemon.c, rx_thread_main) and   *)
(* the decoder it drives (nanorq.c).  Every frame carries the whole OTI of *)
(* its object, so a receiver may join at any frame; the OTI is all that    *)
(* tells one object from another.  The thread handles a frame from the     *)
(* length check to the announcement of the file in one go, and shares      *)
(* nothing but the flag running, so a frame is one action here.            *)
(*                                                                         *)
(* The channel is a radio link: each step may bring any frame that is on   *)
(* the air, or none; so frames are lost, repeated and reordered, senders   *)
(* come and go, and what is damaged beyond what the 6-bit CRC sees is one  *)
(* more frame of the set.                                                  *)
(***************************************************************************)
EXTENDS Decoder

CONSTANTS
    Refused,      \* those Otis of which nanorq_decoder_new makes no decoder
    Frames,       \* the frames on the air
    Carousel,     \* those of them a sender repeats for ever, and which get
                  \* through now and then
    NoFile        \* no file was announced yet

\* form: whether the length, the type and the CRC of the frame are right.
FrameSet == [form : {"ok", "length", "type", "crc"}, oti : Otis,
             sbn : Nat, esi : Esis, content : Contents]

ASSUME FramesAssumption ==
    Frames \subseteq FrameSet /\ Carousel \subseteq Frames /\ Refused \subseteq Otis

VARIABLES
    running,   \* the flag all threads of the daemon share
    rx,        \* rx_session_t, with the decoder's blocks and the output file
    announced, \* what the file announced last holds, or NoFile
    accepted   \* what the properties remember: accepted[b] is the set of
               \* ESIs of block b taken in since the session began

vars == <<running, rx, announced, accepted>>

\* rx_session_reset: all but the object completed last is cleared.
NoSession(completed, last) ==
    [active |-> FALSE, completed |-> completed, last |-> last, oti |-> NoOti,
     blocks |-> [b \in {} |-> NoSymbol], file |-> [b \in {} |-> NoSymbol],
     seen |-> [b \in {} |-> 0], decoded |-> [b \in {} |-> FALSE]]

\* A slip of Reset: the counters and blocks stay.
ResetFlagOnly(s) == [s EXCEPT !.active = FALSE, !.oti = NoOti]

Reset(s) == NoSession(s.completed, s.last)
NoneAccepted(o) == [b \in SbnOf(o) |-> {}]

\* rx_session_start, the fields of a session that is not reset
NewSession(o, last) ==
    [active |-> TRUE, completed |-> FALSE, last |-> last, oti |-> o,
     blocks |-> NoBlocks(o), file |-> NoPlaces(o),
     seen |-> [b \in SbnOf(o) |-> 0],
     decoded |-> [b \in SbnOf(o) |-> FALSE]]

Init ==
    /\ running = TRUE
    /\ rx = NoSession(FALSE, NoOti)
    /\ announced = NoFile
    /\ accepted = [b \in {} |-> {}]

-----------------------------------------------------------------------------
(***************************************************************************)
(* A symbol and what follows from it.                                      *)
(***************************************************************************)

\* A slip of ShouldRepair: one symbol late.
ShouldRepairLate(s, b) == ~s.decoded[b] /\ s.seen[b] > Symbols[s.oti][b]

ShouldRepair(s, b) == ~s.decoded[b] /\ s.seen[b] >= Symbols[s.oti][b]

\* What the session may be after a symbol: once enough have been seen, each
\* new symbol of the block is an attempt to solve it.
Attempt(s, b) ==
    IF ~ShouldRepair(s, b) THEN {s}
    ELSE {[r.session EXCEPT !.decoded[b] = @ \/ r.ok] : r \in RepairBlock(s, b)}

AfterSymbol(s, b, e, c) ==
    IF SymbolResult(s, b, e) # "ADDED" THEN {s}
    ELSE UNION {Attempt([AddSymbol(s, b, e, c, w) EXCEPT !.seen[b] = @ + 1], b) :
                   w \in Written(c)}

-----------------------------------------------------------------------------
(***************************************************************************)
(* The handling of a frame.                                                *)
(***************************************************************************)

Valid(f) == f.form = "ok"

\* The object completed last is not received again, while there is no other.
AlreadyReceived(f) == rx.completed /\ rx.last = f.oti /\ ~rx.active

\* A slip of NeedsSession: the wrong OTI is looked at.
NeedsSessionByLast(f) == ~rx.active \/ rx.last # f.oti

NeedsSession(f) == ~rx.active \/ rx.oti # f.oti

\* Wrong length, type or CRC; or a frame of the object completed last.
Ignore(f) ==
    /\ running
    /\ ~Valid(f) \/ AlreadyReceived(f)
    /\ UNCHANGED vars

\* rx_session_start fails: there is no output file, or no decoder.  The
\* session there was is lost, the object completed last is not forgotten.
StartFails(f) ==
    /\ running /\ Valid(f) /\ ~AlreadyReceived(f) /\ NeedsSession(f)
    /\ DiskMayFail \/ f.oti \in Refused
    /\ rx' = Reset(rx)
    /\ accepted' = [b \in {} |-> {}]
    /\ UNCHANGED <<running, announced>>

\* The session and the symbols taken in, when the symbol of f is looked at.
SessionFor(f) == IF NeedsSession(f) THEN NewSession(f.oti, rx.last) ELSE rx
AcceptedFor(f) == IF NeedsSession(f) THEN NoneAccepted(f.oti) ELSE accepted

\* A slip of IsComplete: one block is enough.
IsCompleteAny(s) == \E b \in SbnOf(s.oti) : s.decoded[b]

\* rx_session_is_complete
IsComplete(s) == \A b \in SbnOf(s.oti) : s.decoded[b]

Accept(f) ==
    /\ running /\ Valid(f) /\ ~AlreadyReceived(f)
    /\ NeedsSession(f) => f.oti \notin Refused
    /\ \E s \in AfterSymbol(SessionFor(f), f.sbn, f.esi, f.content) :
          IF IsComplete(s)
          THEN \* "FILE RECEIVED"
               /\ rx' = NoSession(TRUE, s.oti)
               /\ announced' = [oti |-> s.oti, file |-> s.file]
               /\ accepted' = [b \in {} |-> {}]
          ELSE /\ rx' = s
               /\ accepted' =
                     IF SymbolResult(SessionFor(f), f.sbn, f.esi) = "ADDED"
                     THEN [AcceptedFor(f) EXCEPT ![f.sbn] = @ \union {f.esi}]
                     ELSE AcceptedFor(f)
               /\ UNCHANGED announced
    /\ UNCHANGED running

\* A signal, or the transmit thread at a lost connection.
Stop == running /\ running' = FALSE /\ UNCHANGED <<rx, announced, accepted>>

\* The loop ends, or tcp_interface_recv_kiss reports a lost connection.
Leave ==
    /\ running' = FALSE
    /\ rx' = Reset(rx)
    /\ accepted' = [b \in {} |-> {}]
    /\ UNCHANGED announced

Receive(f) == Ignore(f) \/ StartFails(f) \/ Accept(f)

Next == (\E f \in Frames : Receive(f)) \/ Stop \/ Leave

Spec == Init /\ [][Next]_vars

\* A frame of the carousel that would change the session is received some time.
FairSpec == Spec /\ \A f \in Carousel : WF_vars(Accept(f))

-----------------------------------------------------------------------------
(***************************************************************************)
(* Properties.                                                             *)
(***************************************************************************)

\* The session has exactly the blocks of its OTI, and only members of its
\* object in them; without a session all is reset.
TypeOK ==
    /\ running \in BOOLEAN
    /\ rx.active \in BOOLEAN /\ rx.completed \in BOOLEAN
    /\ rx.last \in Otis \union {NoOti}
    /\ rx.oti \in Otis \union {NoOti}
    /\ ~rx.active => rx = NoSession(rx.completed, rx.last)
    /\ rx.active =>
          /\ rx.oti \in Otis
          /\ rx.blocks \in [SbnOf(rx.oti) -> [Esis -> Cells]]
          /\ DOMAIN rx.file = SbnOf(rx.oti)
          /\ \A b \in SbnOf(rx.oti) :
                rx.file[b] \in [SourceEsis(rx.oti, b) -> Cells]
          /\ rx.seen \in [SbnOf(rx.oti) -> Nat]
          /\ rx.decoded \in [SbnOf(rx.oti) -> BOOLEAN]
          /\ accepted \in [SbnOf(rx.oti) -> SUBSET Esis]

\* The daemon's count and the decoder's mask agree while a block is open, so
\* that an attempt to solve it is never one symbol short.
CountIsMask ==
    rx.active =>
        \A b \in SbnOf(rx.oti) :
            /\ rx.seen[b] = Cardinality(accepted[b])
            /\ ~rx.decoded[b] => Mask(rx, b) = accepted[b]
            /\ ~rx.decoded[b] /\ rx.seen[b] >= Symbols[rx.oti][b]
                  => Solvable(rx, b)

\* A block that has all its source symbols is known to be decoded: of such a
\* block every further symbol is ignored, so it would never be looked at again
\* and the file never be announced.
NoStuckBlock ==
    rx.active => \A b \in SbnOf(rx.oti) : Gaps(rx, b) = {} <=> rx.decoded[b]

\* A file that was announced is whole: each of its symbols was written, from
\* the air or from a solved block, and all are of the same contents.  (That
\* the writes succeed is nowhere checked.)
AnnouncedIsWhole ==
    announced # NoFile =>
        \E c \in Contents : HoldsWhole(announced.oti, announced.file, c)

\* The thread implements the delivery of objects over a carousel.
Delivery == INSTANCE ObjectDelivery WITH
    object <- rx.oti,
    got <- accepted,
    announced <- IF rx.completed THEN rx.last ELSE NoOti
RefinesObjectDelivery == Delivery!Spec

\* Once no other sender is heard and the output file can be made, a receiver
\* gets the object of a carousel, of which enough frames get through for each
\* block, in whatever state it was; unless it is stopped.
OnAir(o, b) == {f.esi : f \in {g \in Carousel : Valid(g) /\ g.oti = o /\ g.sbn = b}}
CanBeSolved(o) ==
    /\ o \notin Refused
    /\ \A b \in SbnOf(o) : \/ SourceEsis(o, b) \subseteq OnAir(o, b)
                           \/ Cardinality(OnAir(o, b))
                                 >= Symbols[o][b] + SureOverhead
Received(o) == rx.completed /\ rx.last = o
ObjectIsReceived ==
    \A o \in {p \in Otis : CanBeSolved(p)} :
        <>[][~running' \/ \E f \in Frames : f.oti = o /\ Accept(f)]_vars =>
            <>(Received(o) \/ ~running)
=============================================================================
