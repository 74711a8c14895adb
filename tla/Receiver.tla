------------------------------ MODULE Receiver ------------------------------
(***************************************************************************)
(* The receiver program: it waits for a configuration packet, makes a      *)
(* decoder from it, and ends with the file, or when a configuration packet *)
(* of another file comes.  Payload packets do not say which file they are  *)
(* of.  Until the configuration is there they are dropped.                 *)
(***************************************************************************)
EXTENDS Stream

CONSTANTS
    Refused,   \* those Otis of which nanorq_decoder_new makes no decoder
    MaxBlocks  \* MAX_BLOCKS, the length of esi[] and block_decoded[]

\* The receiver does not compare the number of blocks with that length.  With
\* the smallest frames and the longest file its transmitter makes 38 blocks.
ASSUME ReceiverAssumption ==
    /\ Refused \subseteq Otis /\ MaxBlocks \in Nat \ {0}
    /\ \A o \in Otis \ Refused : SbnOf(o) \subseteq 0 .. MaxBlocks - 1

VARIABLES
    outcome,   \* "on", and at the end "received", "todo" or "stopped"
    rx,        \* oti (NoOti before the configuration), the decoder's blocks,
               \* the output file, esi[] as seen, block_decoded as decoded
    lost       \* history: a configuration packet was lost, or taken in pieces

rxVars == <<outcome, rx, lost>>

RxInit ==
    /\ outcome = "on"
    /\ rx = [oti |-> NoOti, blocks |-> [b \in {} |-> NoSymbol],
             file |-> [b \in {} |-> NoSymbol],
             seen |-> [b \in {} |-> 0], decoded |-> [b \in {} |-> FALSE]]
    /\ lost = FALSE

Configured == rx.oti # NoOti
LosesConfig(p) == outOfStep \/ p.type = "config"

\* On the air, or between a modem and a ring that is full.
LoseFrame ==
    /\ Take
    /\ lost' = (lost \/ LosesConfig(Head(stream)))
    /\ UNCHANGED <<outcome, rx>>

\* A slip of OtherFile: the receiver goes on with the decoder it has.
OtherFileIgnored(p) == p.type = "config" /\ Configured /\ p.file.oti = NoOti

OtherFile(p) == p.type = "config" /\ Configured /\ p.file.oti # rx.oti

\* Bad CRC; a payload packet without configuration; a configuration of which
\* no decoder can be made, or once more the one there is.
Dropped(p) ==
    \/ p.type = "bad"
    \/ p.type = "payload" /\ ~Configured
    \/ p.type = "config" /\ ~Configured /\ p.file.oti \in Refused
    \/ p.type = "config" /\ Configured /\ ~OtherFile(p)
RxDrop ==
    /\ outcome = "on" /\ Take /\ Dropped(Taken)
    /\ lost' = (lost \/ outOfStep)
    /\ UNCHANGED <<outcome, rx>>

\* "RaptorQ initialized!"
RxConfig ==
    /\ outcome = "on" /\ Take /\ ~Configured
    /\ LET p == Taken
       IN  /\ p.type = "config" /\ p.file.oti \notin Refused
           /\ rx' = [oti |-> p.file.oti, blocks |-> NoBlocks(p.file.oti),
                     file |-> NoPlaces(p.file.oti),
                     seen |-> [b \in SbnOf(p.file.oti) |-> 0],
                     decoded |-> [b \in SbnOf(p.file.oti) |-> FALSE]]
    /\ UNCHANGED <<outcome, lost>>

\* "Need to reset the system to new file. TODO!"
RxOtherFile ==
    /\ outcome = "on" /\ Take /\ OtherFile(Taken)
    /\ outcome' = "todo"
    /\ UNCHANGED <<rx, lost>>

\* A slip of ShouldTry: one symbol late.
ShouldTryLate(s, b) == s.seen[b] > Symbols[s.oti][b]

\* have_more_symbols: only the symbol just added is a reason to try.
ShouldTry(s, b) == s.seen[b] >= Symbols[s.oti][b]

\* What the session may be after a symbol of block b.
AfterPayload(b, e, c) ==
    IF SymbolResult(rx, b, e) # "ADDED" THEN {rx}
    ELSE UNION {LET s == [AddSymbol(rx, b, e, c, w) EXCEPT !.seen[b] = @ + 1]
                IN  IF ~ShouldTry(s, b) THEN {s}
                    ELSE {[r.session EXCEPT !.decoded[b] = @ \/ r.ok] :
                             r \in RepairBlock(s, b)} : w \in Written(c)}

FileReceived(s) == \A b \in SbnOf(s.oti) : s.decoded[b]

RxPayload ==
    /\ outcome = "on" /\ Take /\ Configured
    /\ LET p == Taken
       IN  /\ p.type = "payload"
           /\ rx' \in AfterPayload(p.sbn, p.esi, p.file.content)
           /\ outcome' = IF FileReceived(rx') THEN "received" ELSE "on"
    /\ UNCHANGED lost

\* A signal, looked at before each frame and between two polls.
RxSignal ==
    /\ outcome = "on" /\ outcome' = "stopped"
    /\ UNCHANGED <<streamVars, rx, lost>>

Receive == RxDrop \/ RxConfig \/ RxOtherFile \/ RxPayload
=============================================================================
