-------------------------------- MODULE Kiss --------------------------------
(***************************************************************************)
(* KISS framing (kiss.c) as functions: what kiss_write_frame makes of a    *)
(* frame, and what kiss_read does with one byte of the stream.  A frame is *)
(* the sequence of its bytes; the decoder's frame_len is the length of     *)
(* what it has collected.                                                  *)
(***************************************************************************)
EXTENDS Integers, Sequences, SequencesExt

CONSTANT MaxPayload   \* MAX_PAYLOAD: a longer frame is cut off
ASSUME MaxPayloadAssumption == MaxPayload \in Nat \ {0}

FEND == 192
FESC == 219
TFEND == 220
TFESC == 221
CmdData == 2
CmdUnknown == 254
Byte == 0 .. 255

NoFrame == << >>   \* kiss_read returns 0, for an empty frame too

\* A slip of Escape: a byte that looks like the escape is sent as it is.
EscapeFendOnly(b) == IF b = FEND THEN <<FESC, TFEND>> ELSE <<b>>

Escape(b) ==
    IF b = FEND THEN <<FESC, TFEND>> ELSE
    IF b = FESC THEN <<FESC, TFESC>> ELSE <<b>>

EscapeAll(frame) == FlattenSeq([i \in DOMAIN frame |-> Escape(frame[i])])
Encode(command, frame) == <<FEND, command>> \o EscapeAll(frame) \o <<FEND>>
KissWriteFrame(frame) == Encode(CmdData, frame)

KissInit == [in_frame |-> FALSE, command |-> CmdUnknown, escape |-> FALSE,
             collected |-> << >>]

Unescape(b) == IF b = TFEND THEN FEND ELSE IF b = TFESC THEN FESC ELSE b

\* A payload byte.  An escape stays pending across the ends of frames: nothing
\* but a payload byte clears it.
Collect(s, b) ==
    IF b = FESC THEN [s EXCEPT !.escape = TRUE]
    ELSE [s EXCEPT !.collected = Append(@, IF s.escape THEN Unescape(b) ELSE b),
                   !.escape = FALSE]

\* A slip of Full: one byte more than the buffer holds.
FullOffByOne(s) == Len(s.collected) > MaxPayload

\* The buffer is full: what follows in the frame is dropped.
Full(s) == Len(s.collected) >= MaxPayload

\* What kiss_read returns, and the state it leaves.
KissFrame(s, b) ==
    IF s.in_frame /\ b = FEND /\ s.command = CmdData THEN s.collected
    ELSE NoFrame
KissState(s, b) ==
    IF b = FEND THEN
        IF s.in_frame /\ s.command = CmdData THEN [s EXCEPT !.in_frame = FALSE]
        ELSE [s EXCEPT !.in_frame = TRUE, !.command = CmdUnknown,
                       !.collected = << >>]
    ELSE IF ~s.in_frame \/ Full(s) THEN s
    ELSE IF s.collected = << >> /\ s.command = CmdUnknown
         THEN [s EXCEPT !.command = b % 16]
    ELSE IF s.command = CmdData THEN Collect(s, b)
    ELSE s
=============================================================================
