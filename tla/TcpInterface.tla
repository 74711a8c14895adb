---------------------------- MODULE TcpInterface ----------------------------
(***************************************************************************)
(* One direction of the connection to the modem (tcp_interface.c): frames  *)
(* are written with KISS framing to a byte stream, and read from it by     *)
(* tcp_interface_recv_kiss, which takes the bytes in whatever pieces TCP   *)
(* hands out and keeps what is left after a frame for its next call.       *)
(*                                                                         *)
(* The peer speaks the same protocol; it may also send frames with another *)
(* command, or longer ones than MAX_PAYLOAD.  A send may be partial: it is *)
(* logged, and the next frame follows where the last one was cut.          *)
(*                                                                         *)
(* Daemon puts the actions of this module together with the rest of the    *)
(* program.                                                                *)
(***************************************************************************)
EXTENDS Kiss

CONSTANTS
    Frames,       \* the frames that are sent
    OtherCommand, \* a command that is not CMD_DATA
    MaxSends,     \* bound: number of frames sent
    MaxCuts,      \* bound: number of sends that were partial
    BufferSize    \* TCP_BUFFER_SIZE: the most that one recv returns

ASSUME FramesAssumption ==
    /\ Frames \subseteq Seq(Byte) \ {<< >>}
    /\ \A f \in Frames : f[1] \notin {TFEND, TFESC}
    /\ OtherCommand \in Byte \ {FEND} /\ OtherCommand % 16 # CmdData
    /\ MaxSends \in Nat /\ MaxCuts \in Nat /\ BufferSize \in Nat \ {0}

VARIABLES
    stream,     \* the bytes on their way
    open,       \* the sender's side of the connection
    connected,  \* iface->connected of the receiver
    pc,         \* "call": between calls; "recv": inside, after the leftover
    kiss,       \* recv_kiss_state, with the caller's frame_buffer
    partial,    \* recv_partial_buffer, up to recv_partial_len
    received,   \* the frames returned
    sends, cuts,\* frames sent, and how many of them in part
    due         \* history: what should be received (Expect, below)

sender == <<open, sends, cuts, due>>
receiver == <<connected, pc, kiss, partial, received>>
vars == <<stream, sender, receiver>>

-----------------------------------------------------------------------------
(***************************************************************************)
(* What should be received, told from what was sent without looking at the *)
(* bytes of the stream: due.out, the frames so far; due.cut, what arrived  *)
(* of a frame whose end was cut off behind its command.                    *)
(***************************************************************************)

Whole == << >>   \* no frame is cut; else <<what arrived of it>>
Fitting(f) == SubSeq(f, 1, IF Len(f) <= MaxPayload THEN Len(f) ELSE MaxPayload)

\* What arrives of a frame of which n bytes got through: the bytes whose
\* encoding is complete.
Arrived(f, n) ==
    LET whole == {k \in 0 .. Len(f) : Len(EscapeAll(SubSeq(f, 1, k))) <= n - 2}
    IN  Fitting(SubSeq(f, 1, CHOOSE k \in whole : \A m \in whole : m <= k))

\* The first byte of the frame behind a cut one ends that one, and what follows
\* is lost with it, up to its own end.
Expect(frame, command, n) ==
    IF due.cut # Whole THEN
        [out |-> IF due.cut[1] = << >> THEN due.out
                 ELSE Append(due.out, due.cut[1]), cut |-> Whole]
    ELSE IF n = Len(Encode(command, frame)) THEN
        [due EXCEPT !.out = IF command = CmdData
                            THEN Append(@, Fitting(frame)) ELSE @]
    ELSE IF n >= 2 THEN [due EXCEPT !.cut = <<Arrived(frame, n)>>]
    ELSE due

-----------------------------------------------------------------------------
Init ==
    /\ stream = << >>
    /\ open = TRUE
    /\ connected = TRUE
    /\ pc = "call"
    /\ kiss = KissInit
    /\ partial = << >>
    /\ received = << >>
    /\ sends = 0 /\ cuts = 0
    /\ due = [out |-> << >>, cut |-> Whole]

-----------------------------------------------------------------------------
(***************************************************************************)
(* The sender.                                                             *)
(***************************************************************************)

\* The first n bytes of the frame go out; the rest is lost.
Put(frame, command, n) ==
    /\ open /\ sends < MaxSends
    /\ stream' = stream \o SubSeq(Encode(command, frame), 1, n)
    /\ due' = Expect(frame, command, n)
    /\ sends' = sends + 1
    /\ UNCHANGED <<open, receiver>>

\* tcp_interface_send_kiss; a partial send counts as success.
SendKiss(f) == Put(f, CmdData, Len(KissWriteFrame(f))) /\ UNCHANGED cuts
SendPart(f) ==
    /\ cuts < MaxCuts /\ cuts' = cuts + 1
    /\ \E n \in 1 .. Len(KissWriteFrame(f)) - 1 : Put(f, CmdData, n)

\* The modem sends something that is not for us.
SendOther(f) ==
    Put(f, OtherCommand, Len(Encode(OtherCommand, f))) /\ UNCHANGED cuts

Close == open /\ open' = FALSE
         /\ UNCHANGED <<stream, sends, cuts, due, receiver>>

-----------------------------------------------------------------------------
(***************************************************************************)
(* tcp_interface_recv_kiss.                                                *)
(***************************************************************************)

\* Feed bytes to kiss_read up to the first frame: what is left, and the state.
Feed(bytes) ==
    LET fed[i \in 0 .. Len(bytes)] ==
            IF i = 0 THEN [frame |-> NoFrame, kiss |-> kiss, rest |-> << >>]
            ELSE LET before == fed[i - 1]
                 IN  IF before.frame # NoFrame THEN before
                     ELSE [frame |-> KissFrame(before.kiss, bytes[i]),
                           kiss |-> KissState(before.kiss, bytes[i]),
                           rest |-> SubSeq(bytes, i + 1, Len(bytes))]
    IN  fed[Len(bytes)]

\* A slip of Leftover: the byte after the frame is dropped.
LeftoverOffByOne(fed) == IF fed.rest = << >> THEN << >> ELSE Tail(fed.rest)

Leftover(fed) == fed.rest

Return(fed) ==
    /\ kiss' = fed.kiss
    /\ partial' = Leftover(fed)
    /\ received' = IF fed.frame = NoFrame THEN received
                   ELSE Append(received, fed.frame)

\* The leftover of the last call first; a frame in it is returned at once.
RecvLeftover ==
    /\ pc = "call" /\ connected
    /\ LET fed == Feed(partial)
       IN  /\ Return(fed)
           /\ pc' = IF fed.frame = NoFrame THEN "recv" ELSE "call"
    /\ UNCHANGED <<stream, sender, connected>>

\* recv returns n bytes; without a frame in them the call returns 0.
RecvBytes ==
    /\ pc = "recv"
    /\ \E n \in 1 .. BufferSize :
          /\ n <= Len(stream)
          /\ Return(Feed(SubSeq(stream, 1, n)))
          /\ stream' = SubSeq(stream, n + 1, Len(stream))
    /\ pc' = "call"
    /\ UNCHANGED <<sender, connected>>

\* A slip of RecvEnd: the end is taken for "no data available".
RecvEndIsNoData ==
    /\ pc = "recv" /\ stream = << >> /\ ~open
    /\ pc' = "call"
    /\ UNCHANGED <<stream, sender, connected, kiss, partial, received>>

\* recv returns 0: the peer has closed, and all it sent was read.
RecvEnd ==
    /\ pc = "recv" /\ stream = << >> /\ ~open
    /\ connected' = FALSE
    /\ pc' = "call"
    /\ UNCHANGED <<stream, sender, kiss, partial, received>>

\* recv returns -1: the connection is broken, and what was still on its way
\* never arrives.
RecvFails ==
    /\ pc = "recv"
    /\ open' = FALSE /\ connected' = FALSE
    /\ pc' = "call"
    /\ UNCHANGED <<stream, sends, cuts, due, kiss, partial, received>>

-----------------------------------------------------------------------------
(***************************************************************************)
(* Properties.                                                             *)
(***************************************************************************)

\* The decoder never collects more than the caller's buffer holds, and what is
\* left over is kept only between calls.
TypeOK ==
    /\ \A s \in {stream, partial, kiss.collected} : Range(s) \subseteq Byte
    /\ open \in BOOLEAN /\ connected \in BOOLEAN
    /\ pc \in {"call", "recv"}
    /\ kiss.in_frame \in BOOLEAN /\ kiss.escape \in BOOLEAN
    /\ kiss.command \in 0 .. 15 \union {CmdUnknown}
    /\ Len(kiss.collected) <= MaxPayload
    /\ sends \in 0 .. MaxSends /\ cuts \in 0 .. MaxCuts
    /\ pc = "recv" => partial = << >>

\* In whatever pieces the bytes come, and wherever frames were cut, the frames
\* are returned in order, each once: of a cut frame what arrived of it, at the
\* cost of the frame behind it and no other.
ReceivedInOrder ==
    IsPrefix(received, due.out)

\* Once the stream has been read to its end, nothing is missing.
AllReceived == (stream = << >> /\ partial = << >>) => received = due.out
=============================================================================
