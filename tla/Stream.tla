------------------------------- MODULE Stream -------------------------------
(***************************************************************************)
(* What lies between the transmitter and the receiver in shared memory     *)
(* mode: a ring, a modem, the air, a modem and a ring again, taken here as *)
(* one bounded stream of frames that arrive in order or not at all.        *)
(*                                                                         *)
(* Both rings are streams of bytes without any delimiter: who reads takes  *)
(* the next frame_size bytes.  The transmitter writes a configuration      *)
(* packet in two pieces; if it is killed between them, the stream holds a  *)
(* torn frame, and whoever reads on is out of step by what is missing.     *)
(***************************************************************************)
EXTENDS Decoder, Sequences

CONSTANTS
    Files,      \* the files that are transmitted: OTI and contents
    Capacity    \* bound: frames that fit in the stream

ASSUME FilesAssumption ==
    /\ Files \subseteq [oti : Otis, content : Contents]
    /\ Capacity \in Nat \ {0, 1}

VARIABLES
    stream,     \* the frames under way
    outOfStep   \* whether readers take their frames across the boundaries

streamVars == <<stream, outOfStep>>

StreamInit == stream = << >> /\ outOfStep = FALSE

ConfigPacket(f, whole) == [type |-> "config", file |-> f, whole |-> whole]
PayloadPacket(f, b, e) == [type |-> "payload", file |-> f, sbn |-> b, esi |-> e]
BadFrame == [type |-> "bad"]
IsTorn(p) == p.type = "config" /\ ~p.whole

Room == Len(stream) < Capacity
Append1(p) == stream' = Append(stream, p) /\ UNCHANGED outOfStep

\* As many bytes as a frame has can be read.  A torn frame needs those of the
\* next one, as every frame does once the reader is out of step.
Readable ==
    stream # << >> /\ (outOfStep \/ IsTorn(Head(stream)) => Len(stream) >= 2)

\* What the reader takes.  A torn configuration packet reads well, for its CRC
\* is over its first nine bytes; across a boundary all is noise.
Taken == IF outOfStep THEN BadFrame ELSE Head(stream)
Take ==
    /\ Readable
    /\ stream' = Tail(stream)
    /\ outOfStep' = (outOfStep \/ IsTorn(Head(stream)))
=============================================================================
