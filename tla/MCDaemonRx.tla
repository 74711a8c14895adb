----------------------------- MODULE MCDaemonRx -----------------------------
(***************************************************************************)
(* The instances of DaemonRx that TLC checks.                              *)
(***************************************************************************)
EXTENDS DaemonRx, TLC

CONSTANTS
    x, y, z,    \* OTIs: of two blocks, of one block, of no decoder
    a, b        \* contents

Good(o, blocks, esis, c) ==
    {[form |-> "ok", oti |-> o, sbn |-> s, esi |-> e, content |-> c] :
        s \in blocks, e \in esis}
Bad(o, c) ==
    {[form |-> m, oti |-> o, sbn |-> 0, esi |-> 0, content |-> c] :
        m \in {"length", "type", "crc"}}

TwoObjects == [o \in {x, y, z} |->
                  IF o = x THEN (0 :> 3 @@ 1 :> 1) ELSE (0 :> 2)]

\* Two senders on the air, a third object the decoder refuses, damaged frames,
\* and a frame whose block its object does not have.
Busy == Good(x, {0}, 0 .. 4, a) \union Good(x, {1}, {0}, a) \union Good(y, {0}, {0, 2}, b)
        \union Good(z, {0}, {0}, a) \union Good(y, {5}, {1}, b) \union Bad(x, a)

OneObject == [o \in {x} |-> (0 :> 2 @@ 1 :> 2)]

\* The carousel of x, of which a source symbol of the first block never gets
\* through.
BusyCarousel == Good(x, {0}, {0, 2, 3, 4}, a) \union Good(x, {1}, {0}, a)

\* The file was replaced by one of the same length: the OTI is the same.
Replaced == Good(x, 0 .. 1, 0 .. 1, a) \union Good(x, 0 .. 1, 0 .. 3, b)
=============================================================================
