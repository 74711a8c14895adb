----------------------------- MODULE MCDaemonTx -----------------------------
(***************************************************************************)
(* The instances of DaemonTx that TLC checks.                              *)
(***************************************************************************)
EXTENDS DaemonTx

CONSTANTS one, two   \* contents of one and of two source blocks

OneBlock == [c \in {one} |-> 1]
TwoBlocks == [c \in {two} |-> 2]

\* Names 1 and 2, of which 1 has the suffix "-1_frames".
OneFrameAndNone == <<1, 0>>
=============================================================================
