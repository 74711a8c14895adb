-------------------------- MODULE MCSharedSegments --------------------------
(***************************************************************************)
(* The instance of SharedSegments that TLC checks: a transmitter and a     *)
(* receiver, and a modem that is started three times.                      *)
(***************************************************************************)
EXTENDS SharedSegments, TLC

Symmetry == Permutations(Programs)
=============================================================================
