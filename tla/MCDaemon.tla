------------------------------ MODULE MCDaemon ------------------------------
(***************************************************************************)
(* The instance of Daemon that TLC checks: bytes that need escaping, the   *)
(* escape's own second bytes as data, and a frame that is too long; either *)
(* a busy modem and a daemon that only listens, or little from the modem   *)
(* with everything that the daemon does.                                   *)
(***************************************************************************)
EXTENDS Daemon

FrameBytes == {<<FEND>>, <<65, FESC>>, <<FESC, TFEND, 65>>}

MCBudgets == {[sends |-> 3, cuts |-> 2, frames |-> 0,
               signal |-> FALSE, breaks |-> FALSE],
              [sends |-> 1, cuts |-> 1, frames |-> 3,
               signal |-> TRUE, breaks |-> TRUE]}
=============================================================================
