---------------------------- MODULE Transmitter ----------------------------
(***************************************************************************)
(* The transmitter program in shared memory mode: rounds of one            *)
(* configuration packet and one symbol of each block, until some block has *)
(* used up its ESIs.  It is stopped by a signal, killed, and started again *)
(* with another file.                                                      *)
(***************************************************************************)
EXTENDS Stream

CONSTANTS NoTxFile,   \* the transmitter is not running
          MaxStarts   \* bound: how often it is started
ASSUME TransmitterAssumption ==
    NoTxFile \notin Files /\ MaxStarts \in Nat \ {0}

VARIABLES
    txRunning,  \* the flag the signal handler clears
    txPc,       \* "round", "stuffing", "symbols", or "off"
    txFile,     \* the file it transmits
    txSbn,      \* sbn of the loop over the blocks
    txEsi,      \* esi[sbn], the ESI that comes next
    starts      \* how often it was started

txVars == <<txRunning, txPc, txFile, txSbn, txEsi, starts>>

TxInit ==
    /\ txRunning = FALSE /\ txPc = "off" /\ txFile = NoTxFile
    /\ txSbn = 0 /\ txEsi = [b \in {} |-> 0] /\ starts = 0

\* main, up to the loop
TxStart(f) ==
    /\ txPc = "off" /\ starts < MaxStarts
    /\ txRunning' = TRUE /\ txPc' = "round" /\ txFile' = f
    /\ txSbn' = 0 /\ txEsi' = [b \in SbnOf(f.oti) |-> 0]
    /\ starts' = starts + 1
    /\ UNCHANGED streamVars

TxEnd ==
    /\ txPc' = "off" /\ txRunning' = FALSE /\ txFile' = NoTxFile
    /\ txSbn' = 0 /\ txEsi' = [b \in {} |-> 0]
    /\ UNCHANGED starts

\* The first write_buffer of write_configuration_packet, nine bytes.
TxConfig ==
    /\ txPc = "round" /\ txRunning /\ Room
    /\ Append1(ConfigPacket(txFile, FALSE))
    /\ txPc' = "stuffing"
    /\ UNCHANGED <<txRunning, txFile, txSbn, txEsi, starts>>

\* The second one, behind what the first has left.
TxStuffing ==
    /\ txPc = "stuffing"
    /\ stream' = [stream EXCEPT ![Len(stream)].whole = TRUE]
    /\ txPc' = "symbols" /\ txSbn' = 0
    /\ UNCHANGED <<outOfStep, txRunning, txFile, txEsi, starts>>

\* Slips of UsedUp: the ESI that does not fit in 16 bits is sent, too; the
\* last one that fits is not.
UsedUpLate(e) == e > MaxEsi + 1
UsedUpEarly(e) == e >= MaxEsi

UsedUp(e) == e > MaxEsi

\* write_esi and what follows it in write_interleaved_block_packets: when the
\* block has no ESI left, the program is at its end.
TxSymbol ==
    /\ txPc = "symbols" /\ txRunning /\ txSbn \in SbnOf(txFile.oti) /\ Room
    /\ Append1(PayloadPacket(txFile, txSbn, txEsi[txSbn]))
    /\ txEsi' = [txEsi EXCEPT ![txSbn] = @ + 1]
    /\ txSbn' = txSbn + 1
    /\ txRunning' = ~UsedUp(txEsi[txSbn] + 1)
    /\ UNCHANGED <<txPc, txFile, starts>>

\* All blocks were served.
TxRound ==
    /\ txPc = "symbols" /\ txRunning /\ txSbn \notin SbnOf(txFile.oti)
    /\ txPc' = "round"
    /\ UNCHANGED <<streamVars, txRunning, txFile, txSbn, txEsi, starts>>

\* A slip of TxLeave: the flag is looked at inside a configuration packet.
TxLeaveAnywhere == txPc # "off" /\ ~txRunning /\ TxEnd /\ UNCHANGED streamVars

\* The loops end, wherever the flag is looked at.
TxLeave ==
    /\ txPc \in {"round", "symbols"} /\ ~txRunning
    /\ TxEnd
    /\ UNCHANGED streamVars

Transmit == TxConfig \/ TxStuffing \/ TxSymbol \/ TxRound \/ TxLeave

\* SIGINT and its like only clear the flag; SIGKILL ends the program anywhere.
TxSignal ==
    /\ txRunning /\ txRunning' = FALSE
    /\ UNCHANGED <<streamVars, txPc, txFile, txSbn, txEsi, starts>>
TxKill == txPc # "off" /\ TxEnd /\ UNCHANGED streamVars
=============================================================================
