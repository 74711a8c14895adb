----------------------------- MODULE LegacyLink -----------------------------
(***************************************************************************)
(* transmitter and receiver joined by the stream: what a file goes through *)
(* on its way, with frames lost on the air, a transmitter that is stopped, *)
(* killed or started with another file, and no way back for the receiver   *)
(* to ask for anything.                                                    *)
(***************************************************************************)
EXTENDS Transmitter, Receiver

CONSTANT MaxLost   \* bound: frames lost on the air
ASSUME LossAssumption == MaxLost \in Nat

VARIABLES
    losses,      \* frames lost so far
    interrupted, \* history: how the programs were interfered with
    sent         \* history: the files the transmitter was started with

vars == <<streamVars, txVars, rxVars, losses, interrupted, sent>>

Init ==
    /\ StreamInit /\ TxInit /\ RxInit
    /\ losses = 0 /\ interrupted = {} /\ sent = {}

Interrupt(how) ==
    interrupted' = interrupted \union {how} /\ UNCHANGED <<losses, sent>>
Go == UNCHANGED <<losses, interrupted, sent>>

Start == \E f \in Files :
            /\ TxStart(f)
            /\ interrupted' = interrupted \union {"restart" : n \in 1 .. starts}
            /\ sent' = sent \union {f}
            /\ UNCHANGED <<rxVars, losses>>
Lose == /\ losses < MaxLost /\ losses' = losses + 1
        /\ LoseFrame
        /\ UNCHANGED <<txVars, interrupted, sent>>
People == \/ TxSignal /\ Interrupt("signal") /\ UNCHANGED rxVars
          \/ TxKill /\ Interrupt("kill") /\ UNCHANGED rxVars
          \/ RxSignal /\ Interrupt("signal") /\ UNCHANGED txVars
Transmitting == Transmit /\ Go /\ UNCHANGED rxVars
Receiving == Receive /\ Go /\ UNCHANGED txVars

Next == Start \/ Lose \/ People \/ Transmitting \/ Receiving

Spec == Init /\ [][Next]_vars

\* Each program goes on while it can, and so does the modem; that somebody
\* starts the transmitter once is assumed, and nothing else of what people do.
FairSpec == /\ Spec
            /\ WF_vars(starts = 0 /\ Start)
            /\ WF_vars(Transmitting) /\ WF_vars(Receiving)

-----------------------------------------------------------------------------
(***************************************************************************)
(* Properties.                                                             *)
(***************************************************************************)

TypeOK ==
    /\ Len(stream) <= Capacity
    /\ \A i \in 1 .. Len(stream) :
          LET p == stream[i]
          IN  \/ p.type = "config" /\ p.file \in Files
              \/ /\ p.type = "payload" /\ p.file \in Files
                 /\ p.sbn \in SbnOf(p.file.oti) /\ p.esi \in Esis
    /\ outOfStep \in BOOLEAN /\ txRunning \in BOOLEAN
    /\ txPc \in {"round", "stuffing", "symbols", "off"}
    /\ txPc # "off" <=> txFile # NoTxFile
    /\ txPc # "off" => /\ txFile \in Files \intersect sent
                       /\ txEsi \in [SbnOf(txFile.oti) -> 0 .. MaxEsi + 1]
    /\ outcome \in {"on", "received", "todo", "stopped"}
    /\ rx.oti \in Otis \union {NoOti}
    /\ Configured =>
          /\ rx.blocks \in [SbnOf(rx.oti) -> [Esis -> Cells]]
          /\ rx.seen \in [SbnOf(rx.oti) -> 0 .. MaxEsi + 1]

\* Only a transmitter that was killed inside a configuration packet leaves a
\* torn frame to be read; else every reader stays in step.
OnlyKillsTear ==
    /\ outOfStep => "kill" \in interrupted
    /\ \A i \in 1 .. Len(stream) :
          IsTorn(stream[i]) =>
             "kill" \in interrupted \/ (i = Len(stream) /\ txPc = "stuffing")

OtiTells(files) == \A f, g \in files : f.oti = g.oti => f = g
ReceivedOneOf(files) ==
    \E f \in files : f.oti = rx.oti /\ HoldsWhole(rx.oti, rx.file, f.content)

\* A received file is one that was sent, and whole, if every configuration
\* packet came through and no two files with one OTI were sent: then the
\* receiver stops at the first packet of another file, before it takes any of
\* its symbols for those of the file it has.  Without the premises this is not
\* so: the receiver compares the OTI only and mixes two files that have it in
\* common, and it does not see a change of which it gets no configuration.
WholeUnlessConfigLost ==
    outcome = "received" /\ ~lost /\ OtiTells(sent) => ReceivedOneOf(sent)

\* Block by block: it has all its source symbols if and only if it is marked
\* as decoded; otherwise no symbol could ever mark it.
NoBlockIsStuck ==
    Configured => \A b \in SbnOf(rx.oti) : Gaps(rx, b) = {} <=> rx.decoded[b]

\* As long as nobody interferes the file is received, although the transmitter
\* ends by itself and nobody tells it what was lost: so many symbols are sent
\* that MaxLost of them may be missing.
Accepted(f) == f = NoTxFile \/ f.oti \notin Refused
FileIsReceived ==
    [](interrupted = {} /\ Accepted(txFile)) => <>(outcome = "received")
=============================================================================
