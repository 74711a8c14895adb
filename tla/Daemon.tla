------------------------------- MODULE Daemon -------------------------------
(***************************************************************************)
(* The life of broadcast_daemon (daemon.c): main connects, starts the      *)
(* transmit and the receive thread, waits until one of them or a signal    *)
(* clears the flag `running', shuts the connection down so that nobody     *)
(* stays blocked in it, joins both and closes the connection.              *)
(*                                                                         *)
(* What the modem sends, and how the receive thread reads it, is that of   *)
(* TcpInterface.  In the other direction frames are counted only: they lie *)
(* in the socket's buffer until the modem reads them, and send blocks while*)
(* there is no room.  What the threads do with the frames is modelled in   *)
(* DaemonTx and DaemonRx.                                                  *)
(***************************************************************************)
EXTENDS TcpInterface

CONSTANTS
    Room,     \* how many frames the socket's buffer holds
    Budgets   \* bounds, one of which is chosen at the start: frames of the
              \* modem, how many of them are cut, frames of the daemon, and
              \* whether a signal may come and the connection break

ASSUME DaemonAssumption ==
    /\ Room \in Nat \ {0}
    /\ Budgets \subseteq [sends : 0 .. MaxSends, cuts : 0 .. MaxCuts,
                          frames : Nat, signal : BOOLEAN,
                          breaks : BOOLEAN]

VARIABLES
    running,  \* the flag
    main,     \* where main stands
    tx, rx,   \* where the threads stand
    shut,     \* main has shut the connection down
    unread,   \* frames in the socket's buffer
    sent,     \* frames the daemon has sent
    process,  \* "runs", or how it ended: "exited", "killed" by SIGPIPE
    budget    \* the bounds of this behaviour

daemonVars == <<running, main, tx, rx, shut, unread, sent, process, budget>>
allVars == <<vars, daemonVars>>

Alive == process = "runs"

DaemonInit ==
    /\ Init
    /\ running = TRUE
    /\ main = "connect" /\ tx = "none" /\ rx = "none"
    /\ shut = FALSE
    /\ unread = 0 /\ sent = 0
    /\ process = "runs"
    /\ budget \in Budgets

-----------------------------------------------------------------------------
(***************************************************************************)
(* main.                                                                   *)
(***************************************************************************)

\* tcp_interface_connect succeeds, and the threads are created.
MainStarts ==
    /\ main = "connect"
    /\ main' = "wait" /\ tx' = "loop" /\ rx' = "loop"
    /\ UNCHANGED <<vars, running, shut, unread, sent, process, budget>>

\* It fails: there is no modem.
MainGivesUp ==
    /\ main = "connect"
    /\ main' = "returned" /\ process' = "exited"
    /\ UNCHANGED <<vars, running, tx, rx, shut, unread, sent, budget>>

MainSeesStop ==
    /\ main = "wait" /\ ~running
    /\ main' = "shutdown"
    /\ UNCHANGED <<vars, running, tx, rx, shut, unread, sent, process, budget>>

\* A slip of Shutdown: the threads are joined as they are.
ShutdownForgotten == UNCHANGED <<shut, open>>

\* shutdown with SHUT_RDWR: no more bytes come, and none can be sent.
Shutdown == shut' = TRUE /\ open' = FALSE
MainShutsDown ==
    /\ main = "shutdown" /\ Shutdown
    /\ main' = "join_tx"
    /\ UNCHANGED <<stream, sends, cuts, due, receiver, running, tx, rx, unread,
                   sent, process, budget>>

\* A slip of Joined: the receive thread is not waited for.
JoinedTxOnly == IF tx = "ended" THEN "disconnect" ELSE main

\* The two pthread_join
Joined ==
    IF main = "join_tx" /\ tx = "ended" THEN "join_rx"
    ELSE IF main = "join_rx" /\ rx = "ended" THEN "disconnect" ELSE main
MainJoins ==
    /\ main \in {"join_tx", "join_rx"} /\ Joined # main
    /\ main' = Joined
    /\ UNCHANGED <<vars, running, tx, rx, shut, unread, sent, process, budget>>

\* tcp_interface_disconnect closes the socket and destroys the mutex.
MainDisconnects ==
    /\ main = "disconnect"
    /\ main' = "released"
    /\ connected' = FALSE
    /\ UNCHANGED <<stream, sender, pc, kiss, partial, received, running, tx, rx,
                   shut, unread, sent, process, budget>>

MainReturns ==
    /\ main = "released"
    /\ main' = "returned" /\ process' = "exited"
    /\ UNCHANGED <<vars, running, tx, rx, shut, unread, sent, budget>>

Main ==
    /\ Alive
    /\ \/ MainStarts \/ MainGivesUp \/ MainSeesStop \/ MainShutsDown
       \/ MainJoins \/ MainDisconnects \/ MainReturns

\* handle_signal, on SIGINT or SIGTERM
Signal ==
    /\ Alive /\ budget.signal
    /\ running /\ running' = FALSE
    /\ UNCHANGED <<vars, main, tx, rx, shut, unread, sent, process, budget>>

-----------------------------------------------------------------------------
(***************************************************************************)
(* tx_thread_main: it waits for a file, at most half a second at a time,   *)
(* or sends a frame.                                                       *)
(***************************************************************************)

TxUnchanged == UNCHANGED <<stream, sender, pc, kiss, partial, received, main, rx,
                           shut, budget>>

TxEnds ==
    /\ tx = "loop" /\ ~running
    /\ tx' = "ended"
    /\ TxUnchanged /\ UNCHANGED <<connected, running, unread, sent, process>>

TxHasFrame ==
    /\ tx = "loop" /\ running /\ sent < budget.frames
    /\ tx' = "call"
    /\ TxUnchanged /\ UNCHANGED <<connected, running, unread, sent, process>>

\* tcp_interface_send_kiss up to send
TxCalls ==
    /\ tx = "call" /\ connected
    /\ tx' = "send"
    /\ TxUnchanged /\ UNCHANGED <<connected, running, unread, sent, process>>

\* tx_send_one_frame has failed: the thread clears the flag and ends.
TxGivesUp == running' = FALSE /\ tx' = "ended"

TxNotConnected ==
    /\ tx = "call" /\ ~connected
    /\ TxGivesUp
    /\ TxUnchanged /\ UNCHANGED <<connected, unread, sent, process>>

\* There is none, and the modem is there.
TxBlocks ==
    /\ tx = "send" /\ open /\ unread = Room
    /\ tx' = "blocked"
    /\ TxUnchanged /\ UNCHANGED <<connected, running, unread, sent, process>>

InSend == tx \in {"send", "blocked"}

\* There is room.  After the modem has gone the first frame may still find it.
TxSends ==
    /\ InSend /\ ~shut /\ unread < Room
    /\ unread' = unread + 1
    /\ tx' = "loop" /\ sent' = sent + 1
    /\ TxUnchanged /\ UNCHANGED <<connected, running, process>>

\* A send that was blocked with a part of its frame in the buffer returns when
\* the connection ends.
TxCutShort ==
    /\ tx = "blocked" /\ ~open
    /\ tx' = "loop" /\ sent' = sent + 1
    /\ TxUnchanged /\ UNCHANGED <<connected, running, unread, process>>

\* The modem has reset the connection.
TxFails ==
    /\ InSend /\ ~open
    /\ TxGivesUp
    /\ connected' = FALSE
    /\ TxUnchanged /\ UNCHANGED <<unread, sent, process>>

\* Writing to what was shut down or closed raises SIGPIPE, which nobody has
\* asked to ignore.
TxKilled ==
    /\ InSend /\ ~open
    /\ process' = "killed"
    /\ TxUnchanged /\ UNCHANGED <<connected, running, tx, unread, sent>>

Tx ==
    /\ Alive
    /\ \/ TxEnds \/ TxHasFrame \/ TxCalls \/ TxNotConnected \/ TxBlocks
       \/ TxSends \/ TxCutShort \/ TxFails \/ TxKilled

-----------------------------------------------------------------------------
(***************************************************************************)
(* rx_thread_main.                                                         *)
(***************************************************************************)

RxUnchanged == UNCHANGED <<main, tx, shut, unread, sent, process, budget>>

RxEnds ==
    /\ rx = "loop" /\ ~running
    /\ rx' = "ended"
    /\ RxUnchanged /\ UNCHANGED <<vars, running>>

RxCalls ==
    /\ rx = "loop" /\ running
    /\ rx' = "in"
    /\ RxUnchanged /\ UNCHANGED <<vars, running>>

\* tcp_interface_recv_kiss has returned -1: the thread clears the flag and ends.
RxGivesUp == running' = FALSE /\ rx' = "ended"

RxNotConnected ==
    /\ rx = "in" /\ pc = "call" /\ ~connected
    /\ RxGivesUp
    /\ RxUnchanged /\ UNCHANGED vars

\* A step of the call; when it returns, the loop goes on unless the connection
\* has ended.
RxStep(Step) ==
    /\ rx = "in" /\ Step
    /\ IF pc' = "recv" THEN UNCHANGED <<rx, running>>
       ELSE IF connected /\ ~connected' THEN RxGivesUp
       ELSE rx' = "loop" /\ UNCHANGED running
    /\ RxUnchanged

Rx ==
    /\ Alive
    /\ \/ RxEnds \/ RxCalls \/ RxNotConnected
       \/ RxStep(RecvLeftover) \/ RxStep(RecvBytes) \/ RxStep(RecvEnd)

\* The connection breaks while the thread reads.  Nobody makes it break: this
\* is no step of the thread that the scheduler brings about.
RxLosesConnection == Alive /\ budget.breaks /\ RxStep(RecvFails)

-----------------------------------------------------------------------------
(***************************************************************************)
(* The modem.                                                              *)
(***************************************************************************)

ModemSends ==
    \E f \in Frames :
        /\ sends < budget.sends
        /\ \/ SendKiss(f) \/ SendOther(f)
           \/ cuts < budget.cuts /\ SendPart(f)

ModemReads ==
    /\ unread > 0 /\ unread' = unread - 1
    /\ UNCHANGED <<vars, running, main, tx, rx, shut, sent, process, budget>>

Modem ==
    /\ Alive /\ main # "connect"
    /\ \/ (ModemSends \/ Close) /\ UNCHANGED daemonVars
       \/ ModemReads

Ended == ~Alive /\ UNCHANGED allVars

DaemonNext ==
    Main \/ Signal \/ Tx \/ Rx \/ RxLosesConnection \/ Modem \/ Ended

\* The scheduler runs main and both threads; nothing is asked of the modem.
DaemonSpec ==
    /\ DaemonInit /\ [][DaemonNext]_allVars
    /\ WF_allVars(Main) /\ WF_allVars(Tx) /\ WF_allVars(Rx)

-----------------------------------------------------------------------------
(***************************************************************************)
(* Properties.                                                             *)
(***************************************************************************)

\* Every frame that can be received is received, and the end of the connection
\* ends the program, when there is nothing else that ends it: no signal, no
\* break with frames on their way, and nothing to send.
EndIsReached ==
    (<>(~open) /\ ~budget.signal /\ ~budget.breaks /\ budget.frames = 0) =>
        <>(process = "exited" /\ received = due.out)

\* Once somebody has cleared the flag or the connection is lost, the program
\* ends, whatever main and the threads are waiting for: a thread in recv with
\* nothing to read, a thread in send while the modem reads nothing, a thread
\* that waits for a file, main for the threads.
StopEndsProgram == (~running \/ ~open) ~> ~Alive

\* The connection and its mutex are released when no thread can use them, and
\* main returns only then.
ReleasedLast ==
    main \in {"released", "returned"} =>
        tx \in {"ended", "none"} /\ rx \in {"ended", "none"}
=============================================================================
