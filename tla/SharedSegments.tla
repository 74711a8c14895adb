--------------------------- MODULE SharedSegments ---------------------------
(***************************************************************************)
(* How a ring in shared memory comes to be, and how programs find it       *)
(* (circular_buf_init_shm, _connect_shm, _destroy_shm of                   *)
(* ring_buffer_posix.c with shm_posix.c).  The ring lies in two segments   *)
(* with a name each: the bytes in "-1", head, tail and mutex in "-2".  The *)
(* modem makes them, and makes them anew when it is started again, which   *)
(* it may be after it has died at any point; transmitters and receivers    *)
(* connect to whatever has the names.  Each action is one system call or   *)
(* one access to the shared state.                                         *)
(*                                                                         *)
(* What programs do with a ring they are attached to is modelled in        *)
(* RingBuffer; here it is empty or not.                                    *)
(***************************************************************************)
EXTENDS Naturals, Sequences

CONSTANTS
    Programs,   \* transmitters and receivers
    MaxStarts   \* bound: how often the modem is started

Part == {"-1", "-2"}
None == 0       \* the name has no segment

VARIABLES
    names,      \* the segment that has the name
    segments,   \* all there have been, with or without a name
    modem,      \* where the modem stands, and its two segments
    progs,      \* the same of each program
    starts,     \* how often the modem was started
    finished    \* the last of these starts went through to its end

vars == <<names, segments, modem, progs, starts, finished>>

Nothing == [q \in Part |-> None]
ModemOff == [pc |-> "off", part |-> "-1", has |-> Nothing]

\* from, settled: starts and finished when the program began to connect;
\* early: it was attached before the last start
ProgOff == [pc |-> "off", part |-> "-1", has |-> Nothing,
            from |-> 0, settled |-> FALSE, early |-> FALSE]

Init ==
    /\ names = Nothing
    /\ segments = << >>
    /\ modem = ModemOff
    /\ progs = [p \in Programs |-> ProgOff]
    /\ starts = 0
    /\ finished = FALSE

-----------------------------------------------------------------------------
(***************************************************************************)
(* The modem.                                                              *)
(***************************************************************************)

ModemAt(place) == modem.pc = place
ModemTo(place) == modem' = [modem EXCEPT !.pc = place]
OwnState == modem.has["-2"]
SetState(field, value) == segments' = [segments EXCEPT ![OwnState][field] = value]

\* circular_buf_init_shm begins.
Start ==
    /\ ModemAt("off") /\ starts < MaxStarts
    /\ starts' = starts + 1
    /\ finished' = FALSE
    /\ ModemTo("unlink")
    /\ progs' = [p \in Programs |->
                    [progs[p] EXCEPT !.early = progs[p].pc = "attached"]]
    /\ UNCHANGED <<names, segments>>

\* A slip of Unlinked: only the bytes are made anew.
UnlinkedBytesOnly(q) == IF q = "-1" THEN None ELSE names[q]

\* shm_create_and_get_fd: a name that is there is removed, ..
Unlinked(q) == None
Unlink ==
    /\ ModemAt("unlink") /\ ModemTo("create")
    /\ names' = [names EXCEPT ![modem.part] = Unlinked(modem.part)]
    /\ UNCHANGED <<segments, progs, starts, finished>>

\* .. the segment made, without a length, ..
Create ==
    /\ ModemAt("create")
    /\ LET q == modem.part
           id == IF names[q] = None THEN Len(segments) + 1 ELSE names[q]
       IN  /\ segments' = IF id \in DOMAIN segments THEN segments
                          ELSE Append(segments, [of |-> starts, sized |-> FALSE, max |-> FALSE,
                                                 mutex |-> FALSE, empty |-> TRUE])
           /\ names' = [names EXCEPT ![q] = id]
           /\ modem' = [modem EXCEPT !.pc = "size", !.has[q] = id]
    /\ UNCHANGED <<progs, starts, finished>>

\* A slip of Sized: the bytes are given no length.
SizedStateOnly(q) == q = "-2"

\* .. and given its length: zeroes.
Sized(q) == TRUE
Truncate ==
    /\ ModemAt("size")
    /\ segments' = [segments EXCEPT ![modem.has[modem.part]].sized = Sized(modem.part)]
    /\ modem' = [modem EXCEPT !.pc = IF modem.part = "-1" THEN "unlink" ELSE "max",
                              !.part = "-2"]
    /\ UNCHANGED <<names, progs, starts, finished>>

SetMax ==
    /\ ModemAt("max") /\ ModemTo("mutex")
    /\ SetState("max", TRUE)
    /\ UNCHANGED <<names, progs, starts, finished>>

InitMutex ==
    /\ ModemAt("mutex") /\ ModemTo("reset")
    /\ SetState("mutex", TRUE)
    /\ UNCHANGED <<names, progs, starts, finished>>

\* circular_buf_reset
Reset ==
    /\ ModemAt("reset") /\ ModemTo("check")
    /\ SetState("empty", TRUE)
    /\ UNCHANGED <<names, progs, starts, finished>>

\* assert(circular_buf_empty(cbuf))
CheckEmpty ==
    /\ ModemAt("check")
    /\ IF segments[OwnState].empty THEN ModemTo("serves") /\ finished' = TRUE
       ELSE ModemTo("aborted") /\ UNCHANGED finished
    /\ UNCHANGED <<names, segments, progs, starts>>

\* circular_buf_destroy_shm
Destroy ==
    /\ \/ ModemAt("serves") /\ modem' = [modem EXCEPT !.pc = "destroy", !.part = "-1"]
                            /\ names' = [names EXCEPT !["-1"] = None]
       \/ ModemAt("destroy") /\ modem' = ModemOff
                             /\ names' = [names EXCEPT !["-2"] = None]
    /\ UNCHANGED <<segments, progs, starts, finished>>

\* The modem dies, at any point; what it has made stays.
Dies ==
    /\ ~ModemAt("off") /\ modem' = ModemOff
    /\ UNCHANGED <<names, segments, progs, starts, finished>>

-----------------------------------------------------------------------------
(***************************************************************************)
(* The programs.                                                           *)
(***************************************************************************)

ProgTo(p, place) == progs' = [progs EXCEPT ![p].pc = place]
ProgEnds(p) == progs' = [progs EXCEPT ![p] = ProgOff]

\* circular_buf_connect_shm begins.
Begin(p) ==
    /\ progs[p].pc = "off"
    /\ progs' = [progs EXCEPT ![p].pc = "open", ![p].from = starts, ![p].settled = finished]
    /\ UNCHANGED <<names, segments, modem, starts, finished>>

\* shm_open and mmap; without a segment connect returns NULL and the program
\* ends.
Open(p) ==
    /\ progs[p].pc = "open"
    /\ LET q == progs[p].part
       IN  IF names[q] = None THEN ProgEnds(p)
           ELSE progs' = [progs EXCEPT ![p].has[q] = names[q], ![p].part = "-2",
                                       ![p].pc = IF q = "-1" THEN "open" ELSE "check"]
    /\ UNCHANGED <<names, segments, modem, starts, finished>>

\* assert(cbuf->internal->max == size): of a segment without a length there is
\* nothing to read, and the program dies in either case.
CheckMax(p) ==
    /\ progs[p].pc = "check"
    /\ LET state == segments[progs[p].has["-2"]]
       IN  ProgTo(p, IF state.sized /\ state.max THEN "attached" ELSE "crashed")
    /\ UNCHANGED <<names, segments, modem, starts, finished>>

\* It writes to the ring, or reads it empty.
Use(p) ==
    /\ progs[p].pc = "attached"
    /\ IF segments[progs[p].has["-1"]].sized
       THEN /\ \E empty \in BOOLEAN :
                   segments' = [segments EXCEPT ![progs[p].has["-2"]].empty = empty]
            /\ UNCHANGED progs
       ELSE ProgTo(p, "crashed") /\ UNCHANGED segments
    /\ UNCHANGED <<names, modem, starts, finished>>

\* circular_buf_free_shm, or the end of a program that has crashed
End(p) ==
    /\ progs[p].pc \in {"attached", "crashed"}
    /\ ProgEnds(p)
    /\ UNCHANGED <<names, segments, modem, starts, finished>>

Next ==
    \/ Start \/ Unlink \/ Create \/ Truncate \/ SetMax \/ InitMutex \/ Reset
    \/ CheckEmpty \/ Destroy \/ Dies
    \/ \E p \in Programs : Begin(p) \/ Open(p) \/ CheckMax(p) \/ Use(p) \/ End(p)

Spec == Init /\ [][Next]_vars

-----------------------------------------------------------------------------
(***************************************************************************)
(* Properties.                                                             *)
(***************************************************************************)

\* No start of the modem overlaps with the program's connecting.
Clean(p) == progs[p].settled /\ progs[p].from = starts

\* A program that connects while the modem is not starting, though it may be
\* dying or removing the ring, gets both halves of the ring of its last start,
\* ready for use, or none; it does not crash, then or when it uses the ring.
\* (Nothing in the code keeps a program from connecting during a start.)
CleanConnectWorks ==
    \A p \in Programs : Clean(p) =>
        /\ progs[p].pc # "crashed"
        /\ progs[p].pc = "attached" =>
               \A q \in Part : LET s == segments[progs[p].has[q]]
                               IN  s.of = starts /\ s.sized /\ (q = "-2" => s.max /\ s.mutex)

\* Wherever the modem died before, a start makes a whole ring under the two
\* names, and no program that was attached to an earlier one shares any of it:
\* it cannot disturb the new ring, and it is not served by it either.
RestartMakesNewRing ==
    /\ ModemAt("serves") =>
           \A q \in Part : LET s == segments[modem.has[q]]
                           IN  /\ names[q] = modem.has[q]
                               /\ s.of = starts /\ s.sized
                               /\ q = "-2" => s.max /\ s.mutex
    /\ \A p \in Programs : progs[p].early /\ progs[p].pc = "attached" =>
           \A q \in Part : progs[p].has[q] # modem.has[q]
=============================================================================
