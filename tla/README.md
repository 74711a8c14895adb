# Verification of hermes-broadcast

TLA+ models of the broadcast programs of this repository, their model checking with TLC, and
proofs of their main invariants with TLAPS. `PROJECT.json` maps every definition to the lines it
stands for, and lists the runs, the theorems, and the hazards of the code with the properties
that cover them.

hermes-broadcast sends files one way over HF radio, to any number of receivers that cannot
answer. A file is cut into source blocks and symbols; a RaptorQ encoder (`raptorq/`) makes as many
further symbols as one likes, and any set that is slightly larger than the number of source
symbols gives the block back. So a sender can go round like a carousel, and a receiver may join
and miss whatever it likes.

## 1. The system

| part | source | state | operations | modules |
|---|---|---|---|---|
| ring buffer | `ring_buffer_posix.c` | head, tail, full, array, process-shared mutex, one condition variable, in shared memory | `write_buffer`, `read_buffer`, `read_buffer_all`, `put`, `get`, `reset`, `size_buffer` | `ByteQueue`, `RingBuffer`, `RingBufferProofs` |
| daemon, transmit thread | `daemon.c` | `tx_session_t`: path, mtime, budget, next block, ESI of each block | scan, stat, open, load, send a frame | `DaemonTx`, `DaemonTxProofs` |
| daemon, receive thread | `daemon.c` | `rx_session_t`: OTI, symbols seen, blocks decoded, object completed last | a frame: checks, session, symbol, attempt, announcement | `DaemonRx`, `DaemonRxProofs`, `ObjectDelivery` |
| decoder | `raptorq/nanorq.c`, `bitmask.c` | per block: mask of symbols, repair symbols; the output file | `nanorq_decoder_add_symbol`, `nanorq_repair_block` | `Decoder`, `DecoderProofs`, `BlockCodec` |
| object layout, OTI, tags | `raptorq/nanorq.c` | none | division into blocks, symbols and sub-symbols; what is sent of it | `Layout`, `BlockCodecProofs` |
| encoder and RaptorQ code | `nanorq.c`, `precode.c`, `params.c`, `tuple.c`, `sched.c`, `spmat.c`, `wrkmat.c` | per block: symbols, inverted or not; the matrix and the schedule of its inversion | `nanorq_generate_symbols`, `nanorq_encode`, `precode_matrix_*` | `Params`, `Precode`, `BlockCodec`, `BlockCodecTerms`, `BlockCodecProofs` |
| GF(256) | `oblas/` | tables | sum, product, inverse, rows | `OctField`, `BlockCodecProofs` |
| frame, CRC-6 | `daemon.c`, `crc6.c` | none | making and checking a frame | `Frame`, `BlockCodecProofs` |
| KISS framing | `kiss.c` | command, escape, collected bytes | `kiss_write_frame`, `kiss_read` | `Kiss`, `DaemonProofs` |
| modem connection | `tcp_interface.c` | connected, leftover bytes | `tcp_interface_send_kiss`, `tcp_interface_recv_kiss` | `TcpInterface`, `DaemonProofs` |
| daemon, main | `daemon.c` | `running`, threads, connection | start, signal, shutdown, joins | `Daemon`, `DaemonProofs` |
| transmitter | `transmitter.c` | running, the ESI of each block | a round: one configuration packet, one symbol of each block | `Transmitter` |
| receiver | `receiver.c` | OTI, symbols seen, blocks decoded | configuration packet, payload packet | `Receiver` |
| between the two | rings, two modems, the air | frames under way | | `Stream`, `LegacyLink`, `LegacyLinkProofs` |
| shared memory | `shm_posix.c`, `ring_buffer_posix.c` | two named segments of a ring | make, connect to, free, destroy | `SharedSegments`, `SharedSegmentsProofs` |
| file I/O, mode tables, `net.c`, `broadcast.c`, build files | | | | not modelled (section 9) |

How they interact. The **daemon** is a process with two threads that share a TCP connection to
the modem (one sends, one receives) and the flag `running`, which a signal or a lost connection
clears. Users put files into a directory which the transmit thread reads while they change it.
Each of its frames carries the whole OTI (length of the file, symbol size, numbers of blocks)
before the tag and the symbol. **transmitter** and **receiver** are the older pair. They reach the
modem through a ring in shared memory, or through TCP; the configuration is a packet of its own,
and a payload packet does not say which file it is of. All of them drive **nanorq**, and all
communication is one-way and lossy.

What is hard, and what makes each part correct:

- *Ring*: writers and readers wait on one condition variable with one signal per operation. It
  must be a FIFO with all-or-nothing chunks, nobody may sleep over work, and a client that dies
  must not corrupt the queue.
- *Transmit thread*: a file changes, disappears or grows between any two system calls, and the
  size, the time and the contents are read at different moments. Sessions must not be stale, the
  frame budget must hold across sessions, and the carousel must stay fair across the ESI wrap.
- *Receive thread and decoder*: frames come in any order, from several senders, and attempts
  to solve a block fail. The counters beside the decoder must agree with it, no block may get
  stuck, and what is announced must be whole.
- *KISS and TCP*: a stream cut into arbitrary pieces, partial sends, overlong frames. Frames
  arrive once and in order, and a cut costs one more frame.
- *Daemon, main*: two threads that block in one connection, a flag anybody may clear, and a
  release that must come last. Every stop must lead to an end.
- *Standalone pair*: no framing in the ring, no identity in payload packets, and a transmitter
  that ends by itself.
- *RaptorQ code*: an elimination with shortcuts and counters kept by decrements, of which a
  mistake shows only for some sets of received symbols; lengths that nothing divides; both ends
  must undo each other to the octet.
- *Shared memory*: a modem that dies between any two system calls and starts again over what it
  left, with programs attached to the old ring.

## 2. The ring: `ByteQueue`, `RingBuffer`, `RingBufferProofs`

Each blocking operation of the code is the loop "lock; proceed, signal, unlock, return, or wait,
unlock, again", and each arrow of it is an action: `Invoke`, `Lock`, one action per operation,
`CondWait` within them, `Reacquire`, `TryAgain`. What happens under the mutex is one step, since
nobody can look. Waiting may end without a signal (`SpuriousWakeup`), and a client in `Killable`
may die anywhere, with the mutex too. `ByteQueue` is what callers may rely on: a blocking FIFO in
which every call takes effect in the step in which it returns.

- `ring_pair`: one writer and one reader with chunks of one and two bytes on a ring of three, so
  that chunks end at, before and across the end of the array. Refinement, no missed wake-up,
  never both asleep, `read_buffer` after `size_buffer` (as `receiver.c` uses it) never waits, and
  each call returns as long as the other side keeps calling (`EveryCallReturns`).
- `ring_mixed`: put, get, reset, `read_buffer_all`, three clients, one of them killed. The system
  may stop here (a dead owner of the mutex; a signal that reaches the wrong one of three), so
  deadlock is not checked.

`put` and `get` wait on a full and an empty ring, where `ring_buffer_posix.h` (lines 76 and 81)
documents -1 at once. No program calls them; they are modelled as the code has them.

## 3. The transmit thread: `DaemonTx`, `DaemonTxProofs`

Every system call of `tx_thread_main` is an action (`Scan`, `StatFound`, `Fopen`, `Load`,
`StatUnchanged`, ...), interleaved with the users' `Create`, `Write`, `MoveIn`, `Remove` and the
clock in the resolution of `st_mtime`. A scan takes the names at one instant. inotify only
shortens a pause, so it is part of `ScanNothing`. `frames_sent` saturates at `FramesCap`, above
every budget; `next_sbn` is kept modulo the number of blocks. The history variables `sent`,
`mtimes` and `shared` say what was sent of a version of a file, which times a name had, and which
names had one time twice: these the daemon cannot tell apart.

- `tx_safe`: two names, the smaller with a budget of one frame, a file of two blocks, ESIs 0 and
  1 (so the wrap comes after four frames), two seconds, a connection that may break. `FrameFitsTag`,
  `Carousel`, `BudgetPerVersion`, `NotStale`, and `AloneFileIsSent`: a good file that stays alone
  in the directory is sent, for ever or up to its budget.
- `tx_empty` (violated, finding): an empty file is divided by its number of symbols, zero, before
  the check that would refuse it. Any copy into the directory is empty at first.
- `tx_reload` (violated, finding): "file changed, reloading" does not reload. The path given to
  `tx_session_open` lies in the session which that function clears first.

## 4. The receive thread: `Decoder`, `DaemonRx`, `ObjectDelivery`, `DecoderProofs`, `DaemonRxProofs`

`Decoder` says which symbols of which blocks are there and what was written where; a symbol is
represented by the contents it was made from, so that mixing two files shows. A block is solved
surely from all its source symbols or with `SureOverhead` symbols more than needed, and perhaps
in between: the rank of the matrix is a choice. `DaemonRx` handles a frame in one action, as the
thread shares nothing but the flag; the air brings any frame of the set, or none. `ObjectDelivery`
is the abstract specification, objects received over a carousel, and the thread refines it.

- `rx_busy`: two carousels, an OTI that the decoder refuses, damaged frames, a block number the
  object does not have, and a disk that may fail. `CountIsMask`, `NoStuckBlock`,
  `AnnouncedIsWhole`, `RefinesObjectDelivery`, and `ObjectIsReceived`: a carousel of which a source
  symbol of each block never gets through is received all the same.
- `rx_same` (violated, finding): a file replaced by one of the same length in mid-reception is
  announced as a mixture of both, because the OTI is the only identity of an object.

## 5. The connection and the daemon's life: `Kiss`, `TcpInterface`, `Daemon`, `DaemonProofs`

Bytes are kept as numbers here, because the properties are about escapes. `Put` writes a frame or
the first part of it (a partial send counts as success in the code), `RecvLeftover`, `RecvBytes`
and `RecvEnd` are the parts of `tcp_interface_recv_kiss`. `RecvFails` is a `recv` that fails because the connection
is broken: what was on its way never arrives. It may come at any time, nothing is fair about it, and only in budgets that
say so (`breaks`). `due` is computed from what was sent,
without looking at the stream, and says what must be received.

`Daemon` puts main, the transmit and the receive thread around that connection. The receive thread
runs the calls of `TcpInterface`; in the other direction frames are only counted, in a socket
buffer with `Room` for two of them, so that a send blocks when the modem does not read. A signal,
a failed send or the end of the connection clears `running`; main shuts the connection down, joins
both threads and disconnects. A send into a connection that was shut down raises SIGPIPE, which the
code does not ignore: the process dies (`TxKilled`). `StopEndsProgram` counts that as an end, too;
`ReleasedLast` says that a program that returns has released nothing under a thread's feet.

`daemon`: two budgets, one of which is chosen at the start. Either the modem sends three frames,
two of them cut, with each escape and one that is too long, in pieces of up to four bytes, and the
daemon only listens; or the modem sends one, perhaps cut, the daemon up to three, a signal may
come and the connection may break. `ReceivedInOrder` and `AllReceived` are about the first, `StopEndsProgram` and
`ReleasedLast` mostly about the second.
Frames that begin with `TFEND` or `TFESC` are excluded by assumption: `kiss_read` keeps a pending
escape over the end of a frame, and after a cut behind `FESC` would alter them (see hazards).
Two assumptions on constants came out of the proofs. `OtherCommand` is not `FEND` and its low four
bits are not those of data, or the byte would begin a frame instead of being its command; the
modem has no such command. And `MAX_PAYLOAD` is at least 1, as it is in the code.

## 6. The standalone pair: `Stream`, `Transmitter`, `Receiver`, `LegacyLink`, `LegacyLinkProofs`

`Stream` takes both rings, both modems and the air as one bounded sequence of frames that arrive
in order or not at all; that a ring is such a thing is what section 2 shows. A configuration
packet is written in two pieces (`TxConfig`, `TxStuffing`). A transmitter killed in between leaves a torn
frame, and `outOfStep` says that readers cut frames across the boundaries from then on. Kills
could bring them back in step only after the shifts add up to a whole frame, which takes more
starts than `MaxStarts`. Noise is taken to fail its CRC.

`legacy_link`: an OTI of two blocks, one of one block and one that is refused;
four files, two of which have one OTI; five ESIs (0 to 4)
for the 65536 of the code; two losses, two starts with any file, signals and kills. Without any
interruption the file is received before the transmitter has used up its ESIs (`FileIsReceived`:
three symbols of a block suffice, five are sent, two may be lost). A received file is one that was sent, and
whole, if every configuration packet came through and no two files with one OTI were sent
(`WholeUnlessConfigLost`). Both premises are about the history of the behaviour (`lost`, `sent`), not
about the files there are, and both are needed: payload packets do not say which file they are of,
and a configuration tells files apart by the OTI only.

Without the second premise TLC finds a counterexample in this same instance: a transmitter that is
stopped and started with another file of the same length makes the receiver fill up the first file with symbols of
the second and announce it, with no packet lost. It is the finding of `rx_same` in the other receiver
(`receiver.c`, lines 371 to 379, compares the OTI and nothing else), and a run of its own would only repeat it.

`receiver.c` has arrays of `MAX_BLOCKS` = 128 places and indexes them with a block number of one octet.
`ReceiverAssumption` says that the blocks of every OTI that is not refused are within `MaxBlocks`, as
those of the transmitter are: 16 MB in the shortest frames make 38. A configuration that is damaged and
passes its CRC, or that a foreign encoder has made, is outside the model (see hazards).

## 7. The code: `OctField`, `Params`, `Precode`, `Layout`, `Frame`, `BlockCodec`, `BlockCodecTerms`, `BlockCodecProofs`

These compute with octets, as the code does. `OctField` is GF(256): the tables are computed as
`tablegen.c` does, and products are looked up in the nibble tables; `TablesAreAField` compares them with
shift-and-add multiplication. `Params` has `params_init` and the columns of an encoding symbol.
`Precode` is the inversion: the constraint matrix, the choice of rows with its stacks `NZT` and
the counters `S.nz`, the permutations, the elimination, and the application of the
recorded operations to the symbols, one action per iteration of the code's outer loops. `Layout`
divides an object and makes the OTI and the tags, `Frame` the frame around a symbol.

`BlockCodec` joins them: an encoder generates a block's intermediate symbols, frames
carry encoding symbols, some are lost, the decoder writes what arrives and repairs the rest. Where
`Decoder` *chooses* whether the equations of a block are independent, this module computes it.

- `codec`: an object of 157 octets in symbols of two, which is 16 blocks, 15 of five symbols and one
  of four whose last symbol has an octet of padding; one block of either kind is followed. The
  attempts are those of the daemon (K symbols, then one more at a time) over several choices among
  17 ESIs, a whole block without repair, and callers that wait for many symbols; singular matrices
  are among them.
  - `DecodedIsSource` has four parts. `OctetsAreSource`: each octet that is written is that of the file.
    `BlockIsWhole`: nothing is written outside the block, and a decoded block is written to the last
    octet. `OctetsStay`: what is written is not written over with other octets, by symbols that arrive,
    attempts that fail, or repairs. `IsSystematic`: the first K encoding symbols are the block itself.
  - `SingularOnly`: the shortcuts of the choice of rows never cost a block, an inversion that is
    given up is one of a matrix with too small a rank (computed by plain elimination).
  - `ScheduleTracksMatrix`: the counters and permutations agree with the matrix while it shrinks.
  - `NoAbort`: the work matrix never runs out of spare rows, which would end the program.
  - `LayoutCoversObject`, over all divisions of objects of up to 14 octets with every alignment and
    interleaving: each octet is in exactly one place of one symbol of one block.
  - `BothEndsAgree`, over the symbol sizes of the modes and lengths at the boundaries of the octets
    of the OTI: a receiver computes the layout of the sender.
  - `DamageIsSeen`: the CRC sees every burst of up to six bits in a frame.
- `codec_overrun` (violated, finding): when the first phase has nothing to eliminate, the mark of its
  end is stored as -1 in an unsigned, and `precode_matrix_apply_sched` runs behind the list of operations.
  With K = 5 the ESIs 1, 2, 4, 7 and 13 do it, as do 20 of the 6187 choices of five among the ESIs 0 to 16 that
  have a gap. (The same input given to the repository's own library ends in a segmentation
  fault.) The attempts of `codec` have the choice 1, 2, 4, 7, 13, too. There that branch ends
  in "overrun", where the code's behaviour is undefined and no other property of `codec` says anything: they are about
  inversions that end.

`LengthsAssumption` says which lengths and symbol sizes there are: those that three and two
octets of the OTI can hold (`tx_load_file` takes no longer file), of which `Z_max` = 256 blocks of
`K_max` = 56403 symbols have room for the longest in symbols of two octets. `LayoutsAssumption` says of the
divisions what nanorq makes sure of, that a symbol is a whole number of alignment units, and that
there are not more sub-symbols than units (the code only ever makes one) and fewer than 65536: `fill_partition` takes
the number in 16 bits (`Uint16`), and of 65536, which only a damaged OTI says, none would be left. `ObjectAssumption` says the
same of the one object that is coded. `Table2Assumption` (in `Params`) is what the rows of
`table2.h` have in common: W is prime, S is at most W, there are at least three columns to inactivate and
not fewer than H, and a prime between P and its double (which there is for every number). `CodeAssumption`
says that some row has room for the largest block (`params_init` finds none otherwise, and goes on with no
row) and that for the symbols that can occur `rnd_get` returns remainders, as its `% m` does. TLC evaluates
them all.

The modules are written so that they can be proved about. An operator that takes an operator as its
argument (`SetToSortSeq`, `SelectSeq`, `FlattenSeq`, and in effect the power `2^n`) is opaque to the
provers, so `Params` has `Sorted` and `Kept`, defined by counting, `OctField` has the table `PlaceValue`, and sums
over rows are recursive functions. `BlockCodecTerms` names what the proofs speak of, first of all the
invariants `CodecInv` and `Written`; `BlockCodecProofs` has the theorems.

Two things are data of the instance instead of being computed: the rows of `table2.h` for up to 12
symbols, and what `rnd_get` returns for the arguments that occur (its four tables of 256 words are
the standard's). Not modelled: the vector kernels (they compute what the portable ones do) and
`nanorq_precalculate`, which no program calls.

## 8. Shared memory: `SharedSegments`, `SharedSegmentsProofs`

A ring lies in two segments with a name each. `circular_buf_init_shm` unlinks, makes and sizes one
and then the other, sets `max`, initialises the mutex and resets; each of these is an action, and the
modem may die between any two (`Dies`) and start again. Programs open and map the two names one
after the other, compare `max` and use the ring; a segment without a length kills whoever touches
it. `shared_segments` has a transmitter and a receiver and three starts, so that a start follows
one that died half way over the remains of one that went through. Symmetry exchanges the two
programs, which no property tells apart.

- `RestartMakesNewRing`: whatever was left, a start makes a whole new ring under both names, and no
  program that was attached before shares any of it, to its harm or profit.
- `CleanConnectWorks`: a program that connects while no start is under way gets both halves of the last
  ring, ready for use, or none. The premise is needed, for nothing in the code keeps a program from
  connecting during a start: then it dies of its assertion or of SIGBUS, has halves of two rings, or uses a
  mutex of zeroes.

## 9. Bounds, fairness, proofs

**Bounds.** All are constants named in the modules: `Max`, `MaxTime`, `FramesCap`, `MaxEsi`,
`MaxSends`, `MaxCuts`, `Budgets`, `MaxBlocks`, `Room`, `Capacity`, `MaxStarts`, `MaxLost`, `Attempts`. `MaxEsi` stands for 65535 and is chosen
so that the wrap (or the end) is reached; the theorems below hold for every value. The others
are small enough to finish and large enough that every action is taken, and that the case a property
is about happens: each property has a mutant of the code (in `PROJECT.json`) that violates it
under the same bounds. Deadlock is checked in `ring_pair`, `daemon`, `codec` and `shared_segments`;
elsewhere programs end or block for good when nothing more comes, and `CHECK_DEADLOCK FALSE` says
so.

**Fairness.** Ring: a client that can go on does, a free mutex is taken (`WF_vars(Run(c))`);
nothing is assumed of callers. Spurious wake-ups for ever are excluded in the property, since they
could keep the mutex busy. Transmit thread: the thread's own steps are weakly fair; users and
failures are not. Receive thread: each frame that is on the air for ever gets through now and then, `WF_vars(Accept(f))`
for the frames of `Carousel`; `Stop` is not fair, and the property allows it. Daemon: the scheduler runs
main and both threads, `WF_allVars(Main)`, `Tx` and `Rx`; TCP delivers what was sent before the connection
ends, nothing is asked of the modem, which may never read or send, and nobody makes the connection break. Standalone pair: both programs run, the transmitter is started once; losses
are bounded by `MaxLost`, and no other interference is fair.

**Proved** with TLAPS for all values of the constants (under the `ASSUME`s of the modules):

| theorem | of |
|---|---|
| `RingBufferProofs!TypeCorrect` | `TypeOK` |
| `RingBufferProofs!PairMissesNoWakeup` | `NoMissedWakeup`, for at most two clients and no reset |
| `RingBufferProofs!PairSomeoneAwake` | `SomeoneAwake`, if a read and a write chunk together are at most `Max + 1` |
| `RingBufferProofs!CheckedReadDoesNotWait` | `CheckedReadNeverWaits`, for a sole reader and no reset |
| `RingBufferProofs!RingIsByteQueue` | `RefinesByteQueue`, any clients, kills and resets |
| `DaemonTxProofs!TypeCorrect` | `TypeOK` |
| `DaemonTxProofs!FramesFitTheirTags` | `FrameFitsTag` |
| `DaemonTxProofs!CarouselIsFair` | `Carousel` |
| `DaemonTxProofs!BudgetIsKept` | `BudgetPerVersion` |
| `DaemonTxProofs!SessionIsNotStale` | `NotStale` |
| `DaemonRxProofs!TypeCorrect` | `TypeOK` |
| `DaemonRxProofs!CountAgreesWithMask` | `CountIsMask` |
| `DaemonRxProofs!NoBlockSticks` | `NoStuckBlock` |
| `DaemonRxProofs!ImplementsObjectDelivery` | `RefinesObjectDelivery` |
| `DaemonRxProofs!OnlyWholeFiles` | `AnnouncedIsWhole`, if frames of one OTI are of one file (`OtiTellsFiles`) |
| `DaemonProofs!TypeCorrect` | `TypeOK` of `TcpInterface`, in the daemon |
| `DaemonProofs!FramesInOrder` | `ReceivedInOrder`, any frames, `MAX_PAYLOAD` and receive buffer |
| `DaemonProofs!NothingMissing` | `AllReceived`, the same |
| `DaemonProofs!ReleaseComesLast` | `ReleasedLast` |
| `LegacyLinkProofs!TypeCorrect` | `TypeOK` |
| `LegacyLinkProofs!TornByKillsOnly` | `OnlyKillsTear` |
| `LegacyLinkProofs!NoBlockSticks` | `NoBlockIsStuck` |
| `LegacyLinkProofs!WholeFiles` | `WholeUnlessConfigLost`, with its premises `~lost` and `OtiTells(sent)` |
| `BlockCodecProofs!EveryFileFits` | the encoder's division, for every length and symbol size of the OTI |
| `BlockCodecProofs!EveryFileIsCovered` | `CoversObject` of that division |
| `BlockCodecProofs!LayoutsCover` | `LayoutCoversObject`, every length, alignment, number of blocks and of sub-symbols |
| `BlockCodecProofs!LayoutsAgree` | `BothEndsAgree` |
| `BlockCodecProofs!CodecInvariant` | `CodecInv`, the inductive invariant, every object, code and order of arrival |
| `BlockCodecProofs!ScheduleIsTrue` | `ScheduleTracksMatrix`, the same |
| `BlockCodecProofs!TablesAreOfAField` | `TablesAreAField` |
| `BlockCodecProofs!EveryBurstIsSeen` | `DamageIsSeen`, every symbol and symbol size |
| `BlockCodecProofs!NothingIsRewritten` | `OctetsStay` of `DecodedIsSource`, every object, code and order of arrival |
| `BlockCodecProofs!BlockIsItsOwn` | `BlockIsWhole` of `DecodedIsSource`, the same |
| `BlockCodecProofs!ArrivedIsSource` | `OctetsAreSource` until the block is repaired, as long as `IsSystematic` holds |
| `SharedSegmentsProofs!CleanConnectsWork` | `CleanConnectWorks`, any number of programs and starts |
| `SharedSegmentsProofs!RestartsMakeNewRings` | `RestartMakesNewRing`, the same |

The refinement of the ring rests on the type invariant and on lemmas about what `CopyIn`,
`CopyOut`, `AdvancePointer` and `RetreatPointer` do to the sequence of bytes from tail to head,
with and without a wrap. With two clients, `NoMissedWakeup` is inductive beside the type invariant
(the only waiter a signal can reach is the other client), and `SomeoneAwake` follows from it and
the arithmetic of the chunks. `CheckedReadNeverWaits` needs `CountStands` (what the reader was told
is still there) and `SleepsBeyondCount` (it only waits for more than that).

The invariant of the transmit thread is `Inv == TypeOK /\ SessionOK /\ ControlOK`: an open session
has a path, a good length and counters for its blocks, and where the thread stands says whether a
session is open and what the scan has found. `TypeOK` alone is not inductive, since `SendFrame` uses
the counters of a block that only `ControlOK` says to exist. `BudgetOK` adds, for each name, that
what was sent of its present version is what the session counts, plus at most one frame of a
session that was past its last stat when the change came. `FreshOK` adds that the times the
session and the scan hold are times the name has had, and that equal times mean the same version
unless the name is in `shared`. All three were model-checked on the instance of `tx_safe` before
they were proved.

The invariant of the receive thread says of each block of an open session (`BlockOK`) that the
daemon's counter is the number of symbols taken in, that the decoder's mask is those symbols while
the block is open, that nothing is missing exactly when the block is marked as decoded, and that
it was not marked before there were enough; and that a session all of whose blocks are decoded
is never kept. `NoStuckBlock` alone is not inductive: that a block which gets its last source symbol
is marked in the same step needs the counter to have reached the number of source symbols, hence
the agreement of counter and mask. That an attempt always has enough repair symbols follows by
counting: of at least as many symbols as the block needs, those that are no source symbols are at
least as many as the gaps (`EnoughToFill`). What does not depend on the daemon, from the symbol
that is added to the block that is solved, is in `DecoderProofs`, which the receiver's proof uses, too. The refinement takes from the invariant that a complete
session has enough symbols of each block. `OnlyWholeFiles` adds `OfOneFile`: all symbols of
the session are of one contents, and each source symbol that is there is in the file, unless the
write failed. It assumes `OtiTellsFiles`, which is exactly what the run `rx_same` takes away.

The standalone receiver keeps the same counts, so `NoBlockIsStuck` follows in the same way. For
`WholeUnlessConfigLost` the invariant has to follow a file from one program to the other. `ChainOK`
says of the stream that a payload packet is always behind a packet of its own file: a round begins
with the configuration, and a transmitter that starts begins with a round. `SentOK` says that
what is in the stream is of files that were sent. `OfOneFile` says, as long as no
configuration packet was lost and no two files with one OTI were sent, that there is one sent file of which all symbols at the receiver are,
and of which the next payload packet is if no configuration comes first. A loss keeps the chain,
because what is lost is the head of the stream; only the loss of a configuration breaks what
the head and the receiver have in common, and that is the premise. `TornOK` says that a frame that is torn while
the transmitter lives is the last one in the stream and what it lacks is what the transmitter
writes next, so only a kill can leave it so. `Inv` was model-checked on the instance of `legacy_link` first.

For the connection, what the receive thread returns is compared with a reader that gets the bytes
one by one (`ReadByte`). What it makes of a stream does not depend on where `recv` and `Feed` cut
it: runs of the reader compose and can be taken apart (`Compose`, `Decompose`), and a call of
`Feed` is such a run up to the first frame that comes out (`FeedReads`). What it makes of a frame,
escapes included, whole or cut anywhere, is what `Expect` puts into `due` (`PutReads`). The invariant `MeetsDue` is then
one sentence: whoever reads what is left over and then what is on its way, from the state the
decoder is in, ends with the frames that are due. Every step either moves bytes from one of these
places to the next or adds a frame and what it is due. `ReceivedInOrder` follows because the frames
read so far are a prefix of those read at the end, `AllReceived` because then nothing is left to
read. `ReceivedInOrder` alone says nothing about what is under way, so it is not inductive.

The division of an object is arithmetic. Things in parts of two sizes are laid out one after the
other, each in exactly one place (`SomePlace`, `OnePlace`). That is used three times: for the
blocks of an object, each of which is scaled by the units of a symbol; for the sub-blocks of a
block, scaled by its symbols; and for the pieces of one symbol. Quotients and remainders do the rest, and
`Pieces` shows that this is what `get_source_block`, `get_symbol_offset` and the steps of `transfer_esi`
compute. That the loop over the number of blocks ends, and before `Z_max`, is `LoopEnds` and `SchemeFits`.

The inversion. `CodecInv` says for each place of the program what the later steps rely on:
`SourceTyped` (what the encoder holds and what has arrived), `SymbolsTyped` (D has a row for each symbol the
matrix names, at the decoder with those behind K), `MatrixTyped` (A and the schedule are of the size
of the code, so that no operation names a row that is not there), `WorkTyped` and `StepsTyped` (the loops
over the work matrix are within the triangle and the U columns beside it), and `PrecondTrue`. This last
one is `Growing`, the loop invariant of `precode_matrix_precond`. It is what
`ScheduleTracksMatrix` becomes when it is made inductive: besides the counters `S.nz` and the ones on the diagonal
with nothing behind them, it needs the permutations to be inverse to each other, the stacks `NZT` to hold
rows only, and the number of columns that are neither in the triangle nor set aside never to be negative, or
the exchange of columns would reach into the triangle. It does not depend on which row is
chosen. A step is proved in three parts: rows are exchanged (`RowsMoved`), one or two columns leave the
rest (`ColsMoved`, `HaveLeft`), and each counter loses as many as the row has ones among these. That the columns
of a symbol are different from each other, which makes the counters right to begin with, is arithmetic of
the tuple: a step smaller than a prime passes every remainder before it comes back.

GF(256). That the tables of `tablegen.c` multiply is shown with powers of the generator. Each of the 255 nonzero
octets is one (`EveryOctetIsPower`), a power times `o` is `o` shifted as often (`PowerShifted`), shifting
distributes over sums (`SumKept`), and so the sum over the bits of `u` is the
entry at the sum of the logarithms (`ProductTimes`). The nibble tables are the same product taken apart.

CRC-6. An entry of the table is linear in the bits of its index (`EntrySum`), so the remainders of two
frames differ by the remainder of their difference. A difference that begins stays unless it is cancelled
within the burst (`CrcSeesHit`), and no burst of up to six bits, in one octet or across two, cancels itself.
Octets are taken apart into bits for this; there is no enumeration of frames.

What is written. `Written` says that the file at the receiver has octets exactly at the places of the
source symbols in the mask, and until the repair those are the octets of the encoding symbols. A repair
goes over the gaps one by one, by recursion over their number. By `LayoutsCover`'s lemmas different symbols
have different places, hence `NothingIsRewritten` and `BlockIsItsOwn`.

For the daemon's life the invariant `JoinedAreEnded` says, for each place main may be at, which
threads there are: those it has joined have ended, and those it has not started do not exist. For
shared memory, segments never lose what was made in them; the modem holds only segments of its
present start, programs that connected earlier only older ones; `CleanConnectsWork` follows from what
is finished when no start is under way.

**Only model-checked.** The liveness properties (liveness under fairness and ENABLED are beyond this
prover). Of the code three properties: `SingularOnly`, `NoAbort`, and what `ArrivedIsSource` leaves
of `DecodedIsSource`, which is `IsSystematic`, and `OctetsAreSource` for what a repair writes.
`SingularOnly` and `DecodedIsSource` are linear algebra over a field of 256 elements: that
elimination keeps the solutions of the equations, along the whole list of operations. They also do
not follow from the shape of the code for every matrix, for `precode_matrix_apply_sched` applies the
operations up to `marks[1]`, takes back those from `marks[0]` on down, and then goes on at
`marks[1]`. That this is the inverse relies on where the marks are, and that no later operation has
a row of the triangle as its source; the matrices of the tables are so, except those of the finding
in `codec_overrun`. `NoAbort` is about the number of spare rows of the work matrix, which is a
property of the matrices as well. The library's induction theorems take an operator and cannot be
used here; where the proofs need induction over the numbers they get it from `WFMin`, by which a set
of numbers has a least element (`SetInduction` and `Recursion` in `DaemonProofs` and
`BlockCodecProofs`). That is enough for the recursive functions of `Kiss` and of the code. No module
that is proved about declares RECURSIVE operators, which would cost the prover its SMT backend.

**Not modelled.** Options, logging and wording, the creation of directories. The buffering of stdio
(a file is announced before `fclose`). `io.c`: the programs use `ioctx_from_file` only, each function of
which is one call of stdio; the forms over memory and mappings have no caller. The mode tables are
constants. `net.c` and `broadcast.c` are in no program that the Makefile builds. The TCP mode of
the standalone programs as a composition: its loops are those of `Transmitter` and `Receiver`, its
connection that of `TcpInterface`, but the two are not joined. `pthread_create` that fails, whose
result is not looked at. `circular_buf_init`, a ring within one process, which no program calls. Damage that a CRC does not see, except where a set
of frames lists it.

## 10. Plan

Done: the ring, the transmit thread, the receive thread, the connection, the standalone pair, the
daemon's life, the code, the shared memory; proofs of the safety properties of the ring, of both
threads of the daemon, of its connection and its life, of the standalone pair, of the shared
memory, of the layout, of the field and the CRC, of the choice of rows, and of what a receiver writes. Left, the most useful first:

1. The rest of `DecodedIsSource`: that the operations of the schedule, applied to the symbols, solve the
   equations, for matrices of which the marks and sources of operations are as described in section 9.
2. The receive thread and the connection together: that the daemon's `DaemonRx` sees only frames that were
   sent follows from `FramesInOrder` and the CRC, but is stated nowhere.
3. The TCP mode of the standalone transmitter as a composition with `TcpInterface`: what it takes
   for sent when the connection is lost.
