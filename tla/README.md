# N-STAR transponder interface: TLA+ specifications

This directory models the OBC software interface of the Syrlinks N-STAR
transponder (`src/src/ttc_nstar.c` and what it runs on) in TLA+, checks small
instances with TLC and proves the central facts with TLAPS.

## The system

One process talks to one transponder over a UART, four GPIO lines and a data
interface with a clock. `NSTAR_Init` allocates a context (`struct NSTAR_Ctx`)
and starts three worker threads; the application thread calls the API. In the
SIL build the transponder is a second process (`src/sil/nstar_sim.c`) behind a
PTY, and the lines and the data are files.

| Component | State it keeps | Operations | Talks to |
|---|---|---|---|
| UART command path (`ttc_nstar.c:115-221`, `362-418`, `568-652`) | `uartMutex`; locals of the calling thread; bytes in the two UART directions | `NSTAR_RegRead`, `RegWrite`, `CMDReadIdentity`, `CMDReadAllRXStatus`, `CMDReset`, all through `cmdqExecute` | the device; called by every thread but RX |
| Device (`nstar_sim.c`) | 256 registers, `FORCE_TIMEOUT` | one command per loop turn | UART, control file |
| Life cycle (`ttc_nstar.c:224-355`) | `moduleState` under `stateMutex`, `stopFlag`, `identityValid`, the context itself | `NSTAR_Init`, `NSTAR_StartupSequence`, `NSTAR_Deinit` | creates and joins the workers; startup issues commands |
| TX pipeline (`ttc_nstar.c:654-803`) | `txActive`, `txBytesSent` (no lock), the TX clock, `TX_MODE` of the device | `NSTAR_TXStart`, `TXWrite`, `TXStop` | called by the application; `TXStop` by both monitor threads too; `onTXComplete` |
| Fault thread (`1085-1144`) | the last poll of FAULT_N | edge wait, TX stop, wait for recovery, hard reset, `onFault`, startup | FAULT_N, RESET_N, TX pipeline, life cycle |
| Health thread (`994-1083`) | none | every 30 s in READY: read temperatures, stop TX, `onFault` | UART, TX pipeline |
| RX thread (`935-992`) | `rxState`, the last polls of LOCK_DETECT and DATA_VALID | lock acquisition, frame delivery, lock loss | GPIO, data interface, three callbacks |
| Register groups (`405-561`, `871-933`, `1021-1044`) | none; the device latches a group at its last register | multi-register reads and latching writes | UART command path, one command per register |
| Frame codec (`ttc_nstar_frame.c`) | none | encode, decode, CRC16 | command path, simulator |
| SIL HAL (`ttc_nstar_hal_dummy.c`) | `gGPIOLast`, the read offset of the data file | UART, GPIO, data, clock | files, PTY |
| SIL application (`nstar_app_sil.c`, `sil_status.h`) | counters and last results, without a lock; the last values main has seen | reads its control file, makes the TX calls, rewrites its status file | test process |
| Linux HAL, mock HAL, flight `main`, tests | | stubs, unit-test doubles, an idle loop | |

### What is hard here

* Four threads share one UART. A request, an answer or both may be lost,
  altered, late or read in part, and a write may be carried out twice
  because its answer was lost.
* `txActive` and `txBytesSent` have no lock and three threads use them.
* `moduleState` has a lock, but is read once at the head of a long operation
  and written without looking at it.
* Edges of a GPIO line exist only between two polls; a line that moves while
  the thread is elsewhere makes an edge only if the last poll of the wait
  before saw it at its old level. The table that keeps these last polls
  (`gGPIOLast`) is shared by two threads without a lock.
* A group of registers is read and written one command at a time: others write
  in between, a command fails half-way, the device restarts.
* The SIL application shares a control file, which it truncates after reading,
  and a dozen globals, which four threads write, with a loop that reads each of
  them two or three times a round.
* Deinit joins threads that may be in a five-second wait, a reset, a startup
  sequence or `TXStop`.

`PROJECT.json` lists these as hazards, line by line, with the properties that
cover each.

### What makes each component correct

* Command path: OK means that the payload is the device's answer to this
  command and that the device has carried it out; `uartMutex` is given back.
* Life cycle: no worker runs on a freed context; Deinit returns; a fault that
  is taken up ends in a startup sequence.
* TX pipeline: a transmission that is on can be stopped, completes exactly
  once and reports the bytes the data interface took; the one a monitor thread
  found is over when the application is told of a fault or of an overheating, and
  a recovery lets in none but one that was being started.
* RX thread: every lock is reported lost, data is drained while it is valid,
  a rise that was polled low before is followed, shutdown ends the thread.
* Register groups: a value is in force only as a whole; a setter that returns
  OK has put its own in force; a getter that returns OK has read the number the
  device had, sign and all.
* GPIO waits: every line has a slot, and an edge reported lies between two polls
  of its line.
* SIL application: a command is executed once and in order; the status file ends
  up showing the globals.

## Modules

| Module | Models | State and actions |
|---|---|---|
| `NstarDevice` | the device's registers and `handleCommand` | operators only: `Commands`, `Effect`, `Answer`, `Done` |
| `NstarCommand` | abstract: what a command promises its caller | `Ask`, `Serve`, `CarryOut`, `Reply` |
| `NstarUart` | `cmdTransact`, `cmdqExecute`, `cmdqSendReceive`, both UART directions, the simulator's loop | one action per step of a command; implements `NstarCommand` with `serving <- owner` |
| `MCUart` | values of the sequence-valued constants | |
| `NstarUartProofs` | theorems about `NstarUart` | |
| `NstarContext` | the fields of the context, the hardware, the program counters, a command as one step | shared by the next four |
| `NstarTx` | `NSTAR_TXStart`, `TXWrite`, `TXStop` | one action per access to shared state or to the device |
| `NstarLifecycle` | `NSTAR_Init`, `NSTAR_StartupSequence`, `NSTAR_Deinit` | likewise |
| `NstarMonitors` | the fault thread and the health thread | likewise; of the RX thread only that it ends |
| `NstarCore` | the composition of the four with the hardware, and the properties | `AppCalls`, `AppSteps`, `FaultSteps`, `HealthSteps`, `RxExit`, `Hardware` |
| `NstarCoreProofs` | theorems about `NstarCore` | |
| `NstarDigits` | numbers and their digits: shifting together and taking apart, for the codec and the register groups | operators only |
| `NstarDigitsProofs` | theorems and lemmas about `NstarDigits` | |
| `NstarFrame` | the codec: `Encode`, `Decode`, `CRC16` over characters, in both builds | operators only |
| `NstarWire` | one direction of the UART as a stream of characters, read in pieces of any size | `Write`, `Noise`, `Read` |
| `MCWire` | the payloads and the noise | |
| `NstarWireProofs` | theorems about `NstarFrame` and `NstarWire` | |
| `NstarRx` | the RX thread against its two lines and the data interface | one action per read, wait or callback |
| `NstarRxProofs` | theorems about `NstarRx` | |
| `NstarRegs` | multi-register reads and latching writes by any number of callers, with resets and measurements of the device in between | `Set`, `WriteByte`, `WriteFails`, `Get`, `ReadByte`, `ReadFails`: one action per command; `Reset`, `Measure` |
| `MCRegs` | the groups, their limits, and measurements on both sides of the sign bit | |
| `NstarRegsProofs` | theorems about `NstarRegs` | |
| `NstarSil` | `main` of the SIL application, the callbacks in their threads, both files | one action per line read, call, truncation, sample, global refreshed; a callback is a load, a store and a second global |
| `MCSil` | the script of the test process: a stop, which may complete a transmission, and a write | |
| `NstarSilProofs` | theorems about `NstarSil` | |
| `NstarGpio` | `nstarGPIOWaitEdge` with `gGPIOLast`, called by two threads over files that are rewritten | one action per access to the table and per poll |
| `MCGpio` | the lines of the RX and the fault thread | |
| `NstarGpioProofs` | theorems about `NstarGpio` | |

How the levels fit: `NstarCore` takes a command over the UART as one step that
succeeds, or fails with or without its effect. That is what `NstarCommand` says
and `NstarUart` is shown to implement, as long as no answer comes after the
timeout. `NstarCore` takes the RX thread as one that ends when `stopFlag` is
set; `ThreadStops` of `NstarRx` is that fact. `NstarUart` takes the bytes of a
line as whole frames, altered frames and fragments, of which the decoder
accepts exactly one whole frame (`Decoded`); `OnlyWholeFrames` and
`WholeFramesRead` of `NstarWire` are that fact, character by character. The RX
thread shares nothing else with the others: it is the only reader of the data
interface and issues no command. `NstarRegs` takes a command as one step, like
`NstarCore`. `NstarRx` and `NstarMonitors` keep one last poll per line:
`RoomForAll`, `EdgeSeen` and `SlotsSettle` of `NstarGpio` say how far the table of
the HAL amounts to that. `NstarSil` takes the states of the interface as values
that come and go; what they are is `NstarCore`'s and `NstarRx`'s matter.

### Abstractions

* A frame is a value; its bytes are whole, altered, or the tail of a frame that
  was read in part. The build with `NSTAR_CRC_ENABLED` is modelled.
* Register values and addresses are small sets; a chunk of data is a unit; a
  frame received is known by the signal it came in with.
* Noise alters at most one character of a frame: a burst that short never
  escapes a CRC of 16 bits, while two altered characters may.
* Time is absent. A timeout is a step that is possible whenever nothing has
  arrived; "in time" means that the device has consumed the request when the
  host gives up (no `"late"` in `Faults`).
* Sequential composition of commands that nobody observes in between is one
  command in `NstarCore` (the four reads of `NSTAR_HealthRead`, whose failure
  has one consequence).
* A wait for an edge that returns an error is a timeout: the thread functions
  tell NSTAR_OK from the rest. `nstarGPIOWrite` of RESET_N may fail, and its result
  is ignored, as in the code (`RESET_FAILS`); a device held in reset answers
  nothing. A failure to stop the clock, ignored at `ttc_nstar.c:701`, `723` and `774`,
  is left out: the clock then runs on and nothing in the code would know.
* In `NstarRegs` a byte is a digit of base `BASE` (256 in the code), a group has
  `N` registers and the number its digits stand for. The four setters of the
  code (`NSTAR_SetRXSensitivity`, `SetTXFilter`, `SetRXFrequency`,
  `SetTXFrequency`) differ in their lengths and limits, which are constants.
* In `NstarSil` a state is one of two values, so that it may come back; the text
  of a line and of the status file is left out. `Events` (commands sent,
  changes of state, callbacks) are bounded together.
* Of the device's registers `NstarCore` keeps TX_MODE only; the sweep register
  that startup writes decides no step of any thread.
* A thread that runs on after the context is freed is shown as such and goes
  on in the model; what the program then does is undefined.
* The FPGA type read at startup is the expected one or the command fails: the
  two have the same consequence for `moduleState`.

## Runs

Bounds are named constants. Each was chosen as the smallest that lets the
interesting case happen, then raised while TLC finished in a few minutes.

| Run | Bounds | Shows |
|---|---|---|
| `uart_retry` | 2 threads, 2 registers, 2 values, 1 retry (the code's), 2 frames per direction, faults drop, corrupt, hal | `AnswerMatchesDevice`, `LineQuietBetweenCommands`, `TypeOK`, and that `NstarUart` implements `NstarCommand` |
| `uart_any` | 1 thread, every fault | `HolderReleases`: a holder of `uartMutex` lets go |
| `core_tx` | 2 transmissions, 1 fault, overheating, 1 chunk per transmission, any command may fail | `EndedBeforeNotified`, `OneLateStart`, `FreeAfterExit`, `StartingHasStarter`, `SerialClock`, `Completion`, `SerialBytes` |
| `core_live` | 1 transmission without data, 2 faults, overheating, a device that does not answer while FAULT_N is high, writes of RESET_N that may fail | `DeinitCompletes`, `FaultRecovered`, `FaultTakenUp` |
| `rx_follow` | 2 signals, 3 frames | `LostForEveryLock`, `LockLeft`, `Drained`, `RiseFollowed`, `ThreadStops` |
| `wire_read` | frames of 0, 1, 2, 19, 127 and (refused) 128 bytes, 2 frames on the wire, one altered character per frame while at most 20 characters wait, with and without CRC | `OnlyWholeFrames`, `WholeFramesRead`, `CRCIsRemainder` |
| `regs_groups` | 2 setters of a group of 3 registers, 1 reader of a group of 2, base 4, numbers 6, 25 and 32 (one of them out of range), the measurements 7 and 8 of 16, the last positive and the first negative number | `LatchesWhole`, `SetTakesEffect`, `ReadExact` |
| `sil_files` | a script of 2 commands, 2 events | `ExecutedInOrder`, `Counted`, `CommandsExecuted`, `StatusCatchesUp` |
| `gpio_slots` | the 2 threads and 3 lines of the code, 4 slots, two lines that move, the file of one of them empty at times | `RoomForAll`, `EdgeSeen`, `SlotsSettle` |
| `uart_late` | late answers | refutes `AnswerMatchesDevice`: a stale answer is taken for the next command's |
| `core_stale` | 2 transmissions, overheating | refutes `ClockFollowsSession`: a slow `TXStop` switches off the flag of the next transmission |
| `core_stuck` | 1 fault, the device silent while it lasts | refutes `FaultLeft`: the first startup fails while FAULT_N is high, FAULT_N falls before the fault thread has polled it, and FAULT is left to nobody |

Two transmissions are needed for one to be taken for another; one fault that
may be raised and cleared at any step already meets every step of the other
threads; two threads are needed for one to read the other's answer, and two
frames per direction for a stale frame to lie behind a fresh one. In `core_live`
a second fault is needed for a rise while the fault thread deals with the
first. A latching group of three registers, the longest of the code, has a
middle one; base 4 gives a sign bit, a carry and a first register narrower than
the others, as in RX_SENSITIVITY. In `core_tx` one chunk per
transmission is enough to be reported, discarded or counted late, in three
`TXStop`s that meet. In `sil_files` two events are enough for a
state to change and come back, for two callbacks to collide in one counter and
for a command to arrive in the window of another. In `gpio_slots` the claims of
the first two waits may collide in every way; a third moving line would only
repeat what the second does.

### What the conditions in the properties mean

Several properties have an exception, and the exception is what the code does
not handle; each is a history variable that records exactly that. The property
says that there is no other:

* `moved` (`ReadExact`): the group changed during a read. The bytes are then of
  different moments, and no getter can tell.
* `disturbed` (`LatchesWhole`, `SetTakesEffect`): another setter of the same group,
  or a reset, came into the call. The setters have no lock of their own.
* `late` (`CommandsExecuted`): a command was appended after the end of the file was
  read and before the truncation, which deletes it.
* `raced` (`StatusCatchesUp`): the globals that changed between the moment at which
  main samples the states and the end of the refresh, or that a callback had yet
  to set when it ended. The counters are noted as seen after they were written, so
  what happened in between is not shown until another change, although
  `sil_common.h:71-72` has the file rewritten on every one. The other globals are
  shown all the same.
* `collisions` (`Counted`, `StatusCatchesUp`): how often a thread began to count
  while another was in the increment of the same counter. `Counted` has no
  exception: it says that each collision loses at most one call, and that
  nothing else loses or adds one.
* `foreign` (`EdgeSeen`): two first waits claimed one slot, and one found the other
  line's value in it. `SlotsSettle` says that this does not go on for ever.
* `forgot` (`EdgeSeen`): a wait ended on a file that was empty for the moment, and
  left the value of an earlier one.

The TX pipeline does not keep its promises when two threads are inside it at
once. `core_stale` shows a transmission that nobody can stop; in the same way two
`TXStop` that both find `txActive` set both call `onTXComplete`, and one that reads
`txBytesSent` between the write of a chunk and its addition reports too little. The
history variable `overlapped` records that two have met;
`SerialClock`, `Completion` and `SerialBytes` say that everything else (faults,
overheating, lost commands, an aborted start, shutdown) is handled. Some promises
survive the meeting, and have no exception: a transmission that is neither on nor
completed is in the hands of a `TXStop` that is about to call `onTXComplete`
(`NoneForgotten`, part of `Completion`), `txBytesSent` never exceeds what was sent
(part of `TypeOK`), and of all transmissions only one that was being started when
the fault thread looked is committed during its recovery (`OneLateStart`).

### Fairness

`WF` of a thread's next step, nothing else: a thread that can move does. The
code justifies it by its scheduling (POSIX threads, no priorities) and because
no wait of it is unbounded: `nstarGPIOWaitEdge`, `nstarUARTRead` and
`nstarSleepMS` all have a timeout, which makes the step possible. Locks are not
assumed fair. Nobody has to call, to raise or clear a line, or to recover. A
poll of a line that finds it as the poll before changes no variable and is
no step, so weak fairness of the thread makes every wait end at last. In
`NstarSil` fairness is of `main` and of a callback that has begun; in `NstarGpio` of
a call that has begun, whose timeout makes its last poll possible at any time.
`FaultTakenUp` and `RiseFollowed` start from a line that was polled low and is
high: they fail when a wait does not leave its last poll to the next.

## Proofs

`NstarUartProofs` proves, for every number of threads, registers, values and
retries:

* `TypeCorrect`: `Spec => []TypeOK`, under every combination of faults.
* `AnswersAreOwn`, `QuietLine`: if answers are neither late nor split
  (assumption `InTime`, `"late"` and `"split"` not in `Faults`), then
  `Spec => []AnswerMatchesDevice` and `Spec => []LineQuietBetweenCommands`.
* `Refinement`: under the same assumption `Spec => Command!AbstractSpec`.

`AnswerMatchesDevice` is not inductive: that the reply held by a thread is
right depends on what was on the line when it was read. The inductive invariant
says that the mutex has exactly one holder and that thread is the only one past
the lock; that whatever is on the line belongs to the holder's command, with at
most one usable frame on it; that an answer on the line implies that the
command has been carried out; and that a reply taken is such an answer. A
retry repeats the command after a timeout, when with timely answers nothing is
on the line, which is the step the assumption is for: without it the run
`uart_late` shows the invariant false. Type correctness and the invariant are
proved action by action; the refinement follows from it.

`NstarCoreProofs` proves every safety invariant of the run `core_tx`, for every
number of transmissions, faults and chunks, all three kinds of UART and with
writes of RESET_N that may fail or may not, from `BoundsAssumption` and
`ResetFailsAssumption`:

* `TypeCorrect`, `FreedAfterExit`, `EndedFirst`: `TypeOK`, `FreeAfterExit` and
  `EndedBeforeNotified`, from the invariant `SafeInv`. What it adds to the
  three: a shared procedure returns to its caller, a worker does nothing
  before it is created and nothing after it is joined, unless its writes fail
  RESET_N is low only at one label of the fault thread, `txBytesSent` and the total
  that `TXWrite` holds are at most what the data interface took, and from the label at which a monitor's transmission has
  ended, a transmission that is on was started after the monitor had looked.
* `ClockInStep`, `CompletedOnce`, `BytesReported`: `SerialClock`,
  `Completion` and `SerialBytes`, from `SerialInv`: until two threads meet
  in the pipeline at most one is in it, and its label tells whether the
  transmission is on, whether the clock runs and what the total is. A step
  that lets a second thread in sets `overlapped`; every other step keeps the
  correspondence. `SerialInv` holds relative to `SafeInv`, which has
  `NoneForgotten`: `TXStart` counts a session as it sets `txActive`, and whoever clears
  the flag goes on to notify.
* `LateStartAlone`: `OneLateStart`. The count of transmissions and of the `TXStart`
  on its way to the commit (`LateStarts` in `SafeInv`) can grow by none while
  moduleState is FAULT; FAULT is also written by the application's own startup
  sequence, which comes before its first transmission.

Both go action by action, one lemma per procedure.

`StartersRemain` (`StartingHasStarter`) is part of `SafeInv` too: every label of the
startup sequence is left by the thread that is at it, and the two exits write
READY or FAULT; between the STARTING of `NSTAR_Init` and the call that follows the
application is on its way there (`StartingAlone`).

`NstarRegsProofs`, from `GroupAssumption` (lengths and limits; `BASE` is even, as a
sign bit needs it, and a multiple of every limit, as the masks 0x01, 0x0F, 0x3F,
0x7F and 0xFF make it) and from `ApartAssumption` (the group that is read and the
one that is written share no register, as in the code):

* `TypeCorrect`: `Spec => []TypeOK`, for groups of any length.
* `LatchedWhole`: `Spec => LatchesWhole`. The invariant `RegsInv` says that the
  registers a setter has written since it began hold its own bytes, unless it was
  disturbed; the write that latches then finds all of them.
* `SetterTakesEffect`: `Spec => SetTakesEffect`. A setter at work has an argument in
  its range, so the bytes it has cut the argument into are the digits of the
  argument, and the number they stand for is the argument again.
* `ReadsExact`: `Spec => ReadExact`, bytes and sign: a reader's buffer agrees with
  the registers up to the byte it has come to, unless the group moved.

`NstarDigitsProofs` holds what these and the codec share: `ValueOfDigits`, that the
digits of a number put together again are the number, for every base and length,
and its converse, that digits are told apart by their value. `Value` and `Power` are
recursive functions; every fact about them goes by a trace of the recursion and
an induction over a set of indices.

`NstarWireProofs` proves the codec for every identifier and payload the code takes
and every noise, from `CharsAssumption` (identifiers, data and noise are bytes):

* `DecodeEncode`: `nstarFrameDecode` undoes `nstarFrameEncode` in both builds.
* `CRC16IsRemainder`: that function computes CRC16-XMODEM. It takes a character in before it shifts and
  works with a table of eight shifts; it computes the remainder that the characters
  and 16 zero bits leave, divided by x^16 + x^12 + x^5 + 1. One step of the division
  is linear over GF(2) (`DivideLinear`, bit by bit); so eight steps that shift a
  character in are eight that shift zeros in, plus the character, and the value the
  code keeps is the remainder so far after 16 more zeros (`CRCAhead`).
* `CRCDetects`: two sequences that differ in one character have different CRCs. A
  shift and an exclusive or lose nothing, so neither do the loops made of them.
* `FramesRead`: `Spec => []WholeFramesRead`. `StreamInv` says that the frames that wait
  lie in the stream side by side, each as it was written but for at most one
  character, and for none if noise has spared it.
* `OnlyFramesDecoded`: `Spec => []OnlyWholeFrames`. `Covered` adds that nothing else is
  in the stream. A frame has delimiters at its ends and separators where its
  size field says, and hex digits, which are none of these, elsewhere; only the
  identifier may be anything (`Delimited`). If a piece of the stream is decoded and is
  not one whole frame, it begins inside a frame, or ends before the one it
  begins with or behind it; each puts two of these places where one
  frame has digits, or a size field where it has others, and takes two altered
  characters of one frame (`NotInside`, `NotOneLate`, `SameLength`). So it is one frame,
  and if a character of it is altered, `CRCDetects` has the CRC build refuse it.
* `CRCsAreRemainders`: `Spec => []CRCIsRemainder`: the CRC in a frame is that of
  everything before it, second separator included (the code's choice, and its
  tests'; `ttc_nstar.h:402-403` and `README.md:297` leave it out, a finding in
  `PROJECT.json`). From `StreamInv`, `Covered` and
  `CRC16IsRemainder`.

`NstarRxProofs`: `TypeCorrect` and `LocksReported` (`LostForEveryLock`), from an
invariant that ties the counts of locks, acquisitions and losses to the label
of the thread.

`NstarSilProofs`, for every script, any number of events and the four threads the
code has (RX, fault, health, main), each with any number of callbacks:

* `TypeCorrect`: `FairSpec => []TypeOK`.
* `CommandsInOrder`: `ExecutedInOrder`. What is in the file beyond the position read
  is later than all that was executed, and the file is in the order it was sent
  (`OrderInv`).
* `AllCounted`: `Counted`. The invariant bounds a counter from both sides.
  `Ahead`: the counter, and what each thread in the increment has read, are at most
  the calls less the threads in it, so no store counts a call twice. `Behind`: they
  fall short of the calls by no more than the collisions, and by one while
  somebody is in the increment; a thread that comes in alone reads a counter that
  lacks nothing but past collisions, and one that comes in on another adds one.

`NstarGpioProofs`, for any threads that wait for lines of their own and any table
with at least as many slots as there are lines (`LinesAssumption`):

* `TypeCorrect`, and `RoomForEveryLine`: `Spec => []RoomForAll`. The invariant is
  `TableInv`: no two slots are marked with one line; a slot that is taken is marked;
  one that is marked and not yet taken belongs to a thread about to take it; a
  thread about to mark a slot has none marked. It survives the collisions, since a
  claim that loses leaves its line without a slot, never with two. A full table in
  which a line had no slot would put every slot to another line: one line too many,
  by the pigeonhole principle.
* `EdgesAreSeen`: `Spec => EdgeSeen`. `HistoryInv` adds what is in a slot: what a line
  has left in it is what was last read from that line (or that the file was
  empty), until the line's thread polls again; a slot that is claimed holds no
  earlier value of the line that claims it, which is why a wait is misled by
  another line's value (`foreign`) and never by an old one of its own.

Every safety invariant of the passing runs is proved, and the action properties
`LatchesWhole`, `SetTakesEffect`, `ReadExact` and `EdgeSeen`, and the refinement. Left to
TLC is liveness and everything under fairness. Proved under conditions: the results
of `NstarUartProofs` that assume `InTime`, which `uart_late` shows to be needed.

## Not modelled

* What happens after `pthread_create` fails in `NSTAR_Init` for a later
  thread: `InitFailed` frees the context while the earlier threads run
  (`ttc_nstar.c:267-271`, no join), and everything they do then is undefined.
* `ttc_nstar_hal_linux.c`: stubs that return errors. `ttc_nstar_hal_mock.c`,
  `src/tests`: unit-test code; `src/sil/test_sil.c`: the test driver. `src/main`:
  init, startup, an idle loop; a special case of the application of `NstarCore`.
* That `moduleState` follows the "legal transitions" of the header:
  `setModuleState` does not look at the state it leaves, so the header's table is
  not a property of the code (a fault before Init has returned is INITIALISING ->
  FAULT, Deinit during a recovery is followed by STARTING). What holds is
  `StartingHasStarter`.
* A truncation of the control file that fails (`nstar_app_sil.c:178-179`): its
  commands would be executed again each time round.
* A clock that cannot be stopped, and null pointers and bad descriptors passed to
  the HAL.
* Partial writes of the data interface, the read offset of its file, and the
  rates TX and RX configure in one register.
* The simulator's own control file: its truncation window is that of the
  application's, which `NstarSil` models. A comment in `sil_common.h` (53-54) has the
  simulator poll `reset_n`; `nstar_sim.c` has no such poll, so a hardware reset
  does nothing in the SIL build. `NstarCore` gives RESET_N the effect it has on
  the real module, which powers up again.
* Conversions of measurements to physical units, which are pure formulas.

## Plan

1. Done: command path, life cycle, TX, monitors, RX thread, codec, register
   groups, SIL application, GPIO waits, and the proofs above.
2. Next: `NstarRx` over `NstarGpio`, so that the RX thread's last polls are the table's.
3. `NSTAR_RXConfigure` beside `TXStart` (one register holds both rates), and partial
   writes of the data interface.
