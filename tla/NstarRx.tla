------------------------------ MODULE NstarRx -------------------------------
(***************************************************************************)
(* The RX thread of ttc_nstar.c (rxThreadFunc, rxAcquireLock,              *)
(* rxHandleLockedState) against the two lines and the data interface it    *)
(* follows. The transponder raises LOCK_DETECT, then DATA_VALID, delivers  *)
(* frames while DATA_VALID is high, and loses the signal at any time; the  *)
(* application shuts the interface down at any time.                       *)
(*                                                                         *)
(* The thread sees the lines through nstarGPIOWaitEdge, which polls and    *)
(* compares with the last poll of the same line, and through               *)
(* nstarGPIORead, which does not count as a poll.                          *)
(***************************************************************************)
EXTENDS Naturals, Sequences

CONSTANTS MAX_PASSES,   \* bound on the signals the transponder locks onto
          MAX_FRAMES    \* bound on the frames of all passes

ASSUME RxBoundsAssumption == MAX_PASSES \in Nat /\ MAX_FRAMES \in Nat

NotPolled == 2

VARIABLES
    rxState, stopFlag,
    pc,           \* where the RX thread is
    lockDetect, dataValid,
    seen,         \* seen[line]: the line as the last wait polled it
    data,         \* frames in the data interface, each the pass it came in
    passes,       \* history: signals the transponder has locked onto
    frames,       \* history: frames the transponder has delivered
    acquired,     \* history: calls of onLockAcquired
    locked,       \* history: times LOCKED was entered
    lost,         \* history: calls of onLockLost
    received      \* history: what onFrameReceived was called with

codeVars == <<rxState, pc, seen>>
lineVars == <<lockDetect, dataValid>>
signalVars == <<lineVars, passes, frames>>
callVars == <<acquired, locked, lost, received>>
rxVars == <<codeVars, stopFlag, signalVars, data, callVars>>

Init ==
    /\ rxState = "IDLE" /\ stopFlag = FALSE /\ pc = "loop"
    /\ lockDetect = 0 /\ dataValid = 0
    /\ seen = [line \in {"lock", "valid"} |-> NotPolled]
    /\ data = <<>> /\ received = <<>>
    /\ passes = 0 /\ frames = 0
    /\ acquired = 0 /\ locked = 0 /\ lost = 0

\* Mutant: the loop does not look at stopFlag.
LoopForever ==
    /\ pc = "loop"
    /\ pc' = "wait_lock" /\ rxState' = "IDLE"
    /\ UNCHANGED <<seen, stopFlag, signalVars, data, callVars>>

Loop ==
    /\ pc = "loop"
    /\ IF stopFlag THEN pc' = "exited" /\ UNCHANGED rxState
                   ELSE pc' = "wait_lock" /\ rxState' = "IDLE"
    /\ UNCHANGED <<seen, stopFlag, signalVars, data, callVars>>

\* Mutant: the time is up before the edge is looked at.
WaitRisingTimed(here, line, value, onEdge) ==
    /\ pc = here
    /\ seen' = [seen EXCEPT ![line] = value]
    /\ pc' \in IF seen[line] = 0 /\ value = 1 THEN {onEdge, "loop"} ELSE {here, "loop"}
    /\ UNCHANGED <<rxState, stopFlag, signalVars, data, callVars>>

\* nstarGPIOWaitEdge for a rising edge of a line that now has this value:
\* found, polled once more without an edge, or given up.
WaitRising(here, line, value, onEdge) ==
    /\ pc = here
    /\ seen' = [seen EXCEPT ![line] = value]
    /\ pc' \in IF seen[line] = 0 /\ value = 1 THEN {onEdge} ELSE {here, "loop"}
    /\ UNCHANGED <<rxState, stopFlag, signalVars, data, callVars>>

WaitLock  == WaitRising("wait_lock", "lock", lockDetect, "acquire")
WaitValid == WaitRising("wait_valid", "valid", dataValid, "enter")

Acquire ==
    /\ pc = "acquire"
    /\ IF stopFlag THEN pc' = "loop" /\ UNCHANGED rxState
                   ELSE pc' = "tell_acquired" /\ rxState' = "ACQUIRING"
    /\ UNCHANGED <<seen, stopFlag, signalVars, data, callVars>>

\* onLockAcquired
TellAcquired ==
    /\ pc = "tell_acquired"
    /\ acquired' = acquired + 1
    /\ pc' = "wait_valid"
    /\ UNCHANGED <<rxState, seen, stopFlag, signalVars, data, locked, lost,
                   received>>

EnterLocked ==
    /\ pc = "enter"
    /\ IF stopFlag
         THEN pc' = "loop" /\ UNCHANGED <<rxState, locked>>
         ELSE pc' = "locked" /\ rxState' = "LOCKED" /\ locked' = locked + 1
    /\ UNCHANGED <<seen, stopFlag, signalVars, data, acquired, lost, received>>

\* Mutant: a shutdown leaves the loop without a report.
LockedAbandoned ==
    /\ pc = "locked"
    /\ pc' = IF stopFlag THEN "loop"
             ELSE IF dataValid = 0 THEN "leave" ELSE "read"
    /\ UNCHANGED <<rxState, seen, stopFlag, signalVars, data, callVars>>

\* The loop of rxHandleLockedState: stopFlag, DATA_VALID, then one read.
Locked ==
    /\ pc = "locked"
    /\ pc' = IF stopFlag \/ dataValid = 0 THEN "leave" ELSE "read"
    /\ UNCHANGED <<rxState, seen, stopFlag, signalVars, data, callVars>>

\* Mutant: the frame is not taken out of the interface.
ReadFrameTwice ==
    /\ pc = "read"
    /\ data # <<>>
    /\ received' = Append(received, Head(data))
    /\ pc' = "locked"
    /\ UNCHANGED <<rxState, seen, stopFlag, signalVars, data, acquired, locked,
                   lost>>

\* A frame is read and given to onFrameReceived.
ReadFrame ==
    /\ pc = "read"
    /\ data # <<>>
    /\ data' = Tail(data)
    /\ received' = Append(received, Head(data))
    /\ pc' = "locked"
    /\ UNCHANGED <<rxState, seen, stopFlag, signalVars, acquired, locked, lost>>

\* Mutant: an empty interface is read again at once.
ReadUntilData ==
    /\ pc = "read"
    /\ data = <<>>
    /\ UNCHANGED rxVars

ReadNothing ==
    /\ pc = "read"
    /\ data = <<>>
    /\ pc' = "recheck"
    /\ UNCHANGED <<rxState, seen, stopFlag, signalVars, data, callVars>>

\* Mutant: an empty interface ends the lock.
RecheckLeaving ==
    /\ pc = "recheck"
    /\ pc' = "leave"
    /\ UNCHANGED <<rxState, seen, stopFlag, signalVars, data, callVars>>

Recheck ==
    /\ pc = "recheck"
    /\ pc' = IF dataValid = 0 THEN "leave" ELSE "locked"
    /\ UNCHANGED <<rxState, seen, stopFlag, signalVars, data, callVars>>

LeaveLocked ==
    /\ pc = "leave"
    /\ rxState' = "LOCK_LOST"
    /\ pc' = "tell_lost"
    /\ UNCHANGED <<seen, stopFlag, signalVars, data, callVars>>

\* onLockLost
TellLost ==
    /\ pc = "tell_lost"
    /\ lost' = lost + 1
    /\ pc' = "loop"
    /\ UNCHANGED <<rxState, seen, stopFlag, signalVars, data, acquired, locked,
                   received>>

RxThread == \/ Loop \/ WaitLock \/ Acquire \/ TellAcquired \/ WaitValid
            \/ EnterLocked \/ Locked \/ ReadFrame \/ ReadNothing \/ Recheck
            \/ LeaveLocked \/ TellLost
-----------------------------------------------------------------------------
SignalFound ==
    /\ lockDetect = 0
    /\ passes < MAX_PASSES
    /\ lockDetect' = 1
    /\ passes' = passes + 1
    /\ UNCHANGED <<codeVars, stopFlag, dataValid, data, frames, callVars>>

SignalValid ==
    /\ lockDetect = 1 /\ dataValid = 0
    /\ dataValid' = 1
    /\ UNCHANGED <<codeVars, stopFlag, lockDetect, data, passes, frames,
                   callVars>>

DataInvalid ==
    /\ dataValid = 1
    /\ dataValid' = 0
    /\ UNCHANGED <<codeVars, stopFlag, lockDetect, data, passes, frames,
                   callVars>>

SignalLost ==
    /\ lockDetect = 1
    /\ lockDetect' = 0 /\ dataValid' = 0
    /\ UNCHANGED <<codeVars, stopFlag, data, passes, frames, callVars>>

FrameArrives ==
    /\ dataValid = 1
    /\ frames < MAX_FRAMES
    /\ data' = Append(data, passes)
    /\ frames' = frames + 1
    /\ UNCHANGED <<codeVars, stopFlag, lineVars, passes, callVars>>

\* NSTAR_Deinit
Stop ==
    /\ ~stopFlag
    /\ stopFlag' = TRUE
    /\ UNCHANGED <<codeVars, signalVars, data, callVars>>

Environment == SignalFound \/ SignalValid \/ DataInvalid \/ SignalLost
                 \/ FrameArrives \/ Stop

Stopped == pc = "exited" /\ UNCHANGED rxVars

Next == RxThread \/ Environment \/ Stopped

\* The thread keeps running: a wait that finds no edge is given up at last.
FairSpec == Init /\ [][Next]_rxVars /\ WF_rxVars(RxThread)
-----------------------------------------------------------------------------
RxStates == {"IDLE", "ACQUIRING", "LOCKED", "LOCK_LOST"}
RxLabels == {"loop", "wait_lock", "acquire", "tell_acquired", "wait_valid",
             "enter", "locked", "read", "recheck", "leave", "tell_lost",
             "exited"}

\* The state is well formed; a frame is in the interface or has been received,
\* not both.
TypeOK ==
    /\ rxState \in RxStates /\ stopFlag \in BOOLEAN /\ pc \in RxLabels
    /\ lockDetect \in 0..1 /\ dataValid \in 0..1
    /\ seen \in [{"lock", "valid"} -> 0..NotPolled]
    /\ passes \in 0..MAX_PASSES /\ frames \in 0..MAX_FRAMES
    /\ data \in Seq(1..MAX_PASSES) /\ received \in Seq(1..MAX_PASSES)
    /\ Len(data) + Len(received) = frames
    /\ acquired \in Nat /\ locked \in Nat /\ lost \in Nat

\* By the time the thread waits for the next signal, or has ended, every lock
\* it entered has been reported lost, and it entered none it had not reported
\* acquired.
LostForEveryLock ==
    /\ pc \in {"loop", "wait_lock", "exited"} => lost = locked
    /\ locked <= acquired

\* The thread does not stay LOCKED once DATA_VALID is low, whatever is left in
\* the data interface.
LockLeft == (rxState = "LOCKED") ~> (rxState # "LOCKED" \/ dataValid = 1)

\* In the loop of rxHandleLockedState the thread reads all the data there is, as
\* long as DATA_VALID stays high.
Drained ==
    (pc \in {"locked", "read", "recheck"} /\ data # <<>>)
        ~> (data = <<>> \/ dataValid = 0 \/ stopFlag)

\* After NSTAR_Deinit the thread ends, from whatever it is doing: the fairness
\* NstarCore assumes of RxExit.
ThreadStops == stopFlag ~> (pc = "exited")

\* A rise of a line that the wait for it has polled low is followed, however
\* many waits have timed out since, unless the line falls again: by ACQUIRING or
\* by LOCKED. A line that rises while nobody polls it, from a value polled high
\* or not polled at all, is not.
RiseFollowed ==
    /\ (pc \in {"loop", "wait_lock"} /\ seen["lock"] = 0 /\ lockDetect = 1)
         ~> (rxState = "ACQUIRING" \/ lockDetect = 0 \/ stopFlag)
    /\ (pc = "wait_valid" /\ seen["valid"] = 0 /\ dataValid = 1)
         ~> (rxState = "LOCKED" \/ dataValid = 0 \/ stopFlag)
=============================================================================
