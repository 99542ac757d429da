---------------------------- MODULE NstarRxProofs ---------------------------
(***************************************************************************)
(* Proofs about the RX thread, for any number of signals and frames.       *)
(***************************************************************************)
EXTENDS NstarRx, TLAPS

\* DATA_VALID is only high with LOCK_DETECT, and LOCK_DETECT for a signal.
Signal == /\ dataValid = 1 => lockDetect = 1
          /\ lockDetect = 1 => passes \in 1..MAX_PASSES

InLock == {"locked", "read", "recheck", "leave", "tell_lost"}

\* One lock is open while the thread is in LOCKED or on its way out, and an
\* acquisition has been reported before every lock, the next one included.
Balance == /\ lost = IF pc \in InLock THEN locked - 1 ELSE locked
           /\ pc \in InLock => locked > 0
           /\ acquired >= IF pc \in {"wait_valid", "enter"} THEN locked + 1
                          ELSE locked

RxInv == TypeOK /\ Signal /\ Balance
-----------------------------------------------------------------------------
USE RxBoundsAssumption
    DEF RxInv, TypeOK, Signal, Balance, InLock, RxStates, RxLabels, NotPolled,
        codeVars, lineVars, signalVars, callVars, rxVars

\* The initial state satisfies the invariant.
LEMMA RxInit == Init => RxInv
<1> SUFFICES ASSUME Init PROVE RxInv
  OBVIOUS
<1>1. stopFlag \in BOOLEAN
  BY Zenon DEF Init
<1> QED  BY <1>1 DEF Init

\* The thread waits for a line to rise.
LEMMA RxWait ==
    ASSUME RxInv, WaitLock \/ WaitValid
    PROVE  RxInv'
<1>1. CASE WaitLock
  BY <1>1 DEF WaitLock, WaitRising
<1>2. CASE WaitValid
  BY <1>2 DEF WaitValid, WaitRising
<1> QED  BY <1>1, <1>2

\* A frame is in the interface or has been received.
LEMMA RxRead ==
    ASSUME RxInv, ReadFrame
    PROVE  RxInv'
<1>1. /\ data # <<>> /\ data \in Seq(1..MAX_PASSES)
      /\ received \in Seq(1..MAX_PASSES)
      /\ data' = Tail(data) /\ received' = Append(received, Head(data))
  BY DEF ReadFrame
<1>2. /\ data' \in Seq(1..MAX_PASSES) /\ received' \in Seq(1..MAX_PASSES)
      /\ Len(data') = Len(data) - 1 /\ Len(received') = Len(received) + 1
  BY <1>1
<1>3. Len(data') + Len(received') = frames
  <2>1. Len(data) \in Nat /\ Len(received) \in Nat
    BY <1>1
  <2>2. Len(data) + Len(received) = frames
    OBVIOUS
  <2> HIDE DEF RxInv
  <2> QED  BY <1>2, <2>1, <2>2
<1>4. /\ pc = "read" /\ pc' = "locked"
      /\ UNCHANGED <<rxState, seen, stopFlag, lockDetect, dataValid, passes,
                     frames, acquired, locked, lost>>
  BY DEF ReadFrame
<1> HIDE DEF RxInv
<1>5. TypeOK'
  BY <1>2, <1>3, <1>4 DEF RxInv
<1>6. Signal' /\ Balance'
  BY <1>4 DEF RxInv
<1> QED  BY <1>5, <1>6 DEF RxInv

\* The steps of the thread
LEMMA RxSteps ==
    ASSUME RxInv, RxThread
    PROVE  RxInv'
<1>1. CASE Loop
  BY <1>1 DEF Loop
<1>2. CASE Acquire
  BY <1>2 DEF Acquire
<1>3. CASE TellAcquired
  BY <1>3 DEF TellAcquired
<1>4. CASE EnterLocked
  BY <1>4 DEF EnterLocked
<1>5. CASE Locked
  BY <1>5 DEF Locked
<1>6. CASE ReadNothing
  BY <1>6 DEF ReadNothing
<1>7. CASE Recheck
  BY <1>7 DEF Recheck
<1>8. CASE LeaveLocked
  BY <1>8 DEF LeaveLocked
<1>9. CASE TellLost
  BY <1>9 DEF TellLost
<1> QED  BY <1>1, <1>2, <1>3, <1>4, <1>5, <1>6, <1>7, <1>8, <1>9, RxWait, RxRead
         DEF RxThread

\* The steps of the transponder and of the application
LEMMA RxEnvironment ==
    ASSUME RxInv, Environment
    PROVE  RxInv'
<1>1. CASE SignalFound
  BY <1>1 DEF SignalFound
<1>2. CASE SignalValid
  BY <1>2 DEF SignalValid
<1>3. CASE DataInvalid
  BY <1>3 DEF DataInvalid
<1>4. CASE SignalLost
  BY <1>4 DEF SignalLost
<1>5. CASE FrameArrives
  <2>1. data' \in Seq(1..MAX_PASSES) /\ Len(data') = Len(data) + 1
    BY <1>5 DEF FrameArrives
  <2> QED  BY <1>5, <2>1 DEF FrameArrives
<1>6. CASE Stop
  <2>1. stopFlag' \in BOOLEAN
    BY <1>6, Zenon DEF Stop
  <2> QED  BY <1>6, <2>1 DEF Stop
<1> QED  BY <1>1, <1>2, <1>3, <1>4, <1>5, <1>6 DEF Environment

\* Every step preserves it.
LEMMA RxStep == RxInv /\ [Next]_rxVars => RxInv'
<1> SUFFICES ASSUME RxInv, [Next]_rxVars PROVE RxInv'
  OBVIOUS
<1>1. CASE UNCHANGED rxVars
  BY <1>1
<1> QED  BY <1>1, RxSteps, RxEnvironment DEF Next, Stopped
-----------------------------------------------------------------------------
HIDE DEF RxInv, TypeOK, LostForEveryLock

\* The invariant holds in every reachable state.
LEMMA RxAlways == FairSpec => []RxInv
BY RxInit, RxStep, PTL DEF FairSpec

\* The thread is at one of its labels, and no frame is lost or received twice
\* between the interface and onFrameReceived.
THEOREM TypeCorrect == FairSpec => []TypeOK
<1>1. RxInv => TypeOK
  BY DEF RxInv
<1> QED  BY <1>1, RxAlways, PTL

\* When the thread waits for the next signal or has ended, every lock it entered
\* has been reported lost, and none came without an acquisition.
THEOREM LocksReported == FairSpec => []LostForEveryLock
<1>1. RxInv => LostForEveryLock
  BY DEF RxInv, TypeOK, LostForEveryLock
<1> QED  BY <1>1, RxAlways, PTL
=============================================================================
