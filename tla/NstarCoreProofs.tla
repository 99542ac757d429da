-------------------------- MODULE NstarCoreProofs ---------------------------
(***************************************************************************)
(* Proofs about the composition of the threads, for every bound on the     *)
(* transmissions, faults and chunks and every behaviour of the UART.       *)
(***************************************************************************)
EXTENDS NstarCore, TLAPS

\* A procedure that several threads call returns to its caller.
Returns ==
    /\ pc["app"] \in StartupLabels \cup StopLabels => ret["app"] = "idle"
    /\ pc["fault"] \in StartupLabels => ret["fault"] = "f_loop"
    /\ pc["fault"] \in StopLabels => ret["fault"] = "f_recover"
    /\ pc["health"] \in StopLabels => ret["health"] = "h_notify"

\* A worker does nothing before Init has created it.
Created ==
    /\ pc["app"] \in {"init", "create_rx"} => pc["rx"] = "none"
    /\ pc["app"] \in {"init", "create_rx", "create_fault"} =>
         pc["fault"] = "none"
    /\ pc["app"] \in {"init", "create_rx", "create_fault", "create_health"} =>
         pc["health"] = "none"

\* What TXWrite is about to store is no more than the data interface has taken.
Counted == pc["app"] = "write_store" => bytes["app"] < written

TypeInv == TypeOK /\ Returns /\ Created /\ Counted

\* A worker that Deinit has joined has returned and stays so.
Joined ==
    /\ pc["app"] \in {"join_fault", "join_health", "deinit_free"} =>
         pc["rx"] = "exited"
    /\ pc["app"] \in {"join_health", "deinit_free"} => pc["fault"] = "exited"
    /\ pc["app"] = "deinit_free" => pc["health"] = "exited"

\* Unless writes of it fail, RESET_N is low only within faultHandleHardReset.
ResetByFault == resetN = 0 => pc["fault"] = "f_release" \/ RESET_FAILS

\* From the moment a monitor thread's transmission is over, be it found so or
\* stopped, one that is on was started after the thread had looked.
EndedFor(t, labels) ==
    /\ handled[t] <= sessions
    /\ pc[t] \in labels /\ txActive => sessions > handled[t]
EndedOnceLooked ==
    /\ EndedFor("fault", {"stop_reset", "stop_notify", "f_recover", "f_reset",
                          "f_release", "f_cleared", "f_notify"})
    /\ EndedFor("health", {"stop_reset", "stop_notify", "h_notify"})

\* TXStart commits only when no transmission is on: nobody else starts one.
StartingAlone ==
    pc["app"] \in {"start_rate", "start_clock", "start_verify", "start_mode",
                   "start_commit"} => ~txActive

\* In a recovery at most the TXStart that had begun before is on its way to its
\* commit; the startup sequence, which may write FAULT too, is run first of all.
BeforeCommit == Bit(pc["app"] \in StartLabels \ {"start_zero"})
LateStarts ==
    /\ pc["fault"] \in StopLabels \cup RecoveryLabels /\ moduleState = "FAULT" =>
         sessions + BeforeCommit <= handled["fault"] + 1
    /\ pc["app"] \in InitLabels \cup StartupLabels => sessions = 0

SafeInv == /\ TypeInv /\ Joined /\ ResetByFault /\ EndedOnceLooked
           /\ StartingHasStarter /\ StartingAlone /\ NoneForgotten /\ LateStarts
-----------------------------------------------------------------------------
\* What every step about a label has to know. A variable that is assigned TRUE
\* or FALSE is shown to be a Boolean in a step of its own.
USE BoundsAssumption, ResetFailsAssumption
    DEF SafeInv, StartingAlone, NoneForgotten, Bit, Ending, LateStarts,
        BeforeCommit, RecoveryLabels, TypeInv, TypeOK, Returns, Created, Counted, Joined,
        ResetByFault, EndedOnceLooked, EndedFor, StartingHasStarter, Threads,
        States, AppLabels,
        InitLabels, StartupLabels, StartLabels, WriteLabels, StopLabels,
        DeinitLabels, FaultLabels, HealthLabels, threadVars, lifeVars, txVars,
        deviceVars, lineVars, historyVars, otherHistory, Goto, Enter, Leave,
        SetModuleState, SetMode, SetClock, PowerUp, Command

\* The initial state satisfies the invariant.
LEMMA SafeInit == Init => SafeInv
<1> SUFFICES ASSUME Init PROVE SafeInv
  OBVIOUS
<1>1. /\ stopFlag \in BOOLEAN /\ identityValid \in BOOLEAN
      /\ txActive \in BOOLEAN /\ clock \in BOOLEAN
      /\ overlapped \in BOOLEAN
  BY Zenon DEF Init
<1> QED  BY <1>1 DEF Init, Workers

\* NSTAR_TXStop, in each of its callers
LEMMA SafeStop ==
    ASSUME SafeInv, NEW t \in {"app", "fault", "health"}, TXStop(t)
    PROVE  SafeInv'
<1>1. CASE StopStandby(t)
  BY <1>1 DEF StopStandby
<1>2. CASE StopClock(t)
  <2>1. clock' \in BOOLEAN
    BY <1>2, Zenon DEF StopClock
  <2> QED  BY <1>2, <2>1 DEF StopClock
<1>3. CASE StopCount(t)
  BY <1>3 DEF StopCount
<1>4. CASE StopClear(t)
  <2>1. txActive' \in BOOLEAN
    BY <1>4, Zenon DEF StopClear
  <2> QED  BY <1>4, <2>1 DEF StopClear
<1>5. CASE StopReset(t)
  BY <1>5 DEF StopReset
<1>6. CASE StopNotify(t)
  BY <1>6 DEF StopNotify
<1> QED  BY <1>1, <1>2, <1>3, <1>4, <1>5, <1>6 DEF TXStop

\* NSTAR_StartupSequence, in both its callers
LEMMA SafeStartup ==
    ASSUME SafeInv, NEW t \in {"app", "fault"}, Startup(t)
    PROVE  SafeInv'
<1>1. CASE StartupBegin(t)
  BY <1>1 DEF StartupBegin
<1>2. CASE StartupIdentity(t)
  BY <1>2 DEF StartupIdentity
<1>3. CASE StartupType(t)
  BY <1>3 DEF StartupType
<1>4. CASE StartupSweep(t)
  BY <1>4 DEF StartupSweep
<1>5. CASE StartupReady(t)
  BY <1>5 DEF StartupReady
<1>6. CASE StartupFault(t)
  BY <1>6 DEF StartupFault
<1> QED  BY <1>1, <1>2, <1>3, <1>4, <1>5, <1>6 DEF Startup

\* The application enters the TX pipeline.
LEMMA SafeTxCalls ==
    ASSUME SafeInv, TxCalls("app")
    PROVE  SafeInv'
<1>1. CASE TXStart("app")
  BY <1>1 DEF TXStart, NoteOverlap, InTx
<1>2. CASE TXWrite("app")
  BY <1>2 DEF TXWrite, NoteOverlap, InTx
<1>3. CASE AppStop("app")
  BY <1>3 DEF AppStop, NoteOverlap, InTx
<1> QED  BY <1>1, <1>2, <1>3 DEF TxCalls

\* The TX calls of the application
LEMMA SafeTxSteps ==
    ASSUME SafeInv, TxSteps("app")
    PROVE  SafeInv'
<1>1. CASE StartBusy("app")
  BY <1>1 DEF StartBusy
<1>2. CASE StartRate("app")
  BY <1>2 DEF StartRate
<1>3. CASE StartClock("app")
  <2>1. clock' \in BOOLEAN
    BY <1>3, Zenon DEF StartClock
  <2> QED  BY <1>3, <2>1 DEF StartClock
<1>4. CASE StartVerify("app")
  BY <1>4 DEF StartVerify
<1>5. CASE StartMode("app")
  BY <1>5 DEF StartMode
<1>6. CASE StartAbort("app")
  <2>1. clock' \in BOOLEAN
    BY <1>6, Zenon DEF StartAbort
  <2> QED  BY <1>6, <2>1 DEF StartAbort
<1>7. CASE StartCommit("app")
  BY <1>7 DEF StartCommit
<1>8. CASE StartZero("app")
  BY <1>8 DEF StartZero
<1>9. CASE WriteChunk("app")
  BY <1>9 DEF WriteChunk
<1>10. CASE WriteStore("app")
  BY <1>10 DEF WriteStore
<1> QED  BY <1>1, <1>2, <1>3, <1>4, <1>5, <1>6, <1>7, <1>8, <1>9, <1>10,
            SafeStop
         DEF TxSteps

\* NSTAR_Init and NSTAR_Deinit
LEMMA SafeLifeSteps ==
    ASSUME SafeInv, LifeSteps("app")
    PROVE  SafeInv'
<1>1. CASE InitContext("app")
  BY <1>1 DEF InitContext
<1>2. CASE InitFailed("app")
  BY <1>2 DEF InitFailed
<1>3. CASE InitDone("app")
  BY <1>3 DEF InitDone
<1>12. CASE CallStartup("app")
  BY <1>12 DEF CallStartup
<1>4. CASE Create("app", "create_rx", "rx", "create_fault")
  BY <1>4 DEF Create, FirstLabel
<1>5. CASE Create("app", "create_fault", "fault", "create_health")
  BY <1>5 DEF Create, FirstLabel
<1>6. CASE Create("app", "create_health", "health", "init_done")
  BY <1>6 DEF Create, FirstLabel
<1>7. CASE DeinitFlag("app")
  BY <1>7 DEF DeinitFlag
<1>8. CASE DeinitFree("app")
  BY <1>8 DEF DeinitFree
<1>9. CASE Join("app", "join_rx", "rx", "join_fault")
  BY <1>9 DEF Join
<1>10. CASE Join("app", "join_fault", "fault", "join_health")
  BY <1>10 DEF Join
<1>11. CASE Join("app", "join_health", "health", "deinit_free")
  BY <1>11 DEF Join
<1> QED  BY <1>1, <1>2, <1>3, <1>4, <1>5, <1>6, <1>7, <1>8, <1>9, <1>10,
            <1>11, <1>12, SafeStartup
         DEF LifeSteps

\* The fault thread
LEMMA SafeFault ==
    ASSUME SafeInv, FaultThread
    PROVE  SafeInv'
<1>1. CASE Loop("fault", "f_loop", "f_wait")
  BY <1>1 DEF Loop
<1>2. CASE WaitEdge("f_wait", Rising, "f_detected", "f_loop")
  BY <1>2 DEF WaitEdge, Rising
<1>3. CASE FaultDetected
  BY <1>3 DEF FaultDetected, Loop
<1>4. CASE FaultState
  BY <1>4 DEF FaultState
<1>5. CASE StopIfActive("fault", "f_check", "f_recover")
  BY <1>5 DEF StopIfActive, NoteOverlap, InTx
<1>6. CASE WaitEdge("f_recover", Falling, "f_notify", "f_reset")
  BY <1>6 DEF WaitEdge, Falling
<1>7. CASE ResetLow
  BY <1>7 DEF ResetLow
<1>8. CASE ResetHigh
  BY <1>8 DEF ResetHigh
<1>9. CASE WaitEdge("f_cleared", Falling, "f_notify", "f_notify")
  BY <1>9 DEF WaitEdge, Falling
<1>10. CASE NotifySel
  BY <1>10 DEF NotifySel
<1> QED  BY <1>1, <1>2, <1>3, <1>4, <1>5, <1>6, <1>7, <1>8, <1>9, <1>10
         DEF FaultThread

\* The health thread
LEMMA SafeHealth ==
    ASSUME SafeInv, HealthThread
    PROVE  SafeInv'
<1>1. CASE Loop("health", "h_loop", "h_ready")
  BY <1>1 DEF Loop
<1>2. CASE HealthReady
  BY <1>2 DEF HealthReady
<1>3. CASE HealthRead
  BY <1>3 DEF HealthRead
<1>4. CASE StopIfActive("health", "h_check", "h_notify")
  BY <1>4 DEF StopIfActive, NoteOverlap, InTx
<1>5. CASE NotifyTemperature
  BY <1>5 DEF NotifyTemperature
<1> QED  BY <1>1, <1>2, <1>3, <1>4, <1>5 DEF HealthThread

\* Every step of every thread and of the hardware preserves it.
LEMMA SafeStep == SafeInv /\ [Next]_vars => SafeInv'
<1> SUFFICES ASSUME SafeInv, [Next]_vars PROVE SafeInv'
  OBVIOUS
<1>1. CASE TxCalls("app") \/ TxSteps("app")
  BY <1>1, SafeTxCalls, SafeTxSteps
<1>2. CASE Deinit("app")
  BY <1>2 DEF Deinit
<1>3. CASE LifeSteps("app")
  BY <1>3, SafeLifeSteps
<1>4. CASE FaultSteps
  BY <1>4, SafeFault, SafeStop, SafeStartup DEF FaultSteps
<1>5. CASE HealthSteps
  BY <1>5, SafeHealth, SafeStop DEF HealthSteps
<1>6. CASE RxExit
  BY <1>6 DEF RxExit
<1>7. CASE FaultRaised
  BY <1>7 DEF FaultRaised
<1>8. CASE FaultCleared
  BY <1>8 DEF FaultCleared
<1>9. CASE ClockGap
  BY <1>9 DEF ClockGap
<1>10. CASE UNCHANGED vars
  BY <1>10 DEF vars
<1> QED  BY <1>1, <1>2, <1>3, <1>4, <1>5, <1>6, <1>7, <1>8, <1>9, <1>10
         DEF Next, AppCalls, AppSteps, Hardware, Ended
-----------------------------------------------------------------------------
\* One thread at a time is in the TX pipeline.
Exclusive == \A t, u \in Threads : InTx(t) /\ InTx(u) => t = u

\* Where the thread in the pipeline is tells whether the transmission is on and
\* whether the clock runs.
Phase(t) ==
    /\ pc[t] = "start_busy" => (clock <=> txActive)
    /\ pc[t] \in {"start_rate", "start_clock"} => ~txActive /\ ~clock
    /\ pc[t] \in {"start_verify", "start_mode", "start_commit"} =>
         ~txActive /\ clock
    /\ pc[t] = "start_abort" => ~txActive
    /\ pc[t] = "start_zero" => txActive /\ clock /\ written = 0
    /\ pc[t] \in WriteLabels \cup {"stop_standby", "stop_clock"} => txActive
    /\ pc[t] \in {"stop_count", "stop_clear"} => txActive /\ ~clock
    /\ pc[t] \in {"stop_reset", "stop_notify"} => ~txActive /\ ~clock

\* The total, and what TXWrite and TXStop hold of it, follow the chunks.
Total ==
    /\ txActive /\ pc["app"] \notin {"start_zero", "write_store"} =>
         txBytesSent = written
    /\ pc["app"] = "write_store" => bytes["app"] + 1 = written
    /\ \A t \in Threads :
         pc[t] \in {"stop_clear", "stop_reset", "stop_notify"} =>
             bytes[t] = written

\* What holds until two threads meet in the pipeline.
SerialInv ==
    ~overlapped =>
        /\ Exclusive
        /\ \A t \in Threads : Phase(t)
        /\ ClockFollowsSession
        /\ sessions = completions + Bit(Unfinished)
        /\ Total

USE DEF SerialInv, Exclusive, Phase, Total, ClockFollowsSession, Settled,
        Unfinished, InTx

\* The initial state satisfies the invariant of the undisturbed pipeline.
LEMMA SerialInit == Init => SerialInv
BY DEF Init

\* NSTAR_TXStop, in each of its callers
LEMMA SerialStop ==
    ASSUME SafeInv, SerialInv, NEW t \in {"app", "fault", "health"}, TXStop(t)
    PROVE  SerialInv'
<1>1. CASE StopStandby(t)
  BY <1>1 DEF StopStandby
<1>2. CASE StopClock(t)
  <2>1. clock' \in BOOLEAN
    BY <1>2, Zenon DEF StopClock
  <2> QED  BY <1>2, <2>1 DEF StopClock
<1>3. CASE StopCount(t)
  BY <1>3 DEF StopCount
<1>4. CASE StopClear(t)
  <2>1. txActive' \in BOOLEAN
    BY <1>4, Zenon DEF StopClear
  <2> QED  BY <1>4, <2>1 DEF StopClear
<1>5. CASE StopReset(t)
  BY <1>5 DEF StopReset
<1>6. CASE StopNotify(t)
  BY <1>6 DEF StopNotify
<1> QED  BY <1>1, <1>2, <1>3, <1>4, <1>5, <1>6 DEF TXStop

\* NSTAR_StartupSequence, in both its callers
LEMMA SerialStartup ==
    ASSUME SafeInv, SerialInv, NEW t \in {"app", "fault"}, Startup(t)
    PROVE  SerialInv'
<1>1. CASE StartupBegin(t)
  BY <1>1 DEF StartupBegin
<1>2. CASE StartupIdentity(t)
  BY <1>2 DEF StartupIdentity
<1>3. CASE StartupType(t)
  BY <1>3 DEF StartupType
<1>4. CASE StartupSweep(t)
  BY <1>4 DEF StartupSweep
<1>5. CASE StartupReady(t)
  BY <1>5 DEF StartupReady
<1>6. CASE StartupFault(t)
  BY <1>6 DEF StartupFault
<1> QED  BY <1>1, <1>2, <1>3, <1>4, <1>5, <1>6 DEF Startup

\* The application enters the TX pipeline.
LEMMA SerialTxCalls ==
    ASSUME SafeInv, SerialInv, TxCalls("app")
    PROVE  SerialInv'
<1>1. CASE TXStart("app")
  <2>1. ~overlapped' => ~overlapped /\ \A u \in Threads \ {"app"} : ~InTx(u)
    BY <1>1, Zenon DEF TXStart, NoteOverlap
  <2> QED  BY <1>1, <2>1 DEF TXStart
<1>2. CASE TXWrite("app")
  <2>1. ~overlapped' => ~overlapped /\ \A u \in Threads \ {"app"} : ~InTx(u)
    BY <1>2, Zenon DEF TXWrite, NoteOverlap
  <2> QED  BY <1>2, <2>1 DEF TXWrite
<1>3. CASE AppStop("app")
  <2>1. ~overlapped' => ~overlapped /\ \A u \in Threads \ {"app"} : ~InTx(u)
    BY <1>3, Zenon DEF AppStop, NoteOverlap
  <2> QED  BY <1>3, <2>1 DEF AppStop
<1> QED  BY <1>1, <1>2, <1>3 DEF TxCalls

\* The TX calls of the application
LEMMA SerialTxSteps ==
    ASSUME SafeInv, SerialInv, TxSteps("app")
    PROVE  SerialInv'
<1>1. CASE StartBusy("app")
  BY <1>1 DEF StartBusy
<1>2. CASE StartRate("app")
  BY <1>2 DEF StartRate
<1>3. CASE StartClock("app")
  <2>1. clock' \in BOOLEAN
    BY <1>3, Zenon DEF StartClock
  <2> QED  BY <1>3, <2>1 DEF StartClock
<1>4. CASE StartVerify("app")
  <2>1. /\ Goto("app", "start_mode") \/ Goto("app", "start_abort")
        /\ UNCHANGED <<clock, txVars, historyVars>>
    BY <1>4 DEF StartVerify
  <2> QED  BY <1>4, <2>1 DEF StartVerify
<1>5. CASE StartMode("app")
  <2>1. /\ Goto("app", "start_commit") \/ Goto("app", "start_abort")
        /\ UNCHANGED <<clock, txVars, historyVars>>
    BY <1>5 DEF StartMode
  <2> QED  BY <1>5, <2>1 DEF StartMode
<1>6. CASE StartAbort("app")
  <2>1. clock' \in BOOLEAN
    BY <1>6, Zenon DEF StartAbort
  <2> QED  BY <1>6, <2>1 DEF StartAbort
<1>7. CASE StartCommit("app")
  BY <1>7 DEF StartCommit
<1>8. CASE StartZero("app")
  BY <1>8 DEF StartZero
<1>9. CASE WriteChunk("app")
  BY <1>9 DEF WriteChunk
<1>10. CASE WriteStore("app")
  BY <1>10 DEF WriteStore
<1> QED  BY <1>1, <1>2, <1>3, <1>4, <1>5, <1>6, <1>7, <1>8, <1>9, <1>10,
            SerialStop
         DEF TxSteps

\* NSTAR_Init and NSTAR_Deinit
LEMMA SerialLifeSteps ==
    ASSUME SafeInv, SerialInv, LifeSteps("app")
    PROVE  SerialInv'
<1>1. CASE InitContext("app")
  BY <1>1 DEF InitContext
<1>2. CASE InitFailed("app")
  BY <1>2 DEF InitFailed
<1>3. CASE InitDone("app")
  BY <1>3 DEF InitDone
<1>12. CASE CallStartup("app")
  BY <1>12 DEF CallStartup
<1>4. CASE Create("app", "create_rx", "rx", "create_fault")
  BY <1>4 DEF Create, FirstLabel
<1>5. CASE Create("app", "create_fault", "fault", "create_health")
  BY <1>5 DEF Create, FirstLabel
<1>6. CASE Create("app", "create_health", "health", "init_done")
  BY <1>6 DEF Create, FirstLabel
<1>7. CASE DeinitFlag("app")
  BY <1>7 DEF DeinitFlag
<1>8. CASE DeinitFree("app")
  BY <1>8 DEF DeinitFree
<1>9. CASE Join("app", "join_rx", "rx", "join_fault")
  BY <1>9 DEF Join
<1>10. CASE Join("app", "join_fault", "fault", "join_health")
  BY <1>10 DEF Join
<1>11. CASE Join("app", "join_health", "health", "deinit_free")
  BY <1>11 DEF Join
<1> QED  BY <1>1, <1>2, <1>3, <1>4, <1>5, <1>6, <1>7, <1>8, <1>9, <1>10,
            <1>11, <1>12, SerialStartup
         DEF LifeSteps

\* The fault thread
LEMMA SerialFault ==
    ASSUME SafeInv, SerialInv, FaultThread
    PROVE  SerialInv'
<1>1. CASE Loop("fault", "f_loop", "f_wait")
  BY <1>1 DEF Loop
<1>2. CASE WaitEdge("f_wait", Rising, "f_detected", "f_loop")
  BY <1>2 DEF WaitEdge, Rising
<1>3. CASE FaultDetected
  BY <1>3 DEF FaultDetected, Loop
<1>4. CASE FaultState
  BY <1>4 DEF FaultState
<1>5. CASE StopIfActive("fault", "f_check", "f_recover")
  BY <1>5 DEF StopIfActive, NoteOverlap, InTx
<1>6. CASE WaitEdge("f_recover", Falling, "f_notify", "f_reset")
  BY <1>6 DEF WaitEdge, Falling
<1>7. CASE ResetLow
  BY <1>7 DEF ResetLow
<1>8. CASE ResetHigh
  BY <1>8 DEF ResetHigh
<1>9. CASE WaitEdge("f_cleared", Falling, "f_notify", "f_notify")
  BY <1>9 DEF WaitEdge, Falling
<1>10. CASE NotifySel
  BY <1>10 DEF NotifySel
<1> QED  BY <1>1, <1>2, <1>3, <1>4, <1>5, <1>6, <1>7, <1>8, <1>9, <1>10
         DEF FaultThread

\* The health thread
LEMMA SerialHealth ==
    ASSUME SafeInv, SerialInv, HealthThread
    PROVE  SerialInv'
<1>1. CASE Loop("health", "h_loop", "h_ready")
  BY <1>1 DEF Loop
<1>2. CASE HealthReady
  BY <1>2 DEF HealthReady
<1>3. CASE HealthRead
  BY <1>3 DEF HealthRead
<1>4. CASE StopIfActive("health", "h_check", "h_notify")
  BY <1>4 DEF StopIfActive, NoteOverlap, InTx
<1>5. CASE NotifyTemperature
  BY <1>5 DEF NotifyTemperature
<1> QED  BY <1>1, <1>2, <1>3, <1>4, <1>5 DEF HealthThread

\* Every step preserves it, or two threads meet in the pipeline.
LEMMA SerialStep == SafeInv /\ SerialInv /\ [Next]_vars => SerialInv'
<1> SUFFICES ASSUME SafeInv, SerialInv, [Next]_vars PROVE SerialInv'
  OBVIOUS
<1>1. CASE TxCalls("app") \/ TxSteps("app")
  BY <1>1, SerialTxCalls, SerialTxSteps
<1>2. CASE Deinit("app")
  BY <1>2 DEF Deinit
<1>3. CASE LifeSteps("app")
  BY <1>3, SerialLifeSteps
<1>4. CASE FaultSteps
  BY <1>4, SerialFault, SerialStop, SerialStartup DEF FaultSteps
<1>5. CASE HealthSteps
  BY <1>5, SerialHealth, SerialStop DEF HealthSteps
<1>6. CASE RxExit
  BY <1>6 DEF RxExit
<1>7. CASE FaultRaised
  BY <1>7 DEF FaultRaised
<1>8. CASE FaultCleared
  BY <1>8 DEF FaultCleared
<1>9. CASE ClockGap
  BY <1>9 DEF ClockGap
<1>10. CASE UNCHANGED vars
  BY <1>10 DEF vars
<1> QED  BY <1>1, <1>2, <1>3, <1>4, <1>5, <1>6, <1>7, <1>8, <1>9, <1>10
         DEF Next, AppCalls, AppSteps, Hardware, Ended
-----------------------------------------------------------------------------
HIDE DEF SafeInv, TypeOK, StartingHasStarter, NoneForgotten, SerialInv,
         ClockFollowsSession, Unfinished

\* The invariant holds in every reachable state.
LEMMA SafeAlways == Spec => []SafeInv
BY SafeInit, SafeStep, PTL DEF Spec

\* Every thread is at a label of its own and counts no more than there is, for
\* every bound and every behaviour of the UART.
THEOREM TypeCorrect == Spec => []TypeOK
<1>1. SafeInv => TypeOK
  BY DEF SafeInv
<1> QED  BY <1>1, SafeAlways, PTL

\* Deinit frees the context when every worker has returned and RESET_N is high.
THEOREM FreedAfterExit == Spec => []FreeAfterExit
<1>1. SafeInv => FreeAfterExit
  BY DEF SafeInv, TypeOK, FreeAfterExit, Workers
<1> QED  BY <1>1, SafeAlways, PTL

\* The transmission a monitor thread found is over when it notifies the
\* application.
THEOREM EndedFirst == Spec => []EndedBeforeNotified
<1>1. SafeInv => EndedBeforeNotified
  BY DEF SafeInv, TypeOK, EndedBeforeNotified
<1> QED  BY <1>1, SafeAlways, PTL

\* In a recovery no transmission is started but one that was under way.
THEOREM LateStartAlone == Spec => []OneLateStart
<1>1. SafeInv => OneLateStart
  BY DEF SafeInv, TypeOK, OneLateStart
<1> QED  BY <1>1, SafeAlways, PTL

\* No startup sequence and no shutdown leaves the module in a state that is to be
\* passed through.
THEOREM StartersRemain == Spec => []StartingHasStarter
<1>1. SafeInv => StartingHasStarter
  BY DEF SafeInv
<1> QED  BY <1>1, SafeAlways, PTL

\* It holds as long as they have not.
LEMMA SerialAlways == Spec => []SerialInv
<1>1. SafeInv /\ SafeInv' /\ SerialInv /\ [Next]_vars => SerialInv'
  BY SerialStep
<1> QED  BY <1>1, SerialInit, SafeAlways, PTL DEF Spec

\* Until two threads meet in the TX pipeline, the clock follows txActive.
THEOREM ClockInStep == Spec => []SerialClock
<1>1. SerialInv => SerialClock
  BY DEF SerialInv, SerialClock
<1> QED  BY <1>1, SerialAlways, PTL

\* Until then every transmission completes exactly once, and none is ever
\* forgotten, ...
THEOREM CompletedOnce == Spec => []Completion
<1>1. SafeInv /\ SerialInv => Completion
  BY DEF SafeInv, SerialInv, Completion
<1> QED  BY <1>1, SafeAlways, SerialAlways, PTL

\* ... and the completion reports what the data interface took.
THEOREM BytesReported == Spec => []SerialBytes
<1>1. SerialInv => SerialBytes
  BY DEF SerialInv, SerialBytes
<1> QED  BY <1>1, SerialAlways, PTL
=============================================================================
