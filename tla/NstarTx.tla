------------------------------- MODULE NstarTx ------------------------------
(***************************************************************************)
(* The TX pipeline of ttc_nstar.c: NSTAR_TXStart and NSTAR_TXWrite, which  *)
(* the application calls, and NSTAR_TXStop, which the application and both *)
(* monitor threads call. Nothing but the order of their steps protects     *)
(* txActive and txBytesSent.                                               *)
(***************************************************************************)
EXTENDS NstarContext

StartLabels == {"start_busy", "start_rate", "start_clock", "start_verify",
                "start_mode", "start_abort", "start_commit", "start_zero"}
WriteLabels == {"write_chunk", "write_store"}
StopLabels == {"stop_standby", "stop_clock", "stop_count", "stop_clear",
               "stop_reset", "stop_notify"}

InTx(t) == pc[t] \in StartLabels \cup WriteLabels \cup StopLabels

\* Thread t enters the pipeline.
NoteOverlap(t) ==
    overlapped' = (overlapped \/ \E u \in Threads \ {t} : InTx(u))

otherHistory == <<sessions, completions, written, handled, faults>>

\* Mutant: a transmission may be started in any state of the module.
StartInAnyState(t) ==
    /\ pc[t] = "idle"
    /\ sessions < MAX_SESSIONS
    /\ Goto(t, "start_busy")
    /\ NoteOverlap(t)
    /\ UNCHANGED <<lifeVars, txVars, deviceVars, lineVars, otherHistory>>

\* NSTAR_TXStart
TXStart(t) ==
    /\ pc[t] = "idle"
    /\ sessions < MAX_SESSIONS
    /\ moduleState = "READY"          \* otherwise NSTAR_ERR_NOT_READY
    /\ Goto(t, "start_busy")
    /\ NoteOverlap(t)
    /\ UNCHANGED <<lifeVars, txVars, deviceVars, lineVars, otherHistory>>

\* Mutant: a transmission may be started on top of another.
StartUnchecked(t) ==
    /\ pc[t] = "start_busy"
    /\ Goto(t, "start_rate")
    /\ UNCHANGED <<lifeVars, txVars, deviceVars, lineVars, historyVars>>

StartBusy(t) ==
    /\ pc[t] = "start_busy"
    /\ Goto(t, IF txActive THEN "idle" ELSE "start_rate")
    /\ UNCHANGED <<lifeVars, txVars, deviceVars, lineVars, historyVars>>

StartRate(t) ==
    /\ pc[t] = "start_rate"
    /\ Command(t, UNCHANGED deviceVars, "start_clock", "idle")
    /\ UNCHANGED <<lifeVars, txVars, lineVars, historyVars>>

StartClock(t) ==
    /\ pc[t] = "start_clock"
    /\ \/ SetClock(TRUE) /\ Goto(t, "start_verify")
       \/ UNCHANGED deviceVars /\ Goto(t, "idle")
    /\ UNCHANGED <<lifeVars, txVars, lineVars, historyVars>>

\* The device reports a clock if it detects the one that runs.
StartVerify(t) ==
    /\ pc[t] = "start_verify"
    /\ \E detected \in {clock, FALSE} :
         Command(t, UNCHANGED deviceVars,
                 IF detected THEN "start_mode" ELSE "start_abort",
                 "start_abort")
    /\ UNCHANGED <<lifeVars, txVars, lineVars, historyVars>>

StartMode(t) ==
    /\ pc[t] = "start_mode"
    /\ Command(t, SetMode("modulation"), "start_commit", "start_abort")
    /\ UNCHANGED <<lifeVars, txVars, lineVars, historyVars>>

\* Mutant: a start that fails leaves the clock running.
StartAbortKeepingClock(t) ==
    /\ pc[t] = "start_abort"
    /\ Goto(t, "idle")
    /\ UNCHANGED <<lifeVars, txVars, deviceVars, lineVars, historyVars>>

StartAbort(t) ==
    /\ pc[t] = "start_abort"
    /\ SetClock(FALSE)
    /\ Goto(t, "idle")
    /\ UNCHANGED <<lifeVars, txVars, lineVars, historyVars>>

StartCommit(t) ==
    /\ pc[t] = "start_commit"
    /\ txActive' = TRUE
    /\ sessions' = sessions + 1
    /\ written' = 0
    /\ Goto(t, "start_zero")
    /\ UNCHANGED <<txBytesSent, lifeVars, deviceVars, lineVars, completions,
                   handled, faults, overlapped>>

\* Mutant: the total is left to the TXStop before.
StartKeepingTotal(t) ==
    /\ pc[t] = "start_zero"
    /\ Goto(t, "idle")
    /\ UNCHANGED <<lifeVars, txVars, deviceVars, lineVars, historyVars>>

StartZero(t) ==
    /\ pc[t] = "start_zero"
    /\ txBytesSent' = 0
    /\ Goto(t, "idle")
    /\ UNCHANGED <<lifeVars, txActive, deviceVars, lineVars, historyVars>>

\* NSTAR_TXWrite: txActive is read once, then every chunk the data interface
\* takes is added to the total by a load and a store.
TXWrite(t) ==
    /\ pc[t] = "idle"
    /\ txActive                       \* otherwise NSTAR_ERR_BUSY
    /\ written < MAX_CHUNKS
    /\ Goto(t, "write_chunk")
    /\ NoteOverlap(t)
    /\ UNCHANGED <<lifeVars, txVars, deviceVars, lineVars, otherHistory>>

WriteChunk(t) ==
    /\ pc[t] = "write_chunk"
    /\ \/ /\ Goto(t, "idle")          \* nstarDataWrite fails
          /\ UNCHANGED written
       \/ /\ written < MAX_CHUNKS
          /\ written' = written + 1
          /\ bytes' = [bytes EXCEPT ![t] = txBytesSent]
          /\ pc' = [pc EXCEPT ![t] = "write_store"]
          /\ UNCHANGED ret
    /\ UNCHANGED <<lifeVars, txVars, deviceVars, lineVars,
                   sessions, completions, handled, faults,
                   overlapped>>

WriteStore(t) ==
    /\ pc[t] = "write_store"
    /\ txBytesSent' = bytes[t] + 1
    /\ bytes' = [bytes EXCEPT ![t] = 0]
    /\ \E label \in {"write_chunk", "idle"} : pc' = [pc EXCEPT ![t] = label]
    /\ UNCHANGED <<ret, lifeVars, txActive, deviceVars, lineVars, historyVars>>

\* NSTAR_TXStop once txActive has been read as 1; the result of
\* the command is not looked at.
StopStandby(t) ==
    /\ pc[t] = "stop_standby"
    /\ Command(t, SetMode("standby"), "stop_clock", "stop_clock")
    /\ UNCHANGED <<lifeVars, txVars, lineVars, historyVars>>

StopClock(t) ==
    /\ pc[t] = "stop_clock"
    /\ SetClock(FALSE)
    /\ Goto(t, "stop_count")
    /\ UNCHANGED <<lifeVars, txVars, lineVars, historyVars>>

\* Mutant: the total is read after it has been reset.
StopCountAfterReset(t) ==
    /\ pc[t] = "stop_count"
    /\ txBytesSent' = 0
    /\ bytes' = [bytes EXCEPT ![t] = txBytesSent']
    /\ pc' = [pc EXCEPT ![t] = "stop_clear"]
    /\ UNCHANGED <<ret, lifeVars, txActive, deviceVars, lineVars, historyVars>>

StopCount(t) ==
    /\ pc[t] = "stop_count"
    /\ bytes' = [bytes EXCEPT ![t] = txBytesSent]
    /\ pc' = [pc EXCEPT ![t] = "stop_clear"]
    /\ UNCHANGED <<ret, lifeVars, txVars, deviceVars, lineVars, historyVars>>

StopClear(t) ==
    /\ pc[t] = "stop_clear"
    /\ txActive' = FALSE
    /\ Goto(t, "stop_reset")
    /\ UNCHANGED <<txBytesSent, lifeVars, deviceVars, lineVars, historyVars>>

StopReset(t) ==
    /\ pc[t] = "stop_reset"
    /\ txBytesSent' = 0
    /\ Goto(t, "stop_notify")
    /\ UNCHANGED <<lifeVars, txActive, deviceVars, lineVars, historyVars>>

\* onTXComplete(bytes)
StopNotify(t) ==
    /\ pc[t] = "stop_notify"
    /\ completions' = completions + 1
    /\ bytes' = [bytes EXCEPT ![t] = 0]
    /\ pc' = [pc EXCEPT ![t] = ret[t]]
    /\ UNCHANGED <<ret, lifeVars, txVars, deviceVars, lineVars,
                   sessions, written, handled, faults, overlapped>>

TXStop(t) == StopStandby(t) \/ StopClock(t) \/ StopCount(t) \/ StopClear(t)
               \/ StopReset(t) \/ StopNotify(t)

\* The application calls NSTAR_TXStop; without a transmission it returns.
AppStop(t) ==
    /\ pc[t] = "idle"
    /\ txActive
    /\ Enter(t, "stop_standby", "idle")
    /\ NoteOverlap(t)
    /\ UNCHANGED <<lifeVars, txVars, deviceVars, lineVars, otherHistory>>

TxCalls(t) ==
    \/ TXStart(t) \/ TXWrite(t) \/ AppStop(t)

TxSteps(t) ==
    \/ StartBusy(t) \/ StartRate(t) \/ StartClock(t) \/ StartVerify(t)
    \/ StartMode(t) \/ StartAbort(t) \/ StartCommit(t)
    \/ StartZero(t)
    \/ WriteChunk(t) \/ WriteStore(t)
    \/ TXStop(t)
=============================================================================
