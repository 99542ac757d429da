---------------------------- MODULE NstarMonitors ---------------------------
(***************************************************************************)
(* The worker threads: faultThreadFunc with faultHandleEvent and           *)
(* faultHandleHardReset, healthThreadFunc, and of rxThreadFunc the part    *)
(* that concerns the others, that it ends when stopFlag is set.            *)
(***************************************************************************)
EXTENDS NstarTx, NstarLifecycle

RxExit ==
    /\ pc["rx"] = "rx_run"
    /\ stopFlag
    /\ Goto("rx", "exited")
    /\ UNCHANGED <<lifeVars, txVars, deviceVars, lineVars, historyVars>>

\* while (!stopFlag), of the fault and the health thread
Loop(t, here, next) ==
    /\ pc[t] = here
    /\ Goto(t, IF stopFlag THEN "exited" ELSE next)
    /\ UNCHANGED <<lifeVars, txVars, deviceVars, lineVars, historyVars>>

\* nstarGPIOWaitEdge on FAULT_N: poll the line every 20 ms and compare with
\* the poll before, the last one of the previous call included. Finding the
\* edge, or polling for the last time, ends the wait.
Rising  == seenN = 0 /\ faultN = 1
Falling == seenN = 1 /\ faultN = 0

\* Mutant: the wait has no timeout.
WaitEdgeForever(here, edge, onEdge, onTimeout) ==
    /\ pc["fault"] = here
    /\ seenN' = faultN
    /\ \/ edge /\ Goto("fault", onEdge)
       \/ ~edge /\ UNCHANGED threadVars
    /\ UNCHANGED <<lifeVars, txVars, deviceVars, faultN, resetN, historyVars>>

\* Mutant: the time is up before the edge is looked at.
WaitEdgeTimed(here, edge, onEdge, onTimeout) ==
    /\ pc["fault"] = here
    /\ seenN' = faultN
    /\ \/ edge /\ Goto("fault", onEdge)
       \/ ~edge /\ UNCHANGED threadVars
       \/ Goto("fault", onTimeout)
    /\ UNCHANGED <<lifeVars, txVars, deviceVars, faultN, resetN, historyVars>>

WaitEdge(here, edge, onEdge, onTimeout) ==
    /\ pc["fault"] = here
    /\ seenN' = faultN
    /\ \/ edge /\ Goto("fault", onEdge)
       \/ ~edge /\ UNCHANGED threadVars
       \/ ~edge /\ Goto("fault", onTimeout)
    /\ UNCHANGED <<lifeVars, txVars, deviceVars, faultN, resetN, historyVars>>

\* After the edge stopFlag is looked at once more.
FaultDetected == Loop("fault", "f_detected", "f_state")

FaultState ==
    /\ pc["fault"] = "f_state"
    /\ SetModuleState("FAULT")
    /\ Goto("fault", "f_check")
    /\ UNCHANGED <<txVars, deviceVars, lineVars, historyVars>>

\* Mutant: the transmission goes on.
LetTransmit(t, here, next) ==
    /\ pc[t] = here
    /\ Goto(t, next)
    /\ handled' = [handled EXCEPT ![t] = sessions]
    /\ UNCHANGED <<lifeVars, txVars, deviceVars, lineVars,
                   sessions, completions, written, faults, overlapped>>

\* if (txActive) NSTAR_TXStop, then on with next, in either monitor thread
StopIfActive(t, here, next) ==
    /\ pc[t] = here
    /\ IF txActive THEN Enter(t, "stop_standby", next) /\ NoteOverlap(t)
                   ELSE Goto(t, next) /\ UNCHANGED overlapped
    /\ handled' = [handled EXCEPT ![t] = sessions]
    /\ UNCHANGED <<lifeVars, txVars, deviceVars, lineVars,
                   sessions, completions, written, faults>>

\* RESET_N low restarts the device. The result of nstarGPIOWrite is not looked
\* at, here and in ResetHigh.
ResetLow ==
    /\ pc["fault"] = "f_reset"
    /\ \/ resetN' = 0 /\ PowerUp
       \/ RESET_FAILS /\ UNCHANGED <<resetN, deviceVars>>
    /\ Goto("fault", "f_release")
    /\ UNCHANGED <<lifeVars, txVars, faultN, seenN, historyVars>>

ResetHigh ==
    /\ pc["fault"] = "f_release"
    /\ \/ resetN' = 1
       \/ RESET_FAILS /\ UNCHANGED resetN
    /\ Goto("fault", "f_cleared")
    /\ UNCHANGED <<lifeVars, txVars, deviceVars, faultN, seenN, historyVars>>

\* Mutant: the application is told, and nothing is started again.
NotifyOnly ==
    /\ pc["fault"] = "f_notify"
    /\ Goto("fault", "f_loop")
    /\ UNCHANGED <<lifeVars, txVars, deviceVars, lineVars, historyVars>>

\* onFault(NSTAR_FAULT_SEL), then startup again
NotifySel ==
    /\ pc["fault"] = "f_notify"
    /\ Enter("fault", "startup_begin", "f_loop")
    /\ UNCHANGED <<lifeVars, txVars, deviceVars, lineVars, historyVars>>

FaultThread ==
    \/ Loop("fault", "f_loop", "f_wait")
    \/ WaitEdge("f_wait", Rising, "f_detected", "f_loop")
    \/ FaultDetected
    \/ FaultState
    \/ StopIfActive("fault", "f_check", "f_recover")
    \/ WaitEdge("f_recover", Falling, "f_notify", "f_reset")
    \/ ResetLow
    \/ ResetHigh
    \/ WaitEdge("f_cleared", Falling, "f_notify", "f_notify")
    \/ NotifySel

\* stopFlag is looked at before and after thirty seconds of sleep; the second
\* look (Loop) stands for both. Then moduleState is looked at.
HealthReady ==
    /\ pc["health"] = "h_ready"
    /\ Goto("health", IF moduleState = "READY" THEN "h_read" ELSE "h_loop")
    /\ UNCHANGED <<lifeVars, txVars, deviceVars, lineVars, historyVars>>

\* NSTAR_HealthRead: four register reads and FAULT_N
HealthRead ==
    /\ pc["health"] = "h_read"
    /\ \E hot \in {OVERHEATS, FALSE} :
         Command("health", UNCHANGED deviceVars,
                 IF hot THEN "h_check" ELSE "h_loop", "h_loop")
    /\ UNCHANGED <<lifeVars, txVars, lineVars, historyVars>>

\* onFault(NSTAR_FAULT_TEMPERATURE)
NotifyTemperature ==
    /\ pc["health"] = "h_notify"
    /\ Goto("health", "h_loop")
    /\ UNCHANGED <<lifeVars, txVars, deviceVars, lineVars, historyVars>>

HealthThread ==
    \/ Loop("health", "h_loop", "h_ready")
    \/ HealthReady
    \/ HealthRead
    \/ StopIfActive("health", "h_check", "h_notify")
    \/ NotifyTemperature

FaultLabels == {"f_loop", "f_wait", "f_detected", "f_state", "f_check",
                "f_recover", "f_reset", "f_release", "f_cleared", "f_notify"}
HealthLabels == {"h_loop", "h_ready", "h_read", "h_check", "h_notify"}
=============================================================================
