--------------------------- MODULE NstarLifecycle ---------------------------
(***************************************************************************)
(* The life of a context: NSTAR_Init, NSTAR_StartupSequence (called by the *)
(* application once and by the fault thread after every fault) and         *)
(* NSTAR_Deinit. Init creates the worker threads one by one and they run   *)
(* from then on, before Init has returned.                                 *)
(***************************************************************************)
EXTENDS NstarContext

\* Where each worker starts, in the order of creation.
FirstLabel == [rx |-> "rx_run", fault |-> "f_loop", health |-> "h_loop"]

\* NSTAR_Init
InitContext(t) ==
    /\ pc[t] = "init"
    /\ ctx' = "live"
    /\ moduleState' = "INITIALISING"
    /\ Goto(t, "create_rx")
    /\ UNCHANGED <<stopFlag, identityValid, txVars, deviceVars, lineVars,
                   historyVars>>

\* pthread_create of one worker, which may fail.
Create(t, here, worker, next) ==
    /\ pc[t] = here
    /\ \/ pc' = [pc EXCEPT ![t] = next, ![worker] = FirstLabel[worker]]
       \/ pc' = [pc EXCEPT ![t] = "init_failed"]
    /\ UNCHANGED <<ret, bytes, lifeVars, txVars, deviceVars, lineVars,
                   historyVars>>

InitFailed(t) ==
    /\ pc[t] = "init_failed"
    /\ stopFlag' = TRUE
    /\ ctx' = "freed"
    /\ Goto(t, "exited")
    /\ UNCHANGED <<moduleState, identityValid, txVars, deviceVars, lineVars,
                   historyVars>>

InitDone(t) ==
    /\ pc[t] = "init_done"
    /\ SetModuleState("STARTING")
    /\ Goto(t, "init_return")
    /\ UNCHANGED <<txVars, deviceVars, lineVars, historyVars>>

\* Init has returned; the application calls NSTAR_StartupSequence next.
CallStartup(t) ==
    /\ pc[t] = "init_return"
    /\ Enter(t, "startup_begin", "idle")
    /\ UNCHANGED <<lifeVars, txVars, deviceVars, lineVars, historyVars>>

\* NSTAR_StartupSequence
StartupBegin(t) ==
    /\ pc[t] = "startup_begin"
    /\ SetModuleState("STARTING")
    /\ Goto(t, "startup_identity")
    /\ UNCHANGED <<txVars, deviceVars, lineVars, historyVars>>

StartupIdentity(t) ==
    /\ pc[t] = "startup_identity"
    /\ Command(t, UNCHANGED deviceVars, "startup_type", "startup_fault")
    /\ identityValid' = (identityValid \/ pc'[t] = "startup_type")
    /\ UNCHANGED <<moduleState, stopFlag, ctx, txVars, lineVars, historyVars>>

StartupType(t) ==
    /\ pc[t] = "startup_type"
    /\ Command(t, UNCHANGED deviceVars, "startup_sweep", "startup_fault")
    /\ UNCHANGED <<lifeVars, txVars, lineVars, historyVars>>

StartupSweep(t) ==
    /\ pc[t] = "startup_sweep"
    /\ Command(t, UNCHANGED deviceVars, "startup_ready", "startup_fault")
    /\ UNCHANGED <<lifeVars, txVars, lineVars, historyVars>>

StartupReady(t) ==
    /\ pc[t] = "startup_ready"
    /\ SetModuleState("READY")
    /\ Leave(t)
    /\ UNCHANGED <<txVars, deviceVars, lineVars, historyVars>>

\* Mutant: a step that fails returns without a new state.
StartupFaultUnnoticed(t) ==
    /\ pc[t] = "startup_fault"
    /\ Leave(t)
    /\ UNCHANGED <<lifeVars, txVars, deviceVars, lineVars, historyVars>>

StartupFault(t) ==
    /\ pc[t] = "startup_fault"
    /\ SetModuleState("FAULT")
    /\ Leave(t)
    /\ UNCHANGED <<txVars, deviceVars, lineVars, historyVars>>

Startup(t) == StartupBegin(t) \/ StartupIdentity(t) \/ StartupType(t)
                \/ StartupSweep(t) \/ StartupReady(t) \/ StartupFault(t)

\* NSTAR_Deinit
Deinit(t) ==
    /\ pc[t] = "idle"
    /\ SetModuleState("SHUTTING_DOWN")
    /\ Goto(t, "deinit_flag")
    /\ UNCHANGED <<txVars, deviceVars, lineVars, historyVars>>

\* Mutant: the RX thread is not joined.
DeinitFlagSkippingRx(t) ==
    /\ pc[t] = "deinit_flag"
    /\ stopFlag' = TRUE
    /\ Goto(t, "join_fault")
    /\ UNCHANGED <<moduleState, identityValid, ctx, txVars, deviceVars,
                   lineVars, historyVars>>

DeinitFlag(t) ==
    /\ pc[t] = "deinit_flag"
    /\ stopFlag' = TRUE
    /\ Goto(t, "join_rx")
    /\ UNCHANGED <<moduleState, identityValid, ctx, txVars, deviceVars,
                   lineVars, historyVars>>

Join(t, here, worker, next) ==
    /\ pc[t] = here
    /\ pc[worker] = "exited"
    /\ Goto(t, next)
    /\ UNCHANGED <<lifeVars, txVars, deviceVars, lineVars, historyVars>>

DeinitFree(t) ==
    /\ pc[t] = "deinit_free"
    /\ ctx' = "freed"
    /\ Goto(t, "exited")
    /\ UNCHANGED <<moduleState, stopFlag, identityValid, txVars, deviceVars,
                   lineVars, historyVars>>

LifeSteps(t) ==
    \/ InitContext(t) \/ InitFailed(t) \/ InitDone(t) \/ CallStartup(t)
    \/ Create(t, "create_rx", "rx", "create_fault")
    \/ Create(t, "create_fault", "fault", "create_health")
    \/ Create(t, "create_health", "health", "init_done")
    \/ Startup(t)
    \/ DeinitFlag(t) \/ DeinitFree(t)
    \/ Join(t, "join_rx", "rx", "join_fault")
    \/ Join(t, "join_fault", "fault", "join_health")
    \/ Join(t, "join_health", "health", "deinit_free")

InitLabels == {"init", "create_rx", "create_fault", "create_health",
               "init_failed", "init_done", "init_return"}
StartupLabels == {"startup_begin", "startup_identity", "startup_type",
                  "startup_sweep", "startup_ready", "startup_fault"}
DeinitLabels == {"deinit_flag", "join_rx", "join_fault", "join_health",
                 "deinit_free"}
=============================================================================
