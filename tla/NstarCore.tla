------------------------------ MODULE NstarCore -----------------------------
(***************************************************************************)
(* The whole of one transponder interface at work: the application thread, *)
(* the three worker threads and the hardware. The application initialises  *)
(* the context, runs the startup sequence, then starts, feeds and stops    *)
(* transmissions as it likes, and shuts the interface down at any time.    *)
(***************************************************************************)
EXTENDS NstarMonitors

Init ==
    /\ moduleState = "UNINIT"
    /\ stopFlag = FALSE
    /\ identityValid = FALSE
    /\ txActive = FALSE
    /\ txBytesSent = 0
    /\ ctx = "none"
    /\ pc = [t \in Threads |-> IF t = "app" THEN "init" ELSE "none"]
    /\ ret = [t \in Threads |-> "none"]
    /\ bytes = [t \in Threads |-> 0]
    /\ clock = FALSE
    /\ mode = "standby"
    /\ faultN = 0
    /\ resetN = 1
    /\ seenN = 2
    /\ sessions = 0
    /\ completions = 0
    /\ written = 0
    /\ handled = [t \in {"fault", "health"} |-> 0]
    /\ faults = 0
    /\ overlapped = FALSE

\* The device raises FAULT_N: its power has been cut.
FaultRaised ==
    /\ faultN = 0
    /\ faults < MAX_FAULTS
    /\ faultN' = 1
    /\ faults' = faults + 1
    /\ PowerUp
    /\ UNCHANGED <<threadVars, lifeVars, txVars, resetN, seenN,
                   sessions, completions, written, handled, overlapped>>

FaultCleared ==
    /\ faultN = 1
    /\ faultN' = 0
    /\ UNCHANGED <<threadVars, lifeVars, txVars, deviceVars, resetN, seenN,
                   historyVars>>

\* Without its clock the device leaves modulation.
ClockGap ==
    /\ mode = "modulation"
    /\ ~clock
    /\ SetMode("standby")
    /\ UNCHANGED <<threadVars, lifeVars, txVars, lineVars, historyVars>>

Hardware == FaultRaised \/ FaultCleared \/ ClockGap

\* The calls the application is free to make, and the steps it then takes.
AppCalls == TxCalls("app") \/ Deinit("app")
AppSteps == TxSteps("app") \/ LifeSteps("app")
FaultSteps == FaultThread \/ TXStop("fault") \/ Startup("fault")
HealthSteps == HealthThread \/ TXStop("health")

\* Everything has ended; the last step of every run that shuts down.
Ended ==
    /\ \A t \in Threads : pc[t] \in {"none", "exited"}
    /\ UNCHANGED vars

Next == AppCalls \/ AppSteps \/ FaultSteps \/ HealthSteps \/ RxExit
          \/ Hardware \/ Ended

Spec == Init /\ [][Next]_vars

\* Every thread keeps running; nobody has to call, fault or recover.
FairSpec == Spec /\ WF_vars(AppSteps) /\ WF_vars(FaultSteps)
                 /\ WF_vars(HealthSteps) /\ WF_vars(RxExit)
-----------------------------------------------------------------------------
States == {"UNINIT", "INITIALISING", "STARTING", "READY", "FAULT",
           "SHUTTING_DOWN"}
AppLabels == {"idle", "exited"} \cup InitLabels \cup StartupLabels
               \cup StartLabels \cup WriteLabels \cup StopLabels
               \cup DeinitLabels

\* The state is well formed: every thread is at a label of its own and returns to
\* one. And txBytesSent never counts more chunks than the data interface took in
\* this transmission, whatever a TXStop of another thread resets between the load
\* and the store of TXWrite; only between the two assignments of TXStart may it
\* still hold what was left of the one before.
TypeOK ==
    /\ moduleState \in States
    /\ stopFlag \in BOOLEAN /\ identityValid \in BOOLEAN
    /\ txActive \in BOOLEAN /\ txBytesSent \in 0..MAX_CHUNKS
    /\ ctx \in {"none", "live", "freed"}
    /\ DOMAIN pc = Threads /\ DOMAIN ret = Threads
    /\ ret["app"] \in {"none", "idle"}
    /\ ret["fault"] \in {"none", "f_loop", "f_recover"}
    /\ ret["health"] \in {"none", "h_notify"}
    /\ bytes \in [Threads -> 0..MAX_CHUNKS]
    /\ pc["app"] \in AppLabels
    /\ pc["rx"] \in {"none", "rx_run", "exited"}
    /\ pc["fault"] \in {"none", "exited"} \cup FaultLabels \cup StopLabels
                         \cup StartupLabels
    /\ pc["health"] \in {"none", "exited"} \cup HealthLabels \cup StopLabels
    /\ clock \in BOOLEAN
    /\ mode \in {"standby", "modulation"}
    /\ faultN \in 0..1 /\ resetN \in 0..1 /\ seenN \in 0..2
    /\ sessions \in Nat /\ completions \in Nat
    /\ written \in 0..MAX_CHUNKS
    /\ pc["app"] # "start_zero" => txBytesSent <= written
    /\ handled \in [{"fault", "health"} -> Nat]
    /\ faults \in 0..MAX_FAULTS
    /\ overlapped \in BOOLEAN

\* The fault thread has looked for a transmission, and not yet told of the fault.
RecoveryLabels == {"f_recover", "f_reset", "f_release", "f_cleared", "f_notify"}

\* Before the application is told of a fault or of an overheating, the
\* transmission that the monitor thread found is over, whoever ended it: one
\* that is on was started after the thread had looked.
EndedBeforeNotified ==
    \A t \in {"fault", "health"} :
        pc[t] \in {"f_notify", "h_notify"} /\ txActive => sessions > handled[t]

\* The application does not go on starting transmissions on a device that is
\* being recovered. moduleState is looked at once, at the head of TXStart, so one
\* that was under way when the fault thread looked for a transmission to stop may
\* still be committed, and stays on; there is never a second, unless the startup
\* sequence of the application has overwritten FAULT.
OneLateStart ==
    pc["fault"] \in RecoveryLabels /\ moduleState = "FAULT" =>
        sessions <= handled["fault"] + 1

\* With no thread inside TXStart or TXStop, the clock runs exactly when
\* txActive says so: a transmission that is on can be stopped.
Settled == \A t \in Threads : pc[t] \notin StartLabels \cup StopLabels
ClockFollowsSession == Settled => (clock <=> txActive)

\* The context is freed by Deinit only when every worker has returned, even
\* from the middle of a recovery, and RESET_N is not held low, unless the write
\* that was to raise it failed.
FreeAfterExit ==
    pc["app"] = "deinit_free" =>
        (resetN = 1 \/ RESET_FAILS) /\ \A w \in Workers : pc[w] = "exited"

\* As long as no thread enters the TX pipeline while another is inside it, the
\* pipeline keeps its promises, against faults, overheating, lost commands and
\* shutdown: the clock follows txActive, ...
SerialClock == ~overlapped => ClockFollowsSession

\* ... every transmission completes exactly once (and even when threads meet in
\* the pipeline none is forgotten: a transmission that is neither on nor
\* completed is in the hands of a TXStop that is about to call onTXComplete), ...
Bit(b) == IF b THEN 1 ELSE 0
Ending(t) == pc[t] \in {"stop_reset", "stop_notify"}
Unfinished == txActive \/ \E t \in Threads : Ending(t)
NoneForgotten ==
    sessions <= completions + Bit(txActive) + Bit(Ending("app"))
                  + Bit(Ending("fault")) + Bit(Ending("health"))
Completion ==
    /\ NoneForgotten
    /\ ~overlapped => sessions = completions + Bit(Unfinished)

\* ... and onTXComplete gets the number of chunks the data interface took.
SerialBytes ==
    ~overlapped => \A t \in Threads : pc[t] = "stop_notify" => bytes[t] = written

\* The module is never left in a state that is to be passed through: whatever
\* the two startup sequences and the shutdown write over each other, STARTING has
\* a thread in the startup sequence or about to call it after Init, which will
\* write READY or FAULT, and INITIALISING is only seen before Init has returned.
StartingHasStarter ==
    /\ moduleState = "STARTING" =>
         \/ pc["app"] = "init_return"
         \/ \E t \in {"app", "fault"} : pc[t] \in StartupLabels
    /\ moduleState = "INITIALISING" =>
         pc["app"] \in InitLabels \ {"init_return"} \/ ctx = "freed"

\* NSTAR_Deinit returns, whatever the worker threads are doing.
DeinitCompletes == (pc["app"] = "deinit_flag") ~> (ctx = "freed")

\* Every fault that the fault thread takes up ends in onFault and a new startup
\* sequence, even if FAULT_N never falls and every command fails.
FaultRecovered == (pc["fault"] = "f_state") ~> (pc["fault"] = "startup_begin")

\* A fault is taken up if FAULT_N was low at the last poll before, even one of an
\* earlier wait: in a recovery, a rise after the line was seen low is kept for
\* the next wait. A pulse that is over before the next poll may be missed.
FaultTakenUp ==
    (seenN = 0 /\ faultN = 1) ~> (pc["fault"] = "f_state" \/ faultN = 0 \/ stopFlag)

\* The module does not stay in FAULT: the startup sequence is run again.
FaultLeft == (moduleState = "FAULT") ~> (moduleState # "FAULT")
=============================================================================
