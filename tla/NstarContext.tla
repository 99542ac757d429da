---------------------------- MODULE NstarContext ----------------------------
(***************************************************************************)
(* The context of one transponder (struct NSTAR_Ctx), the threads that     *)
(* share it, and the hardware they drive, as ttc_nstar.c sees them. The    *)
(* modules NstarTx, NstarLifecycle and NstarMonitors add the procedures    *)
(* the threads run; NstarCore puts them together.                          *)
(*                                                                         *)
(* A thread is at a label pc[t]. A procedure that several threads call     *)
(* (NSTAR_TXStop, NSTAR_StartupSequence) returns to ret[t]. A step reads   *)
(* or writes shared state once: moduleState is accessed under stateMutex,  *)
(* every other field of the context without any lock.                      *)
(*                                                                         *)
(* A command over the UART is one step, as NstarCommand promises: it has   *)
(* been carried out if it succeeds, and may have been if it fails.         *)
(***************************************************************************)
EXTENDS Integers

CONSTANTS Uart,          \* how the UART behaves: see UartKinds
          MAX_SESSIONS,  \* bound on the transmissions started
          OVERHEATS,     \* the power amplifier may exceed the warning level
          MAX_FAULTS,    \* bound on the faults the hardware raises
          MAX_CHUNKS,    \* bound on the chunks counted in txBytesSent
          RESET_FAILS    \* nstarGPIOWrite of RESET_N may fail

\* reliable   every command succeeds
\* silent     no command succeeds while FAULT_N is raised, all others do
\* lossy      any command may fail
UartKinds == {"reliable", "silent", "lossy"}

ASSUME UartAssumption == Uart \in UartKinds
ASSUME OverheatsAssumption == OVERHEATS \in BOOLEAN
ASSUME ResetFailsAssumption == RESET_FAILS \in BOOLEAN
ASSUME BoundsAssumption ==
    MAX_SESSIONS \in Nat /\ MAX_FAULTS \in Nat /\ MAX_CHUNKS \in Nat

Threads == {"app", "rx", "fault", "health"}
Workers == Threads \ {"app"}

VARIABLES
    moduleState, stopFlag, identityValid, txActive, txBytesSent,
    ctx,          \* the context: "none", "live" or "freed"
    pc, ret,      \* where each thread is, where its procedure returns to
    bytes,        \* local of TXStop, and of TXWrite while it adds to the total
    clock,        \* the TX clock runs
    mode,         \* TX_MODE of the device
    faultN, resetN,
    seenN,        \* FAULT_N as nstarGPIOWaitEdge last polled it, 2 at first
    sessions,     \* history: transmissions started so far
    completions,  \* history: calls of onTXComplete so far
    written,      \* history: chunks the data interface took in this session
    handled,      \* history: sessions when a monitor thread looked at txActive
    faults,       \* history: faults raised so far
    overlapped    \* history: two threads have been in the TX pipeline at once

threadVars  == <<pc, ret, bytes>>
lifeVars    == <<moduleState, stopFlag, identityValid, ctx>>
txVars      == <<txActive, txBytesSent>>
deviceVars  == <<clock, mode>>
lineVars    == <<faultN, resetN, seenN>>
historyVars == <<sessions, completions, written, handled, faults,
                 overlapped>>
vars == <<threadVars, lifeVars, txVars, deviceVars, lineVars, historyVars>>

Goto(t, label) == pc' = [pc EXCEPT ![t] = label] /\ UNCHANGED <<ret, bytes>>

\* Enter a procedure at its first label, to return to label after.
Enter(t, label, after) ==
    /\ pc' = [pc EXCEPT ![t] = label]
    /\ ret' = [ret EXCEPT ![t] = after]
    /\ UNCHANGED bytes

Leave(t) == Goto(t, ret[t])

\* getModuleState and setModuleState
SetModuleState(s) == moduleState' = s /\ UNCHANGED <<stopFlag, identityValid, ctx>>

\* A device held in reset answers nothing, whatever the UART does.
MayAnswer == resetN = 1 /\ (Uart = "silent" => faultN = 0)
MayFail   == resetN = 0 \/ Uart = "lossy" \/ (Uart = "silent" /\ faultN = 1)

\* A command of thread t with the given effect on the device.
Command(t, effect, onOK, onError) ==
    \/ MayAnswer /\ effect /\ Goto(t, onOK)
    \/ MayFail /\ UNCHANGED deviceVars /\ Goto(t, onError)
    \/ MayFail /\ MayAnswer /\ effect /\ Goto(t, onError)

SetMode(m) == mode' = m /\ UNCHANGED clock
SetClock(on) == clock' = on /\ UNCHANGED mode
PowerUp == SetMode("standby")
=============================================================================
