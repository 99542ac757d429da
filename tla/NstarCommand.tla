---------------------------- MODULE NstarCommand ----------------------------
(***************************************************************************)
(* What the register and command entry points of ttc_nstar.c promise to    *)
(* their callers, whatever the UART does: commands are served one at a     *)
(* time; the device may carry out the command being served, and nothing    *)
(* else; a caller that gets OK gets the answer to its own command, which   *)
(* the device has carried out; after an error the caller knows nothing.    *)
(* NstarUart implements this over frames, retries and a shared line.       *)
(***************************************************************************)
EXTENDS NstarDevice

CONSTANTS Threads,        \* threads of the process that issue commands
          NoThread

Succeeded(data) == [ok |-> TRUE, data |-> data]
FailedCall      == [ok |-> FALSE, data |-> <<>>]
-----------------------------------------------------------------------------
VARIABLES regs,      \* the device's registers
          request,   \* request[t]: t's command, NoCommand outside a call
          serving,   \* the caller being served, or NoThread
          outcome    \* outcome[t]: what t's last call returned

abstractVars == <<regs, request, serving, outcome>>

AbstractInit ==
    /\ regs = Defaults
    /\ request = [t \in Threads |-> NoCommand]
    /\ serving = NoThread
    /\ outcome = [t \in Threads |-> FailedCall]

Ask(t) ==
    /\ request[t] = NoCommand
    /\ \E cmd \in Commands : request' = [request EXCEPT ![t] = cmd]
    /\ outcome' = [outcome EXCEPT ![t] = FailedCall]
    /\ UNCHANGED <<regs, serving>>

Serve(t) ==
    /\ request[t] # NoCommand
    /\ serving = NoThread
    /\ serving' = t
    /\ UNCHANGED <<regs, request, outcome>>

\* The device carries out the command of the caller being served; a retry
\* makes it carry the command out again.
CarryOut ==
    /\ serving # NoThread
    /\ regs' = Effect(request[serving], regs)
    /\ UNCHANGED <<request, serving, outcome>>

Reply(t) ==
    /\ serving = t
    /\ serving' = NoThread
    /\ request' = [request EXCEPT ![t] = NoCommand]
    /\ \/ outcome' = [outcome EXCEPT ![t] = FailedCall]
       \/ /\ Done(request[t], regs)
          /\ outcome' = [outcome EXCEPT
                            ![t] = Succeeded(Answer(request[t], regs).data)]
    /\ UNCHANGED regs

AbstractNext == CarryOut \/ \E t \in Threads : Ask(t) \/ Serve(t) \/ Reply(t)

AbstractSpec == AbstractInit /\ [][AbstractNext]_abstractVars
=============================================================================
