------------------------------ MODULE NstarSil -------------------------------
(***************************************************************************)
(* The SIL application nstar_app_sil.c between the interface and the test  *)
(* process. The test process appends commands to the control file; the     *)
(* monitor loop of main reads them, makes the calls and truncates the      *)
(* file. The callbacks of the interface's threads update globals; the loop *)
(* compares the globals with the last values it saw and rewrites the       *)
(* status file. Nothing here takes a lock.                                 *)
(*                                                                         *)
(* The simulator's applyControlCommands reads its own control file in the  *)
(* same way. Globals and status file are functions from the keys of the    *)
(* status file; a value is a small number that stands for the one printed. *)
(***************************************************************************)
EXTENDS Integers, Sequences, FiniteSets, Functions

CONSTANTS Script,         \* the commands the test process sends
          MAX_EVENTS      \* bound on commands, callbacks and changes of state

\* The order in which refreshStatus reads the globals.
Keys == <<"MODULE_STATE", "RX_STATE",
          "FRAME_RECEIVED_COUNT", "TOTAL_BYTES_RECEIVED",
          "LOCK_ACQUIRED_COUNT", "LOCK_LOST_COUNT",
          "FAULT_COUNT", "LAST_FAULT",
          "TX_COMPLETE_COUNT", "LAST_TX_BYTES",
          "LAST_TX_START_RC", "LAST_TX_WRITE_RC", "LAST_TX_STOP_RC">>

States == {"MODULE_STATE", "RX_STATE"}

\* Each callback: the counter it increments, then the global it sets, if any.
Counter == [onFrameReceived |-> "FRAME_RECEIVED_COUNT",
            onLockAcquired |-> "LOCK_ACQUIRED_COUNT",
            onLockLost |-> "LOCK_LOST_COUNT",
            onFault |-> "FAULT_COUNT",
            onTXComplete |-> "TX_COMPLETE_COUNT"]
Detail == [onFrameReceived |-> "TOTAL_BYTES_RECEIVED",
           onFault |-> "LAST_FAULT",
           onTXComplete |-> "LAST_TX_BYTES"]

\* The callbacks a thread makes; main completes a transmission in a TX_STOP.
Callbacks == [rx |-> {"onFrameReceived", "onLockAcquired", "onLockLost"},
              fault |-> {"onFault", "onTXComplete"},
              health |-> {"onFault", "onTXComplete"},
              main |-> {"onTXComplete"}]
Threads == DOMAIN Callbacks

\* Stands for the fault a thread reports and for the bytes of the transmission
\* it stops.
OwnValue == [fault |-> 1, health |-> 2, main |-> 3]

\* The result each command of the control file sets.
RC == [TX_START |-> "LAST_TX_START_RC", TX_WRITE |-> "LAST_TX_WRITE_RC",
       TX_STOP |-> "LAST_TX_STOP_RC"]
Commands == DOMAIN RC

ASSUME SilBoundsAssumption ==
    Script \in Seq(Commands) /\ MAX_EVENTS \in Nat

VARIABLES
    pc,           \* where main is
    file,         \* the control file: the numbers of the commands in it
    pos,          \* main has read this many of its lines
    executed,     \* history: commands executed
    sent,         \* history: commands sent
    late,         \* history: those sent after main had come to the end of file
    mem,          \* the globals
    changes,      \* how often a state has changed
    rcBefore,     \* rcBeforeStart, rcBeforeWrite, rcBeforeStop
    cur,          \* moduleState and rxState as the loop has sampled them
    last,         \* the values seen in the last refresh
    snap,         \* gStatus, filled by refreshStatus
    next,         \* the key refreshStatus comes to next
    status,       \* the status file
    step,         \* step[t]: where t is in a callback, or "none"
    callback,     \* callback[t]: which one, the last if in none
    loaded,       \* loaded[t]: the counter as t has read it, 0 once stored
    calls,        \* history: calls of each callback
    collisions,   \* history: for each callback, how often a thread has begun to
                  \* count while another was in the increment of that counter
    dirty,        \* history: the globals that changed since main sampled the states
    raced         \* history: those, and the ones about to be set by a callback that
                  \* had counted, when the last refresh ended

controlVars == <<file, pos, executed, sent, late>>
refreshVars == <<rcBefore, cur, last, snap, next, status>>
callbackVars == <<step, callback, loaded, calls, collisions>>
raceVars == <<dirty, raced>>
silVars == <<pc, controlVars, mem, changes, refreshVars, callbackVars,
             raceVars>>

Globals == Range(Keys)
NotSampled == [k \in States |-> -1]
Compared == States \cup {Counter[c] : c \in DOMAIN Counter}

Init ==
    /\ pc = "startup"
    /\ file = <<>> /\ pos = 0 /\ executed = <<>> /\ sent = 0 /\ late = {}
    /\ mem = [k \in Globals |-> 0] /\ changes = 0
    /\ rcBefore = [op \in Commands |-> 0] /\ cur = NotSampled
    /\ last = [k \in Compared |-> 0]
    /\ snap = mem /\ next = 1 /\ status = mem
    /\ step = [t \in Threads |-> "none"]
    /\ callback = [t \in Threads |-> "onTXComplete"]
    /\ loaded = [t \in Threads |-> 0]
    /\ calls = [c \in DOMAIN Counter |-> 0]
    /\ collisions = [c \in DOMAIN Counter |-> 0]
    /\ dirty = {} /\ raced = {}

\* From where main samples the states to where it notes what it has seen.
InWindow == pc \in {"compare", "refresh", "update"}

\* The globals that callbacks which have counted have not set yet
HalfDone == {Detail[callback[t]] : t \in {u \in Threads : step[u] = "detail"}}
-----------------------------------------------------------------------------
(* The test process, and the threads of the interface.                     *)

Events == sent + changes + FoldFunction(+, 0, calls)

\* appControl: one line is appended, with the file open for appending.
Send ==
    /\ sent < Len(Script) /\ Events < MAX_EVENTS
    /\ sent' = sent + 1
    /\ file' = Append(file, sent')
    /\ late' = IF pc = "truncate" THEN late \cup {sent'} ELSE late
    /\ UNCHANGED <<pc, pos, executed, mem, changes, refreshVars,
                   callbackVars, raceVars>>

\* A thread writes a global that main reads.
SetGlobal(k, v) ==
    /\ mem' = [mem EXCEPT ![k] = v]
    /\ dirty' = IF InWindow THEN dirty \cup {k} ELSE dirty
    /\ UNCHANGED <<controlVars, refreshVars, raced>>

\* setModuleState, or the RX thread sets rxState: between two values, so that a
\* state may come back.
ChangeState(k) ==
    /\ Events < MAX_EVENTS
    /\ changes' = changes + 1
    /\ SetGlobal(k, 1 - mem[k])
    /\ UNCHANGED <<pc, callbackVars>>

\* The command main is executing.
Current == Script[executed[Len(executed)]]

\* The threads that have read the counter of c and not yet stored it.
Counting(c) == {t \in Threads : step[t] = "store" /\ callback[t] = c}

\* A callback reads the counter it increments; in main only out of a TX_STOP.
LoadCounter(t, c) ==
    /\ step[t] = "none" /\ c \in Callbacks[t]
    /\ Events < MAX_EVENTS
    /\ calls' = [calls EXCEPT ![c] = @ + 1]
    /\ t = "main" => pc = "execute" /\ Current = "TX_STOP"
    /\ step' = [step EXCEPT ![t] = "store"]
    /\ callback' = [callback EXCEPT ![t] = c]
    /\ loaded' = [loaded EXCEPT ![t] = mem[Counter[c]]]
    /\ collisions' = IF Counting(c) = {} THEN collisions
                     ELSE [collisions EXCEPT ![c] = @ + 1]
    /\ UNCHANGED <<pc, controlVars, mem, changes, refreshVars, raceVars>>

\* Mutant: a fault by temperature is not counted.
StoreCounterOfSel(t) ==
    /\ step[t] = "store"
    /\ SetGlobal(Counter[callback[t]],
                 IF t = "health" THEN loaded[t] ELSE loaded[t] + 1)
    /\ step' = [step EXCEPT ![t] = IF callback[t] \in DOMAIN Detail
                                   THEN "detail" ELSE "none"]
    /\ loaded' = [loaded EXCEPT ![t] = 0]
    /\ UNCHANGED <<pc, changes, callback, calls, collisions>>

StoreCounter(t) ==
    /\ step[t] = "store"
    /\ SetGlobal(Counter[callback[t]], loaded[t] + 1)
    /\ step' = [step EXCEPT ![t] = IF callback[t] \in DOMAIN Detail
                                   THEN "detail" ELSE "none"]
    /\ loaded' = [loaded EXCEPT ![t] = 0]
    /\ UNCHANGED <<pc, changes, callback, calls, collisions>>

\* gTotalBytesReceived grows; gLastFault and gLastTXBytes are overwritten.
SetDetail(t) ==
    /\ step[t] = "detail"
    /\ LET k == Detail[callback[t]] IN
         IF k = "TOTAL_BYTES_RECEIVED" THEN SetGlobal(k, mem[k] + 1)
         ELSE SetGlobal(k, OwnValue[t])
    /\ step' = [step EXCEPT ![t] = "none"]
    /\ UNCHANGED <<pc, changes, callback, loaded, calls, collisions>>

Callback(t) == \/ \E c \in DOMAIN Counter : LoadCounter(t, c)
               \/ StoreCounter(t) \/ SetDetail(t)
-----------------------------------------------------------------------------
(* main.                                                                   *)

Goto(here, there) == pc = here /\ pc' = there

\* NSTAR_StartupSequence, then the refresh that follows it.
Startup ==
    /\ Goto("startup", "refresh")
    /\ \E v \in 0..1 : mem' = [mem EXCEPT !["MODULE_STATE"] = v]
    /\ dirty' = {}
    /\ UNCHANGED <<controlVars, changes, refreshVars, callbackVars,
                   raced>>

\* gRunning is cleared by a signal, or the run duration is over.
LeaveLoop ==
    /\ Goto("loop", "deinit")
    /\ UNCHANGED <<controlVars, mem, changes, refreshVars, callbackVars,
                   raceVars>>

\* while (gRunning): sleep, then open the control file.
LoopHead ==
    /\ Goto("loop", "lines")
    /\ rcBefore' = [op \in Commands |-> mem[RC[op]]]
    /\ UNCHANGED <<controlVars, mem, changes, cur, last, snap, next, status,
                   callbackVars, raceVars>>

\* Mutant: one line each time round.
ReadOneLine ==
    /\ pos < Len(file)
    /\ Goto("lines", IF pos = 0 THEN "execute" ELSE "truncate")
    /\ pos' = 1 - pos
    /\ executed' = IF pos = 0 THEN Append(executed, file[pos + 1]) ELSE executed
    /\ UNCHANGED <<file, sent, late, mem, changes, refreshVars,
                   callbackVars, raceVars>>

\* fgets, and the command is recognised.
ReadLine ==
    /\ pos < Len(file)
    /\ Goto("lines", "execute")
    /\ pos' = pos + 1
    /\ executed' = Append(executed, file[pos'])
    /\ UNCHANGED <<file, sent, late, mem, changes, refreshVars,
                   callbackVars, raceVars>>

\* The call returns and its result is noted. A TX_WRITE of a size out of range
\* makes no call.
Execute ==
    /\ pc = "execute" /\ step["main"] = "none"
    /\ pc' = "lines"
    /\ \/ mem' = [mem EXCEPT ![RC[Current]] = 1]
       \/ Current = "TX_WRITE" /\ UNCHANGED mem
    /\ UNCHANGED <<controlVars, changes, refreshVars, callbackVars,
                   raceVars>>

\* Mutant: the file is never truncated.
EndOfFileKeeping ==
    /\ pos = Len(file)
    /\ Goto("lines", "sample")
    /\ pos' = 0
    /\ UNCHANGED <<file, executed, sent, late, mem, changes, refreshVars,
                   callbackVars, raceVars>>

\* Mutant: the file stays open.
EndOfFileOpen ==
    /\ pos = Len(file)
    /\ Goto("lines", IF pos > 0 THEN "truncate" ELSE "sample")
    /\ UNCHANGED <<controlVars, mem, changes, refreshVars, callbackVars,
                   raceVars>>

\* fgets finds the end of the file, which is closed.
EndOfFile ==
    /\ pos = Len(file)
    /\ Goto("lines", IF pos > 0 THEN "truncate" ELSE "sample")
    /\ pos' = 0
    /\ UNCHANGED <<file, executed, sent, late, mem, changes, refreshVars,
                   callbackVars, raceVars>>

Truncate ==
    /\ Goto("truncate", "sample")
    /\ file' = <<>>
    /\ UNCHANGED <<pos, executed, sent, late, mem, changes, refreshVars,
                   callbackVars, raceVars>>

Sample ==
    /\ Goto("sample", "compare")
    /\ cur' = [k \in States |-> mem[k]]
    /\ dirty' = {}
    /\ UNCHANGED <<controlVars, mem, changes, rcBefore, last, snap,
                   next, status, callbackVars, raced>>

\* Mutant: lock losses are not compared.
ChangedButLost ==
    \/ \E k \in States : cur[k] # last[k]
    \/ \E k \in Compared \ (States \cup {"LOCK_LOST_COUNT"}) : mem[k] # last[k]
    \/ \E op \in Commands : mem[RC[op]] # rcBefore[op]

Changed ==
    \/ \E k \in States : cur[k] # last[k]
    \/ \E k \in Compared \ States : mem[k] # last[k]
    \/ \E op \in Commands : mem[RC[op]] # rcBefore[op]

Compare ==
    /\ pc = "compare"
    /\ IF Changed THEN pc' = "refresh" /\ UNCHANGED cur
                  ELSE pc' = "loop" /\ cur' = NotSampled
    /\ rcBefore' = [op \in Commands |-> 0]
    /\ UNCHANGED <<controlVars, mem, changes, last, snap, next, status,
                   callbackVars, raceVars>>

\* refreshStatus reads the next global; after the last one the file is replaced
\* as a whole (rename).
Refresh ==
    /\ pc = "refresh"
    /\ snap' = [snap EXCEPT ![Keys[next]] = mem[Keys[next]]]
    /\ IF next < Len(Keys)
         THEN next' = next + 1 /\ UNCHANGED <<pc, status>>
         ELSE next' = 1 /\ pc' = "update" /\ status' = snap'
    /\ UNCHANGED <<controlVars, mem, changes, rcBefore, cur, last,
                   callbackVars, raceVars>>

\* lastModuleState = curModuleState, lastFrameCount = gFrameReceivedCount and so
\* on; after the startup the states are read as well. One step: more of them
\* would only make the window longer.
Update ==
    /\ Goto("update", "loop")
    /\ last' = [k \in Compared |-> IF k \in States /\ cur # NotSampled
                                   THEN cur[k] ELSE mem[k]]
    /\ cur' = NotSampled
    /\ raced' = dirty \cup HalfDone /\ dirty' = {}
    /\ snap' = [k \in Globals |-> 0]
    /\ UNCHANGED <<controlVars, mem, changes, rcBefore, next, status, callbackVars>>

Main == \/ Startup \/ LoopHead \/ LeaveLoop \/ ReadLine \/ EndOfFile \/ Truncate \/ Sample
        \/ Compare \/ Refresh \/ Update
        \/ Execute

Ended == pc = "deinit" /\ UNCHANGED silVars

Next == \/ Main \/ Send \/ Ended
        \/ \E t \in Threads : Callback(t)
        \/ \E k \in States : ChangeState(k)

\* main and the threads keep running; nobody has to send, raise or stop.
FairSpec ==
    /\ Init /\ [][Next]_silVars
    /\ WF_silVars(Main)
    /\ \A t \in Threads : WF_silVars(StoreCounter(t) \/ SetDetail(t))
-----------------------------------------------------------------------------
\* The state is well formed.
TypeOK ==
    /\ pc \in {"startup", "loop", "lines", "execute", "truncate",
               "sample", "compare", "refresh", "update", "deinit"}
    /\ file \in Seq(1..Len(Script)) /\ pos \in 0..Len(file)
    /\ {mem, snap, status} \subseteq [Globals -> Nat]
    /\ \A c \in DOMAIN Counter : mem[Counter[c]] <= calls[c]
    /\ next \in 1..Len(Keys)
    /\ step \in [Threads -> {"none", "store", "detail"}]

\* A command is executed at most once, and never before one sent earlier.
ExecutedInOrder ==
    \A i, j \in DOMAIN executed : i < j => executed[i] < executed[j]

\* Every command is executed in the end, unless it was sent between the end of
\* the file and its truncation; those are the only commands lost.
CommandsExecuted ==
    \A n \in 1..Len(Script) :
        (n <= sent) ~> (n \in Range(executed) \/ n \in late \/ pc = "deinit")

\* When the callbacks have ended, the status file shows the globals. The only
\* ones that may be out of date, and for ever, are those that themselves changed
\* while main was between the sampling of the states and the end of the last
\* refresh, and those that a callback had yet to set after it had counted. An
\* increment that was lost may hide any.
Collided == \E c \in DOMAIN Counter : collisions[c] > 0
Shown(k) == status[k] = mem[k]
StatusCatchesUp ==
    <>[]((\A k \in Globals \ raced : Shown(k)) \/ Collided \/ pc = "deinit")

\* What the unlocked increments lose: a counter never runs ahead of the callbacks
\* that have ended, and falls behind the calls by one callback in progress and by
\* no more than one for every time a thread came into the increment of another.
\* Without such a collision every call is counted.
Counted ==
    \A c \in DOMAIN Counter :
        /\ mem[Counter[c]] + Cardinality(Counting(c)) <= calls[c]
        /\ calls[c] <= mem[Counter[c]] + collisions[c]
                         + (IF Counting(c) = {} THEN 0 ELSE 1)
=============================================================================
