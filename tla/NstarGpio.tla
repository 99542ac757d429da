------------------------------ MODULE NstarGpio ------------------------------
(***************************************************************************)
(* nstarGPIOWaitEdge of ttc_nstar_hal_dummy.c as the RX and the fault      *)
(* thread call it, with gGPIOLast, the table in which a wait leaves the    *)
(* last value of its line for the next wait of the same line. Two threads  *)
(* use the table without a lock, and the test process rewrites the files   *)
(* behind the lines, which are empty for a moment when it does (setGPIO).  *)
(*                                                                         *)
(* NstarRx and NstarMonitors have one remembered value per line instead;   *)
(* the properties here say when that is what the table amounts to.         *)
(***************************************************************************)
EXTENDS Integers, FiniteSets

CONSTANTS
    Threads,    \* the threads that wait
    Waits,      \* Waits[t]: the lines t waits for, each with an edge
    MAX_LINES,  \* SIL_GPIO_MAX_LINES, the slots of the table
    Moving,     \* bound: the lines that ever change
    Emptied     \* bound: those whose file is ever found empty

LinesOf(t) == {w[1] : w \in Waits[t]}
Lines == UNION {LinesOf(t) : t \in Threads}
Slots == 1..MAX_LINES
Edges == {"rising", "falling"}

\* Each line is one thread's.
ASSUME LinesAssumption ==
    /\ MAX_LINES \in Nat /\ Moving \subseteq Lines
    /\ IsFiniteSet(Lines) /\ Cardinality(Lines) <= MAX_LINES
    /\ \A t \in Threads : Waits[t] \subseteq LinesOf(t) \X Edges
    /\ \A t, u \in Threads : t # u => LinesOf(t) \cap LinesOf(u) = {}

Unreadable == -1
NoLine == "none"
ASSUME NoLineAssumption == NoLine \notin Lines

VARIABLES
    level,      \* level[l]: the file of line l, Unreadable while it is rewritten
    fd, lastValue, hasLast,   \* gGPIOLast, by slot
    pc,         \* where a thread is in its call, or "idle"
    line, edge, \* the arguments of the call
    slot,       \* lastSlot, 0 outside a call
    prev,       \* the value the wait compares with
    own,        \* history: the last value a wait has read from a line
    writer,     \* history: the line whose call last wrote the slot's value
    foreign,    \* history: the call found the value of another line
    forgot      \* history: lines whose last call ended on an unreadable file

tableVars == <<fd, lastValue, hasLast, writer>>
argVars == <<line, edge>>
callVars == <<pc, argVars, slot, prev, foreign>>
lineHistory == <<own, forgot>>
gpioVars == <<level, tableVars, callVars, lineHistory>>

Init ==
    /\ level = [l \in Lines |-> 0]
    /\ fd = [i \in Slots |-> NoLine]
    /\ lastValue = [i \in Slots |-> 0] /\ hasLast = [i \in Slots |-> FALSE]
    /\ pc = [t \in Threads |-> "idle"]
    /\ line = [t \in Threads |-> NoLine] /\ edge = [t \in Threads |-> "rising"]
    /\ slot = [t \in Threads |-> 0] /\ prev = [t \in Threads |-> 0]
    /\ foreign = [t \in Threads |-> FALSE]
    /\ own = [l \in Lines |-> Unreadable] /\ forgot = {}
    /\ writer = [i \in Slots |-> NoLine]

Goto(t, here, there) == pc[t] = here /\ pc' = [pc EXCEPT ![t] = there]

\* setGPIO of the test process: opening the file empties it, then the level is
\* written.
Rewrite(l) ==
    /\ IF level[l] = Unreadable \/ l \notin Emptied
         THEN \E v \in 0..1 : level' = [level EXCEPT ![l] = v]
         ELSE level' = [level EXCEPT ![l] = Unreadable]
    /\ UNCHANGED <<tableVars, callVars, lineHistory>>
-----------------------------------------------------------------------------
SlotsOf(l) == {i \in Slots : hasLast[i] /\ fd[i] = l}
FreeSlots == {i \in Slots : ~hasLast[i]}
First(S) == CHOOSE i \in S : \A j \in S : i <= j

Call(t, l, e, there) ==
    /\ Goto(t, "idle", there)
    /\ line' = [line EXCEPT ![t] = l] /\ edge' = [edge EXCEPT ![t] = e]
    /\ UNCHANGED <<level, tableVars, prev, foreign, lineHistory>>

\* Mutant: the slot is not remembered.
FindOwnOnly(t, l, e) ==
    SlotsOf(l) # {} /\ Call(t, l, e, "load") /\ UNCHANGED slot

\* A call begins: gpioLastValueSlot finds the line's slot.
FindOwn(t, l, e) ==
    /\ SlotsOf(l) # {} /\ Call(t, l, e, "load")
    /\ slot' = [slot EXCEPT ![t] = First(SlotsOf(l))]

\* Or it finds a free one, for the thread to claim. If there were none the wait
\* would have no history: RoomForAll says that this does not happen.
FindFree(t, l, e) ==
    /\ SlotsOf(l) = {} /\ FreeSlots # {} /\ Call(t, l, e, "claim_fd")
    /\ slot' = [slot EXCEPT ![t] = First(FreeSlots)]

\* The wait compares with the value it finds there.
LoadPrev(t) ==
    /\ Goto(t, "load", "poll")
    /\ prev' = [prev EXCEPT ![t] = lastValue[slot[t]]]
    /\ foreign' = [foreign EXCEPT ![t] = writer[slot[t]] # line[t]]
    /\ UNCHANGED <<level, tableVars, argVars, slot, lineHistory>>

\* Mutant: the slot is not marked with the line.
ClaimNoFd(t) ==
    /\ Goto(t, "claim_fd", "claim_has")
    /\ UNCHANGED <<level, tableVars, argVars, slot, prev, foreign, lineHistory>>

ClaimFd(t) ==
    /\ Goto(t, "claim_fd", "claim_has")
    /\ fd' = [fd EXCEPT ![slot[t]] = line[t]]
    /\ UNCHANGED <<level, lastValue, hasLast, writer, argVars, slot, prev,
                   foreign, lineHistory>>

\* Mutant: the slot stays free.
ClaimNotHas(t) ==
    /\ Goto(t, "claim_has", "claim_last")
    /\ UNCHANGED <<level, tableVars, argVars, slot, prev, foreign, lineHistory>>

ClaimHas(t) ==
    /\ Goto(t, "claim_has", "claim_last")
    /\ hasLast' = [hasLast EXCEPT ![slot[t]] = TRUE]
    /\ UNCHANGED <<level, fd, lastValue, writer, argVars, slot, prev, foreign,
                   lineHistory>>

ClaimLast(t) ==
    /\ Goto(t, "claim_last", "first")
    /\ lastValue' = [lastValue EXCEPT ![slot[t]] = Unreadable]
    /\ writer' = [writer EXCEPT ![slot[t]] = line[t]]
    /\ UNCHANGED <<level, fd, hasLast, argVars, slot, prev, foreign, lineHistory>>

Here(t) == level[line[t]]
Read(t) == own' = IF Here(t) = Unreadable THEN own
                  ELSE [own EXCEPT ![line[t]] = Here(t)]

\* Without a history the wait compares with the level it finds.
FirstValue(t) ==
    /\ Goto(t, "first", "poll")
    /\ prev' = [prev EXCEPT ![t] = Here(t)]
    /\ foreign' = [foreign EXCEPT ![t] = FALSE]
    /\ forgot' = forgot \ {line[t]}
    /\ Read(t)
    /\ UNCHANGED <<level, tableVars, argVars, slot>>

EdgeFound(t) ==
    IF edge[t] = "rising" THEN prev[t] = 0 /\ Here(t) = 1
                          ELSE prev[t] = 1 /\ Here(t) = 0

PollAgain(t) ==
    /\ pc[t] = "poll" /\ ~EdgeFound(t) /\ Here(t) # Unreadable
    /\ prev' = [prev EXCEPT ![t] = Here(t)]
    /\ Read(t)
    /\ UNCHANGED <<level, tableVars, pc, argVars, slot, foreign, forgot>>

\* Mutant: a wait that finds no edge leaves nothing for the next.
LastPollStoringEdges(t) ==
    /\ Goto(t, "poll", "idle")
    /\ IF EdgeFound(t)
         THEN /\ lastValue' = [lastValue EXCEPT ![slot[t]] = Here(t)]
              /\ writer' = [writer EXCEPT ![slot[t]] = line[t]]
              /\ forgot' = forgot \ {line[t]}
         ELSE UNCHANGED <<lastValue, writer, forgot>>
    /\ Read(t)
    /\ line' = [line EXCEPT ![t] = NoLine] /\ edge' = [edge EXCEPT ![t] = "rising"]
    /\ slot' = [slot EXCEPT ![t] = 0] /\ prev' = [prev EXCEPT ![t] = 0]
    /\ foreign' = [foreign EXCEPT ![t] = FALSE]
    /\ UNCHANGED <<level, fd, hasLast>>

\* The poll that finds the edge, or the last one before the timeout: what it has
\* read, if anything, stays in the slot, and the call returns.
LastPoll(t) ==
    /\ Goto(t, "poll", "idle")
    /\ IF Here(t) # Unreadable
         THEN /\ lastValue' = [lastValue EXCEPT ![slot[t]] = Here(t)]
              /\ writer' = [writer EXCEPT ![slot[t]] = line[t]]
              /\ forgot' = forgot \ {line[t]}
         ELSE forgot' = forgot \cup {line[t]} /\ UNCHANGED <<lastValue, writer>>
    /\ Read(t)
    /\ line' = [line EXCEPT ![t] = NoLine] /\ edge' = [edge EXCEPT ![t] = "rising"]
    /\ slot' = [slot EXCEPT ![t] = 0] /\ prev' = [prev EXCEPT ![t] = 0]
    /\ foreign' = [foreign EXCEPT ![t] = FALSE]
    /\ UNCHANGED <<level, fd, hasLast>>

Step(t) == \/ LoadPrev(t) \/ ClaimFd(t) \/ ClaimHas(t) \/ ClaimLast(t)
           \/ FirstValue(t) \/ LastPoll(t)

Next == \/ \E l \in Moving : Rewrite(l)
        \/ \E t \in Threads :
             \/ \E w \in Waits[t] : FindOwn(t, w[1], w[2]) \/ FindFree(t, w[1], w[2])
             \/ Step(t) \/ PollAgain(t)

Spec == Init /\ [][Next]_gpioVars

\* A thread goes on with its call, and a call times out at last.
FairSpec == Spec /\ \A t \in Threads : WF_gpioVars(Step(t))
-----------------------------------------------------------------------------
\* The state is well formed; whoever is past the search has a slot.
TypeOK ==
    /\ level \in [Lines -> -1..1] /\ own \in [Lines -> -1..1]
    /\ fd \in [Slots -> Lines \cup {NoLine}]
    /\ lastValue \in [Slots -> -1..1] /\ hasLast \in [Slots -> BOOLEAN]
    /\ writer \in [Slots -> Lines \cup {NoLine}] /\ forgot \subseteq Lines
    /\ foreign \in [Threads -> BOOLEAN]
    /\ edge \in [Threads -> Edges] /\ prev \in [Threads -> -1..1]
    /\ slot \in [Threads -> 0..MAX_LINES]
    /\ \A t \in Threads :
         /\ pc[t] \in {"idle", "load", "claim_fd", "claim_has",
                       "claim_last", "first", "poll"}
         /\ line[t] \in IF pc[t] = "idle" THEN {NoLine} ELSE LinesOf(t)
         /\ pc[t] # "idle" => slot[t] \in Slots

\* The table has a slot for every line, whatever claims collide: a line never
\* takes a second one while its first is marked with it.
RoomForAll ==
    \A t \in Threads : pc[t] = "idle" =>
        \A l \in LinesOf(t) : SlotsOf(l) \cup FreeSlots # {}

Returns(t) == pc[t] = "poll" /\ pc'[t] = "idle"

\* An edge that a wait reports lies between two values read from its line, the
\* last one before and this one, unless the slot held another line's value when
\* the wait began, or the wait before ended on an unreadable file.
EdgeSeen ==
    [][\A t \in Threads :
         Returns(t) /\ EdgeFound(t) /\ ~foreign[t] /\ line[t] \notin forgot
           => own[line[t]] = 1 - Here(t)]_gpioVars

\* Two threads may claim one slot at first, but not for ever.
SlotsSettle ==
    <>[](\A t, u \in Threads : t # u /\ slot[t] = slot[u] => slot[t] = 0)
=============================================================================
