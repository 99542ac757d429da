--------------------------- MODULE NstarGpioProofs --------------------------
(***************************************************************************)
(* Proofs about the slot table of nstarGPIOWaitEdge and the values in it,  *)
(* for any threads that wait for lines of their own and any table with a   *)
(* slot per line.                                                          *)
(***************************************************************************)
EXTENDS NstarGpio, FiniteSetTheorems, WellFoundedInduction, TLAPS

Labels == {"idle", "load", "claim_fd", "claim_has", "claim_last", "first", "poll"}

\* TypeOK, and what it leaves open.
Typed == /\ TypeOK
         /\ pc \in [Threads -> Labels] /\ line \in [Threads -> Lines \cup {NoLine}]

\* No two slots are marked with one line.
Unique == \A i, j \in Slots : fd[i] = fd[j] /\ fd[i] # NoLine => i = j

\* A slot that is taken is marked; one that is marked is taken, or will be by
\* the thread whose line it is marked with.
Taken ==
    /\ \A i \in Slots : hasLast[i] => fd[i] # NoLine
    /\ \A i \in Slots : fd[i] # NoLine /\ ~hasLast[i] =>
         \E t \in Threads : pc[t] = "claim_has" /\ slot[t] = i /\ line[t] = fd[i]
    /\ \A t \in Threads : pc[t] = "claim_has" => fd[slot[t]] # NoLine

\* A thread that claims a slot has none that is marked with the line.
Unmarked == \A t \in Threads : pc[t] = "claim_fd" => \A i \in Slots : fd[i] # line[t]

TableInv == Typed /\ Unique /\ Taken /\ Unmarked
-----------------------------------------------------------------------------
\* A set of slots has a first one.
LEMMA FirstSlot ==
    ASSUME NEW S \in SUBSET Slots, S # {}
    PROVE  First(S) \in S
<1>1. S \subseteq Nat
  BY LinesAssumption DEF Slots
<1>2. PICK i \in S : \A j \in S : <<j, i>> \notin OpToRel(<, Nat)
  BY <1>1, NatLessThanWellFounded, WFMin, Zenon
<1>3. \A j \in S : i <= j
  <2>1. ASSUME NEW j \in S, j < i PROVE FALSE
    BY <1>1, <1>2, <2>1 DEF OpToRel
  <2> QED  BY <1>1, <2>1
<1> QED  BY <1>2, <1>3 DEF First

\* With a slot for every line, and no line with two, there is one for each.
LEMMA RoomLeft ==
    ASSUME Unique, \A i \in Slots : hasLast[i] => fd[i] # NoLine,
           fd \in [Slots -> Lines \cup {NoLine}], NEW l \in Lines
    PROVE  SlotsOf(l) \cup FreeSlots # {}
<1> SUFFICES ASSUME \A i \in Slots : hasLast[i] /\ fd[i] # l PROVE FALSE
  BY DEF SlotsOf, FreeSlots
<1> DEFINE Rest == Lines \ {l}
<1>1. fd \in [Slots -> Rest]
  OBVIOUS
<1>2. IsFiniteSet(Rest) /\ Cardinality(Rest) = Cardinality(Lines) - 1
  BY LinesAssumption, FS_RemoveElement
<1>3. IsFiniteSet(Slots) /\ Cardinality(Slots) = MAX_LINES
  <2>1. 1 \in Int /\ MAX_LINES \in Int
    BY LinesAssumption
  <2>2. /\ IsFiniteSet(1..MAX_LINES)
        /\ Cardinality(1..MAX_LINES) = IF 1 > MAX_LINES THEN 0
                                       ELSE MAX_LINES - 1 + 1
    BY <2>1, FS_Interval
  <2> QED  BY <2>2, LinesAssumption DEF Slots
<1>4. Cardinality(Lines) \in Nat
  BY LinesAssumption, FS_CardinalityType
<1>5. Cardinality(Rest) < Cardinality(Slots)
  BY <1>2, <1>3, <1>4, LinesAssumption
<1>6. PICK i, j \in Slots : i # j /\ fd[i] = fd[j]
  BY <1>1, <1>2, <1>3, <1>5, FS_PigeonHole
<1> QED  BY <1>1, <1>6, NoLineAssumption DEF Unique
-----------------------------------------------------------------------------
\* The initial state satisfies the invariant.
LEMMA TableInit == Init => TableInv
<1> SUFFICES ASSUME Init PROVE TableInv
  OBVIOUS
<1>1. /\ hasLast \in [Slots -> BOOLEAN] /\ \A i \in Slots : ~hasLast[i]
      /\ foreign \in [Threads -> BOOLEAN]
  BY Zenon DEF Init
<1>2. TypeOK
  BY <1>1, LinesAssumption DEF Init, TypeOK, Unreadable, Edges
<1>3. Typed
  BY <1>2 DEF Init, Typed, Labels
<1> QED
  BY <1>1, <1>3, NoLineAssumption
     DEF Init, TableInv, Unique, Taken, Unmarked

\* Only t's call goes on.
OthersWait(t) ==
    \A u \in Threads : u # t => /\ pc'[u] = pc[u] /\ slot'[u] = slot[u]
                                /\ line'[u] = line[u]

\* A step that marks and takes no slot, and is not about to.
LEMMA TableKept ==
    ASSUME TableInv, UNCHANGED <<fd, hasLast>>, NEW t \in Threads, OthersWait(t),
           pc[t] # "claim_has", pc'[t] \notin {"claim_fd", "claim_has"}
    PROVE  Unique' /\ Taken' /\ Unmarked'
<1>1. Unique'
  BY DEF TableInv, Unique
<1>2. Taken'
  BY DEF TableInv, Taken, OthersWait
<1>3. Unmarked'
  BY DEF TableInv, Unmarked, OthersWait
<1> QED  BY <1>1, <1>2, <1>3

\* A call begins, at the slot of its line or at a free one.
LEMMA CallTyped ==
    ASSUME Typed, NEW t \in Threads, NEW w \in Waits[t], NEW there \in Labels,
           Call(t, w[1], w[2], there), there # "idle",
           NEW i \in Slots, slot' = [slot EXCEPT ![t] = i]
    PROVE  /\ Typed' /\ OthersWait(t) /\ pc[t] = "idle" /\ pc'[t] = there
           /\ slot'[t] = i /\ line'[t] = w[1] /\ w[1] \in LinesOf(t)
<1>1. w[1] \in LinesOf(t) /\ w[2] \in Edges
  BY LinesAssumption
<1>2. LinesOf(t) \subseteq Lines
  BY DEF Lines
<1>3. UNCHANGED <<level, fd, lastValue, hasLast, writer, prev, foreign, own,
                  forgot>>
  BY DEF Call, tableVars, lineHistory
<1>4. /\ pc[t] = "idle" /\ pc' = [pc EXCEPT ![t] = there]
      /\ line' = [line EXCEPT ![t] = w[1]] /\ edge' = [edge EXCEPT ![t] = w[2]]
  BY DEF Call, Goto
<1>5. /\ pc' \in [Threads -> Labels] /\ line' \in [Threads -> Lines \cup {NoLine}]
      /\ edge' \in [Threads -> Edges] /\ slot' \in [Threads -> 0..MAX_LINES]
      /\ OthersWait(t) /\ pc'[t] = there /\ slot'[t] = i /\ line'[t] = w[1]
  BY <1>1, <1>2, <1>4, LinesAssumption DEF Typed, TypeOK, OthersWait, Slots
<1>6. ASSUME NEW u \in Threads
      PROVE  /\ pc'[u] \in Labels
             /\ line'[u] \in IF pc'[u] = "idle" THEN {NoLine} ELSE LinesOf(u)
             /\ pc'[u] # "idle" => slot'[u] \in Slots
  BY <1>1, <1>5 DEF Typed, TypeOK, OthersWait
<1>7. TypeOK'
  BY <1>3, <1>5, <1>6 DEF Typed, TypeOK, Labels
<1> QED  BY <1>1, <1>4, <1>5, <1>7 DEF Typed
-----------------------------------------------------------------------------
\* The invariant survives FindOwn ...
LEMMA FindOwnKept ==
    ASSUME TableInv, NEW t \in Threads, NEW w \in Waits[t], FindOwn(t, w[1], w[2])
    PROVE  TableInv'
<1> DEFINE i == First(SlotsOf(w[1]))
<1>1. i \in Slots
  <2>1. SlotsOf(w[1]) \in SUBSET Slots /\ SlotsOf(w[1]) # {}
    BY DEF FindOwn, SlotsOf
  <2>2. i \in SlotsOf(w[1])
    BY <2>1, FirstSlot
  <2> QED  BY <2>1, <2>2
<1>2. /\ Call(t, w[1], w[2], "load") /\ slot' = [slot EXCEPT ![t] = i]
  BY DEF FindOwn
<1>3. "load" \in Labels
  BY DEF Labels
<1> HIDE DEF i
<1>4. Typed' /\ OthersWait(t) /\ pc[t] = "idle" /\ pc'[t] = "load"
  BY <1>1, <1>2, <1>3, CallTyped DEF TableInv
<1>5. UNCHANGED <<fd, hasLast>>
  BY <1>2 DEF Call, tableVars
<1>6. Unique' /\ Taken' /\ Unmarked'
  BY <1>4, <1>5, TableKept
<1> QED  BY <1>4, <1>6 DEF TableInv

\* ... FindFree, after which no slot is marked with the line ...
LEMMA FindFreeKept ==
    ASSUME TableInv, NEW t \in Threads, NEW w \in Waits[t], FindFree(t, w[1], w[2])
    PROVE  TableInv'
<1> DEFINE i == First(FreeSlots)
<1>1. i \in Slots
  <2>1. FreeSlots \in SUBSET Slots /\ FreeSlots # {}
    BY DEF FindFree, FreeSlots
  <2>2. i \in FreeSlots
    BY <2>1, FirstSlot
  <2> QED  BY <2>1, <2>2
<1>2. /\ Call(t, w[1], w[2], "claim_fd") /\ slot' = [slot EXCEPT ![t] = i]
      /\ SlotsOf(w[1]) = {}
  BY DEF FindFree
<1>3. "claim_fd" \in Labels
  BY DEF Labels
<1> HIDE DEF i
<1>4. /\ Typed' /\ OthersWait(t) /\ pc[t] = "idle" /\ pc'[t] = "claim_fd"
      /\ line'[t] = w[1] /\ w[1] \in LinesOf(t)
  BY <1>1, <1>2, <1>3, CallTyped DEF TableInv
<1>5. UNCHANGED <<fd, hasLast>>
  BY <1>2 DEF Call, tableVars
<1>6. \A j \in Slots : fd[j] # w[1]
  <2> SUFFICES ASSUME NEW j \in Slots, fd[j] = w[1] PROVE FALSE
    OBVIOUS
  <2>1. fd[j] # NoLine
    BY <1>4, NoLineAssumption DEF Lines
  <2>2. ~hasLast[j]
    BY <1>2 DEF SlotsOf
  <2>3. PICK u \in Threads : pc[u] = "claim_has" /\ line[u] = fd[j]
    BY <2>1, <2>2 DEF TableInv, Taken
  <2>4. line[u] \in LinesOf(u) /\ u # t
    BY <1>4, <2>3 DEF TableInv, Typed, TypeOK
  <2> QED  BY <1>4, <2>3, <2>4, LinesAssumption
<1>7. Unique'
  BY <1>5 DEF TableInv, Unique
<1>8. Taken'
  BY <1>4, <1>5 DEF TableInv, Taken, OthersWait
<1>9. Unmarked'
  BY <1>4, <1>5, <1>6 DEF TableInv, Unmarked, OthersWait
<1> QED  BY <1>4, <1>7, <1>8, <1>9 DEF TableInv

\* A call goes on, with types preserved by what it assigns.
LEMMA GoneOn ==
    ASSUME Typed, NEW t \in Threads, NEW here \in Labels, NEW there \in Labels,
           Goto(t, here, there), here # "idle", there # "idle",
           UNCHANGED <<level, argVars, slot>>,
           fd' \in [Slots -> Lines \cup {NoLine}], lastValue' \in [Slots -> -1..1],
           hasLast' \in [Slots -> BOOLEAN], writer' \in [Slots -> Lines \cup {NoLine}],
           own' \in [Lines -> -1..1], forgot' \subseteq Lines,
           foreign' \in [Threads -> BOOLEAN], prev' \in [Threads -> -1..1]
    PROVE  Typed' /\ OthersWait(t) /\ pc[t] = here /\ pc'[t] = there
<1>1. pc[t] = here /\ pc' = [pc EXCEPT ![t] = there]
  BY DEF Goto
<1>2. UNCHANGED <<level, line, edge, slot>>
  BY DEF argVars
<1>3. /\ pc' \in [Threads -> Labels] /\ pc'[t] = there
      /\ \A u \in Threads : u # t => pc'[u] = pc[u]
  BY <1>1 DEF Typed
<1>4. ASSUME NEW u \in Threads
      PROVE  /\ pc'[u] \in Labels
             /\ line'[u] \in IF pc'[u] = "idle" THEN {NoLine} ELSE LinesOf(u)
             /\ pc'[u] # "idle" => slot'[u] \in Slots
  <2>1. CASE u = t
    BY <1>1, <1>2, <1>3, <2>1 DEF Typed, TypeOK
  <2>2. CASE u # t
    BY <1>2, <1>3, <2>2 DEF Typed, TypeOK
  <2> QED  BY <2>1, <2>2
<1>5. /\ level' \in [Lines -> -1..1] /\ edge' \in [Threads -> Edges]
      /\ slot' \in [Threads -> 0..MAX_LINES]
      /\ line' \in [Threads -> Lines \cup {NoLine}]
  BY <1>2 DEF Typed, TypeOK
<1>6. TypeOK'
  BY <1>4, <1>5 DEF TypeOK, Labels
<1>7. OthersWait(t)
  BY <1>2, <1>3 DEF OthersWait
<1> QED  BY <1>1, <1>3, <1>5, <1>6, <1>7 DEF Typed

\* A thread in a call has a slot, and a line of its own.
LEMMA InCall ==
    ASSUME Typed, NEW t \in Threads, pc[t] # "idle"
    PROVE  /\ slot[t] \in Slots /\ line[t] \in LinesOf(t) /\ line[t] \in Lines
           /\ line[t] # NoLine
BY NoLineAssumption DEF Typed, TypeOK, Lines

\* ... LoadPrev ...
LEMMA LoadPrevKept ==
    ASSUME TableInv, NEW t \in Threads, LoadPrev(t)
    PROVE  TableInv'
<1>1. /\ Goto(t, "load", "poll") /\ UNCHANGED <<level, argVars, slot>>
      /\ UNCHANGED <<fd, lastValue, hasLast, writer, own, forgot>>
  BY DEF LoadPrev, tableVars, lineHistory
<1>2. pc[t] = "load" /\ Typed /\ "load" \in Labels /\ "poll" \in Labels
  BY <1>1 DEF Goto, Labels, TableInv
<1>3. slot[t] \in Slots
  BY <1>2, InCall
<1>4. prev' \in [Threads -> -1..1]
  BY <1>2, <1>3 DEF LoadPrev, Typed, TypeOK
<1>5. foreign' \in [Threads -> BOOLEAN]
  <2>1. foreign \in [Threads -> BOOLEAN]
    BY <1>2 DEF Typed, TypeOK
  <2> QED  BY <2>1, Zenon DEF LoadPrev
<1>6. /\ fd' \in [Slots -> Lines \cup {NoLine}] /\ lastValue' \in [Slots -> -1..1]
      /\ writer' \in [Slots -> Lines \cup {NoLine}]
      /\ own' \in [Lines -> -1..1] /\ forgot' \subseteq Lines
      /\ hasLast' \in [Slots -> BOOLEAN]
  BY <1>1, <1>2 DEF Typed, TypeOK
<1>7. Typed' /\ OthersWait(t) /\ pc[t] = "load" /\ pc'[t] = "poll"
  BY <1>1, <1>2, <1>4, <1>5, <1>6, GoneOn
<1> QED  BY <1>1, <1>7, TableKept DEF TableInv

\* ... ClaimFd, since no other slot is marked with the line ...
LEMMA ClaimFdKept ==
    ASSUME TableInv, NEW t \in Threads, ClaimFd(t)
    PROVE  TableInv'
<1>1. /\ Goto(t, "claim_fd", "claim_has") /\ UNCHANGED <<level, argVars, slot>>
      /\ UNCHANGED <<lastValue, hasLast, writer, own, forgot, foreign, prev>>
      /\ UNCHANGED line /\ fd' = [fd EXCEPT ![slot[t]] = line[t]]
  BY DEF ClaimFd, lineHistory, argVars
<1>2. /\ pc[t] = "claim_fd" /\ Typed
      /\ "claim_fd" \in Labels /\ "claim_has" \in Labels
  BY <1>1 DEF Goto, Labels, TableInv
<1>3. /\ slot[t] \in Slots /\ line[t] \in LinesOf(t) /\ line[t] \in Lines
      /\ line[t] # NoLine
  BY <1>2, InCall
<1>4. /\ fd \in [Slots -> Lines \cup {NoLine}] /\ fd' \in [Slots -> Lines \cup {NoLine}]
      /\ fd'[slot[t]] = line[t]
      /\ \A i \in Slots : i # slot[t] => fd'[i] = fd[i]
  BY <1>1, <1>2, <1>3 DEF Typed, TypeOK
<1>5. /\ lastValue' \in [Slots -> -1..1] /\ hasLast' \in [Slots -> BOOLEAN]
      /\ writer' \in [Slots -> Lines \cup {NoLine}] /\ foreign' \in [Threads -> BOOLEAN]
      /\ own' \in [Lines -> -1..1] /\ forgot' \subseteq Lines
      /\ prev' \in [Threads -> -1..1]
  BY <1>1, <1>2 DEF Typed, TypeOK
<1>6. Typed' /\ OthersWait(t) /\ pc'[t] = "claim_has"
  BY <1>1, <1>2, <1>4, <1>5, GoneOn
<1>7. \A i \in Slots : fd[i] # line[t]
  BY <1>2 DEF TableInv, Unmarked
<1>8. Unique'
  BY <1>4, <1>7 DEF TableInv, Unique
<1>9. Taken'
  <2>1. \A i \in Slots : hasLast'[i] => fd'[i] # NoLine
    BY <1>1, <1>3, <1>4 DEF TableInv, Taken
  <2>2. ASSUME NEW i \in Slots, fd'[i] # NoLine, ~hasLast'[i]
        PROVE  \E u \in Threads : pc'[u] = "claim_has" /\ slot'[u] = i
                                  /\ line'[u] = fd'[i]
    <3>1. CASE i = slot[t]
      BY <1>1, <1>4, <1>6, <3>1
    <3>2. CASE i # slot[t]
      <4>1. fd'[i] = fd[i] /\ ~hasLast[i]
        BY <1>1, <1>4, <2>2, <3>2
      <4>2. PICK u \in Threads : pc[u] = "claim_has" /\ slot[u] = i /\ line[u] = fd[i]
        BY <2>2, <4>1 DEF TableInv, Taken
      <4>3. u # t
        BY <1>2, <4>2
      <4> QED  BY <1>6, <4>1, <4>2, <4>3 DEF OthersWait
    <3> QED  BY <3>1, <3>2
  <2>3. ASSUME NEW u \in Threads, pc'[u] = "claim_has" PROVE fd'[slot'[u]] # NoLine
    <3>1. CASE u = t
      BY <1>1, <1>3, <1>4, <3>1
    <3>2. CASE u # t
      <4>1. pc[u] = "claim_has" /\ slot'[u] = slot[u]
        BY <1>6, <2>3, <3>2 DEF OthersWait
      <4>2. fd[slot[u]] # NoLine /\ slot[u] \in Slots
        BY <1>2, <4>1, InCall DEF TableInv, Taken
      <4> QED  BY <1>3, <1>4, <4>1, <4>2
    <3> QED  BY <3>1, <3>2
  <2> QED  BY <2>1, <2>2, <2>3 DEF Taken
<1>10. Unmarked'
  <2> SUFFICES ASSUME NEW u \in Threads, pc'[u] = "claim_fd", NEW i \in Slots
               PROVE  fd'[i] # line'[u]
    BY DEF Unmarked
  <2>1. u # t /\ pc[u] = "claim_fd" /\ line'[u] = line[u]
    BY <1>6 DEF OthersWait
  <2>2. line[u] \in LinesOf(u)
    BY <1>2, <2>1, InCall
  <2>3. line[u] # line[t]
    BY <1>3, <2>1, <2>2, LinesAssumption
  <2> QED  BY <1>4, <2>1, <2>3 DEF TableInv, Unmarked
<1> QED  BY <1>6, <1>8, <1>9, <1>10 DEF TableInv

\* ... ClaimHas, which takes what the thread or another has marked ...
LEMMA ClaimHasKept ==
    ASSUME TableInv, NEW t \in Threads, ClaimHas(t)
    PROVE  TableInv'
<1>1. /\ Goto(t, "claim_has", "claim_last") /\ UNCHANGED <<level, argVars, slot>>
      /\ UNCHANGED <<fd, lastValue, writer, own, forgot, foreign, prev>>
      /\ UNCHANGED line
  BY DEF ClaimHas, lineHistory, argVars
<1>2. /\ pc[t] = "claim_has" /\ Typed
      /\ "claim_has" \in Labels /\ "claim_last" \in Labels
  BY <1>1 DEF Goto, Labels, TableInv
<1>3. slot[t] \in Slots /\ fd[slot[t]] # NoLine
  BY <1>2, InCall DEF TableInv, Taken
<1>4. hasLast \in [Slots -> BOOLEAN]
  BY <1>2 DEF Typed, TypeOK
<1>5. hasLast' \in [Slots -> BOOLEAN]
  BY <1>4, Zenon DEF ClaimHas
<1>6. hasLast'[slot[t]] /\ \A i \in Slots : i # slot[t] => hasLast'[i] = hasLast[i]
  BY <1>3, <1>4, Zenon DEF ClaimHas
<1>7. /\ fd' \in [Slots -> Lines \cup {NoLine}] /\ lastValue' \in [Slots -> -1..1]
      /\ writer' \in [Slots -> Lines \cup {NoLine}] /\ foreign' \in [Threads -> BOOLEAN]
      /\ own' \in [Lines -> -1..1] /\ forgot' \subseteq Lines
      /\ prev' \in [Threads -> -1..1]
  BY <1>1, <1>2 DEF Typed, TypeOK
<1>8. Typed' /\ OthersWait(t) /\ pc'[t] = "claim_last"
  BY <1>1, <1>2, <1>5, <1>7, GoneOn
<1>9. Unique'
  BY <1>1 DEF TableInv, Unique
<1>10. Taken'
  <2>1. ASSUME NEW i \in Slots, hasLast'[i] PROVE fd'[i] # NoLine
    BY <1>1, <1>3, <1>6, <2>1 DEF TableInv, Taken
  <2>2. ASSUME NEW i \in Slots, fd'[i] # NoLine, ~hasLast'[i]
        PROVE  \E u \in Threads : pc'[u] = "claim_has" /\ slot'[u] = i
                                  /\ line'[u] = fd'[i]
    <3>1. i # slot[t] /\ ~hasLast[i] /\ fd[i] # NoLine
      BY <1>1, <1>6, <2>2
    <3>2. PICK u \in Threads : pc[u] = "claim_has" /\ slot[u] = i /\ line[u] = fd[i]
      BY <3>1 DEF TableInv, Taken
    <3>3. u # t
      BY <3>1, <3>2
    <3> QED  BY <1>1, <1>8, <3>2, <3>3 DEF OthersWait
  <2>3. \A u \in Threads : pc'[u] = "claim_has" => fd'[slot'[u]] # NoLine
    BY <1>1, <1>8 DEF TableInv, Taken, OthersWait
  <2> QED  BY <2>1, <2>2, <2>3 DEF Taken
<1>11. Unmarked'
  BY <1>1, <1>8 DEF TableInv, Unmarked, OthersWait
<1> QED  BY <1>8, <1>9, <1>10, <1>11 DEF TableInv

\* ... ClaimLast ...
LEMMA ClaimLastKept ==
    ASSUME TableInv, NEW t \in Threads, ClaimLast(t)
    PROVE  TableInv'
<1>1. /\ Goto(t, "claim_last", "first") /\ UNCHANGED <<level, argVars, slot>>
      /\ UNCHANGED <<fd, hasLast, own, forgot, foreign, prev>>
  BY DEF ClaimLast, lineHistory
<1>2. /\ pc[t] = "claim_last" /\ Typed
      /\ "claim_last" \in Labels /\ "first" \in Labels
  BY <1>1 DEF Goto, Labels, TableInv
<1>3. slot[t] \in Slots /\ line[t] \in Lines
  BY <1>2, InCall
<1>4. lastValue' \in [Slots -> -1..1] /\ writer' \in [Slots -> Lines \cup {NoLine}]
  BY <1>2, <1>3 DEF ClaimLast, Typed, TypeOK, Unreadable
<1>5. /\ fd' \in [Slots -> Lines \cup {NoLine}] /\ hasLast' \in [Slots -> BOOLEAN]
      /\ foreign' \in [Threads -> BOOLEAN]
      /\ own' \in [Lines -> -1..1] /\ forgot' \subseteq Lines
      /\ prev' \in [Threads -> -1..1]
  BY <1>1, <1>2 DEF Typed, TypeOK
<1>6. Typed' /\ OthersWait(t) /\ pc[t] = "claim_last" /\ pc'[t] = "first"
  BY <1>1, <1>2, <1>4, <1>5, GoneOn
<1> QED  BY <1>1, <1>6, TableKept DEF TableInv

\* What a poll reads is a level.
LEMMA ReadTyped ==
    ASSUME Typed, NEW t \in Threads, pc[t] # "idle", Read(t)
    PROVE  Here(t) \in -1..1 /\ own' \in [Lines -> -1..1] /\ line[t] \in Lines
<1>1. line[t] \in Lines
  BY InCall
<1>2. Here(t) \in -1..1
  BY <1>1 DEF Here, Typed, TypeOK
<1> QED  BY <1>1, <1>2 DEF Read, Typed, TypeOK

\* ... FirstValue ...
LEMMA FirstValueKept ==
    ASSUME TableInv, NEW t \in Threads, FirstValue(t)
    PROVE  TableInv'
<1>1. /\ Goto(t, "first", "poll") /\ UNCHANGED <<level, argVars, slot>>
      /\ UNCHANGED <<fd, lastValue, hasLast, writer>> /\ Read(t)
  BY DEF FirstValue, tableVars
<1>2. /\ pc[t] = "first" /\ Typed /\ "first" \in Labels /\ "poll" \in Labels
  BY <1>1 DEF Goto, Labels, TableInv
<1>3. Here(t) \in -1..1 /\ own' \in [Lines -> -1..1]
  BY <1>1, <1>2, ReadTyped
<1>4. prev' \in [Threads -> -1..1] /\ forgot' \subseteq Lines
  BY <1>2, <1>3 DEF FirstValue, Typed, TypeOK
<1>5. foreign' \in [Threads -> BOOLEAN]
  <2>1. foreign \in [Threads -> BOOLEAN]
    BY <1>2 DEF Typed, TypeOK
  <2> QED  BY <2>1, Zenon DEF FirstValue
<1>6. /\ fd' \in [Slots -> Lines \cup {NoLine}] /\ lastValue' \in [Slots -> -1..1]
      /\ hasLast' \in [Slots -> BOOLEAN] /\ writer' \in [Slots -> Lines \cup {NoLine}]
  BY <1>1, <1>2 DEF Typed, TypeOK
<1>7. Typed' /\ OthersWait(t) /\ pc[t] = "first" /\ pc'[t] = "poll"
  BY <1>1, <1>2, <1>3, <1>4, <1>5, <1>6, GoneOn
<1> QED  BY <1>1, <1>7, TableKept DEF TableInv

\* ... PollAgain ...
LEMMA PollAgainKept ==
    ASSUME TableInv, NEW t \in Threads, PollAgain(t)
    PROVE  TableInv'
<1>1. /\ pc[t] = "poll" /\ Typed /\ Read(t)
      /\ UNCHANGED <<level, pc, line, edge, slot, fd, lastValue, hasLast, writer,
                     foreign, forgot>>
  BY DEF PollAgain, tableVars, argVars, TableInv
<1>2. Here(t) \in -1..1 /\ own' \in [Lines -> -1..1]
  BY <1>1, ReadTyped
<1>3. prev' \in [Threads -> -1..1]
  BY <1>1, <1>2 DEF PollAgain, Typed, TypeOK
<1>4. Typed'
  BY <1>1, <1>2, <1>3 DEF Typed, TypeOK
<1>5. OthersWait(t) /\ pc'[t] = "poll"
  BY <1>1 DEF OthersWait
<1> QED  BY <1>1, <1>4, <1>5, TableKept DEF TableInv

\* ... LastPoll, which leaves the slot ...
LEMMA LastPollKept ==
    ASSUME TableInv, NEW t \in Threads, LastPoll(t)
    PROVE  TableInv'
<1>1. /\ pc[t] = "poll" /\ pc' = [pc EXCEPT ![t] = "idle"] /\ Typed /\ Read(t)
      /\ UNCHANGED <<level, fd, hasLast>>
  BY DEF LastPoll, Goto, TableInv
<1>2. Here(t) \in -1..1 /\ own' \in [Lines -> -1..1] /\ line[t] \in Lines
  BY <1>1, ReadTyped
<1>3. slot[t] \in Slots
  BY <1>1, InCall
<1>4. /\ lastValue' \in [Slots -> -1..1] /\ writer' \in [Slots -> Lines \cup {NoLine}]
      /\ forgot' \subseteq Lines
  <2>1. CASE Here(t) # Unreadable
    BY <1>1, <1>2, <1>3, <2>1 DEF LastPoll, Typed, TypeOK
  <2>2. CASE Here(t) = Unreadable
    BY <1>1, <1>2, <2>2 DEF LastPoll, Typed, TypeOK
  <2> QED  BY <2>1, <2>2
<1>5. foreign' \in [Threads -> BOOLEAN]
  <2>1. foreign \in [Threads -> BOOLEAN]
    BY <1>1 DEF Typed, TypeOK
  <2> QED  BY <2>1, Zenon DEF LastPoll
<1>6. /\ line' \in [Threads -> Lines \cup {NoLine}] /\ edge' \in [Threads -> Edges]
      /\ slot' \in [Threads -> 0..MAX_LINES] /\ prev' \in [Threads -> -1..1]
      /\ line'[t] = NoLine
      /\ \A u \in Threads : u # t => line'[u] = line[u] /\ slot'[u] = slot[u]
  BY <1>1, LinesAssumption DEF LastPoll, Typed, TypeOK, Edges
<1>7. /\ pc' \in [Threads -> Labels] /\ pc'[t] = "idle"
      /\ \A u \in Threads : u # t => pc'[u] = pc[u]
  BY <1>1 DEF Typed, Labels
<1>8. ASSUME NEW u \in Threads
      PROVE  /\ pc'[u] \in Labels
             /\ line'[u] \in IF pc'[u] = "idle" THEN {NoLine} ELSE LinesOf(u)
             /\ pc'[u] # "idle" => slot'[u] \in Slots
  <2>1. CASE u = t
    BY <1>6, <1>7, <2>1
  <2>2. CASE u # t
    BY <1>1, <1>6, <1>7, <2>2 DEF Typed, TypeOK
  <2> QED  BY <2>1, <2>2
<1>9. TypeOK'
  <2>1. /\ level' \in [Lines -> -1..1] /\ fd' \in [Slots -> Lines \cup {NoLine}]
        /\ hasLast' \in [Slots -> BOOLEAN]
    BY <1>1 DEF Typed, TypeOK
  <2> QED  BY <1>2, <1>4, <1>5, <1>6, <1>8, <2>1 DEF TypeOK, Labels
<1>10. Typed' /\ OthersWait(t)
  BY <1>6, <1>7, <1>9 DEF Typed, OthersWait
<1> QED  BY <1>1, <1>7, <1>10, TableKept DEF TableInv

\* ... and Rewrite, which is about the files alone.
LEMMA RewriteKept ==
    ASSUME TableInv, NEW l \in Moving, Rewrite(l)
    PROVE  TableInv'
<1>1. UNCHANGED <<tableVars, callVars, lineHistory>>
  BY DEF Rewrite
<1>2. l \in Lines /\ level \in [Lines -> -1..1]
  BY LinesAssumption DEF TableInv, Typed, TypeOK
<1>3. level' \in [Lines -> -1..1]
  <2>1. CASE level[l] = Unreadable \/ l \notin Emptied
    BY <1>2, <2>1 DEF Rewrite
  <2>2. CASE ~(level[l] = Unreadable \/ l \notin Emptied)
    BY <1>2, <2>2 DEF Rewrite, Unreadable
  <2> QED  BY <2>1, <2>2
<1>4. Typed'
  BY <1>1, <1>3
     DEF TableInv, Typed, TypeOK, tableVars, callVars, argVars, lineHistory
<1>5. Unique' /\ Taken' /\ Unmarked'
  BY <1>1 DEF TableInv, Unique, Taken, Unmarked, tableVars, callVars, argVars
<1> QED  BY <1>4, <1>5 DEF TableInv

\* The invariant is inductive.
LEMMA TableNext == TableInv /\ [Next]_gpioVars => TableInv'
<1> SUFFICES ASSUME TableInv, [Next]_gpioVars PROVE TableInv'
  OBVIOUS
<1>1. ASSUME NEW l \in Moving, Rewrite(l) PROVE TableInv'
  BY <1>1, RewriteKept
<1>2. ASSUME NEW t \in Threads, NEW w \in Waits[t],
             FindOwn(t, w[1], w[2]) \/ FindFree(t, w[1], w[2])
      PROVE  TableInv'
  BY <1>2, FindOwnKept, FindFreeKept
<1>3. ASSUME NEW t \in Threads, Step(t) \/ PollAgain(t) PROVE TableInv'
  BY <1>3, LoadPrevKept, ClaimFdKept, ClaimHasKept, ClaimLastKept, FirstValueKept,
     LastPollKept, PollAgainKept DEF Step
<1>4. CASE UNCHANGED gpioVars
  BY <1>4 DEF TableInv, Typed, TypeOK, Unique, Taken, Unmarked, gpioVars,
              tableVars, callVars, argVars, lineHistory
<1> QED  BY <1>1, <1>2, <1>3, <1>4 DEF Next

\* In every reachable state.
LEMMA TableAlways == Spec => []TableInv
BY TableInit, TableNext, PTL DEF Spec
-----------------------------------------------------------------------------
\* The state is well formed: whoever is past the search has a slot of the table.
THEOREM TypeCorrect == Spec => []TypeOK
<1>1. TableInv => TypeOK
  BY DEF TableInv, Typed
<1> QED  BY <1>1, TableAlways, PTL

\* However the claims of the threads collide in gGPIOLast, a wait that begins
\* finds a slot: nstarGPIOWaitEdge never goes without a history for want of one.
THEOREM RoomForEveryLine == Spec => []RoomForAll
<1>1. TableInv => RoomForAll
  <2> SUFFICES ASSUME TableInv, NEW t \in Threads, NEW l \in LinesOf(t)
               PROVE  SlotsOf(l) \cup FreeSlots # {}
    BY DEF RoomForAll
  <2>1. l \in Lines
    BY DEF Lines
  <2> QED  BY <2>1, RoomLeft DEF TableInv, Typed, TypeOK, Taken
<1> QED  BY <1>1, TableAlways, PTL
-----------------------------------------------------------------------------
(* What a wait compares with.                                              *)

\* A slot that is free has not been written; whoever reads a slot or goes on to
\* write it finds it taken.
WrittenTaken ==
    /\ \A i \in Slots : writer[i] # NoLine => hasLast[i]
    /\ \A t \in Threads :
         pc[t] \in {"load", "claim_last", "first", "poll"} => hasLast[slot[t]]

\* A slot that is claimed does not hold an earlier value of the line.
ClaimedAfresh ==
    \A t \in Threads : pc[t] \in {"claim_fd", "claim_has", "claim_last"} =>
        writer[slot[t]] # line[t]

\* No slot but the thread's is marked with its line.
MarkedOwn ==
    \A t \in Threads : pc[t] \notin {"idle", "claim_fd"} =>
        \A i \in Slots : fd[i] = line[t] => i = slot[t]

\* The next wait for the line finds the slot, or has found it.
Finds(t, l, i) == fd[i] = l \/ (pc[t] = "load" /\ line[t] = l /\ slot[t] = i)

\* What a line has left in the slot is what was last read from it, but while
\* its thread polls.
SlotHolds ==
    \A t \in Threads : \A l \in LinesOf(t), i \in Slots :
        /\ Finds(t, l, i) /\ writer[i] = l /\ l \notin forgot
        /\ ~(pc[t] = "poll" /\ line[t] = l)
        => lastValue[i] \in {own[l], Unreadable}

\* So is what the poll compares with.
PrevHolds ==
    \A t \in Threads :
        pc[t] = "poll" /\ ~foreign[t] /\ line[t] \notin forgot
        => prev[t] \in {own[line[t]], Unreadable}

HistoryInv ==
    WrittenTaken /\ ClaimedAfresh /\ MarkedOwn /\ SlotHolds /\ PrevHolds

\* The initial state satisfies it.
LEMMA HistoryInit == Init => HistoryInv
<1> SUFFICES ASSUME Init PROVE HistoryInv
  OBVIOUS
<1>1. /\ \A t \in Threads : pc[t] = "idle"
      /\ \A i \in Slots : fd[i] = NoLine /\ writer[i] = NoLine
  BY DEF Init
<1>2. WrittenTaken /\ ClaimedAfresh /\ MarkedOwn /\ PrevHolds
  BY <1>1 DEF WrittenTaken, ClaimedAfresh, MarkedOwn, PrevHolds
<1>3. SlotHolds
  BY <1>1, NoLineAssumption DEF SlotHolds, Finds, Lines
<1> QED  BY <1>2, <1>3 DEF HistoryInv

\* Two threads wait for different lines.
LEMMA OtherLine ==
    ASSUME NEW t \in Threads, NEW u \in Threads, u # t,
           NEW l \in LinesOf(t), NEW m \in LinesOf(u)
    PROVE  l # m
BY LinesAssumption

\* Where a thread in a call is, and the others.
LEMMA GoesOn ==
    ASSUME Typed, NEW t \in Threads, NEW here, NEW there,
           Goto(t, here, there), here # "idle", UNCHANGED <<argVars, slot>>
    PROVE  /\ pc[t] = here /\ pc'[t] = there
           /\ \A u \in Threads : u # t => pc'[u] = pc[u]
           /\ line' = line /\ slot' = slot
           /\ slot[t] \in Slots /\ line[t] \in LinesOf(t) /\ line[t] \in Lines
           /\ \A u \in Threads : u # t => line[t] \notin LinesOf(u)
           /\ \A u \in Threads : pc[u] # "idle" =>
                /\ slot[u] \in Slots /\ line[u] \in LinesOf(u)
                /\ u # t => line[u] # line[t]
<1>1. pc[t] = here /\ pc'[t] = there /\ \A u \in Threads : u # t => pc'[u] = pc[u]
  BY DEF Typed, Goto
<1>2. line' = line /\ slot' = slot
  BY DEF argVars
<1>3. \A u \in Threads : pc[u] # "idle" => slot[u] \in Slots /\ line[u] \in LinesOf(u)
  BY InCall
<1>4. slot[t] \in Slots /\ line[t] \in LinesOf(t) /\ line[t] \in Lines
  BY <1>1, InCall
<1>5. \A u \in Threads : u # t => line[t] \notin LinesOf(u)
  BY <1>4, OtherLine
<1> QED  BY <1>1, <1>2, <1>3, <1>4, <1>5

\* What the tables are functions of
LEMMA TableTypes ==
    ASSUME Typed
    PROVE  /\ fd \in [Slots -> Lines \cup {NoLine}]
           /\ writer \in [Slots -> Lines \cup {NoLine}]
           /\ lastValue \in [Slots -> -1..1] /\ hasLast \in [Slots -> BOOLEAN]
           /\ own \in [Lines -> -1..1] /\ prev \in [Threads -> -1..1]
           /\ foreign \in [Threads -> BOOLEAN]
BY DEF Typed, TypeOK

\* What a wait compares with survives FindOwn ...
LEMMA FindOwnHolds ==
    ASSUME TableInv, HistoryInv, NEW t \in Threads, NEW w \in Waits[t],
           FindOwn(t, w[1], w[2])
    PROVE  HistoryInv'
<1> DEFINE i == First(SlotsOf(w[1]))
<1>1. i \in Slots /\ hasLast[i] /\ fd[i] = w[1]
  <2>1. SlotsOf(w[1]) \in SUBSET Slots /\ SlotsOf(w[1]) # {}
    BY DEF FindOwn, SlotsOf
  <2>2. i \in SlotsOf(w[1])
    BY <2>1, FirstSlot
  <2> HIDE DEF i
  <2> QED  BY <2>2 DEF SlotsOf
<1>2. /\ Call(t, w[1], w[2], "load") /\ slot' = [slot EXCEPT ![t] = i]
  BY DEF FindOwn
<1>3. "load" \in Labels
  BY DEF Labels
<1> HIDE DEF i
<1>4. /\ OthersWait(t) /\ pc[t] = "idle" /\ pc'[t] = "load"
      /\ slot'[t] = i /\ line'[t] = w[1] /\ w[1] \in LinesOf(t)
  <2>1. Typed /\ i \in Slots /\ "load" # "idle"
    BY <1>1 DEF TableInv
  <2> QED  BY <1>2, <1>3, <2>1, CallTyped, ZenonT(40)
<1>5. UNCHANGED <<fd, hasLast, writer, lastValue, prev, foreign, own, forgot>>
  BY <1>2 DEF Call, tableVars, lineHistory
<1>6. WrittenTaken'
  BY <1>1, <1>4, <1>5 DEF HistoryInv, WrittenTaken, OthersWait
<1>7. ClaimedAfresh'
  BY <1>4, <1>5 DEF HistoryInv, ClaimedAfresh, OthersWait
<1>8. MarkedOwn'
  <2>1. \A j \in Slots : fd[j] = w[1] => j = i
    BY <1>1, <1>4, NoLineAssumption DEF TableInv, Unique, Lines
  <2> QED  BY <1>4, <1>5, <2>1 DEF HistoryInv, MarkedOwn, OthersWait
<1>9. SlotHolds'
  <2>1. ASSUME NEW u \in Threads, NEW l \in LinesOf(u), NEW j \in Slots
        PROVE  Finds(u, l, j)' => Finds(u, l, j)
    BY <1>1, <1>4, <1>5 DEF Finds, OthersWait
  <2>2. ASSUME NEW u \in Threads, NEW l \in LinesOf(u)
        PROVE  pc'[u] = "poll" /\ line'[u] = l <=> pc[u] = "poll" /\ line[u] = l
    BY <1>4 DEF OthersWait
  <2> QED  BY <1>5, <2>1, <2>2 DEF HistoryInv, SlotHolds
<1>10. PrevHolds'
  BY <1>4, <1>5 DEF HistoryInv, PrevHolds, OthersWait
<1> QED  BY <1>6, <1>7, <1>8, <1>9, <1>10 DEF HistoryInv

\* ... FindFree, which finds what nobody has written ...
LEMMA FindFreeHolds ==
    ASSUME TableInv, HistoryInv, NEW t \in Threads, NEW w \in Waits[t],
           FindFree(t, w[1], w[2])
    PROVE  HistoryInv'
<1> DEFINE i == First(FreeSlots)
<1>1. i \in Slots /\ ~hasLast[i]
  <2>1. FreeSlots \in SUBSET Slots /\ FreeSlots # {}
    BY DEF FindFree, FreeSlots
  <2>2. i \in FreeSlots
    BY <2>1, FirstSlot
  <2> HIDE DEF i
  <2> QED  BY <2>2 DEF FreeSlots
<1>2. /\ Call(t, w[1], w[2], "claim_fd") /\ slot' = [slot EXCEPT ![t] = i]
  BY DEF FindFree
<1>3. "claim_fd" \in Labels
  BY DEF Labels
<1> HIDE DEF i
<1>4. /\ OthersWait(t) /\ pc[t] = "idle" /\ pc'[t] = "claim_fd"
      /\ slot'[t] = i /\ line'[t] = w[1] /\ w[1] \in LinesOf(t)
  <2>1. Typed /\ i \in Slots /\ "claim_fd" # "idle"
    BY <1>1 DEF TableInv
  <2> QED  BY <1>2, <1>3, <2>1, CallTyped, Zenon
<1>5. UNCHANGED <<fd, hasLast, writer, lastValue, prev, foreign, own, forgot>>
  BY <1>2 DEF Call, tableVars, lineHistory
<1>6. WrittenTaken'
  BY <1>4, <1>5 DEF HistoryInv, WrittenTaken, OthersWait
<1>7. ClaimedAfresh'
  <2>1. writer[i] = NoLine /\ w[1] # NoLine
    BY <1>1, <1>4, NoLineAssumption DEF HistoryInv, WrittenTaken, Lines
  <2> QED  BY <1>4, <1>5, <2>1 DEF HistoryInv, ClaimedAfresh, OthersWait
<1>8. MarkedOwn'
  BY <1>4, <1>5 DEF HistoryInv, MarkedOwn, OthersWait
<1>9. SlotHolds'
  <2>1. ASSUME NEW u \in Threads, NEW l \in LinesOf(u), NEW j \in Slots
        PROVE  Finds(u, l, j)' => Finds(u, l, j)
    BY <1>4, <1>5 DEF Finds, OthersWait
  <2>2. ASSUME NEW u \in Threads, NEW l \in LinesOf(u)
        PROVE  pc'[u] = "poll" /\ line'[u] = l <=> pc[u] = "poll" /\ line[u] = l
    BY <1>4 DEF OthersWait
  <2> QED  BY <1>5, <2>1, <2>2 DEF HistoryInv, SlotHolds
<1>10. PrevHolds'
  BY <1>4, <1>5 DEF HistoryInv, PrevHolds, OthersWait
<1> QED  BY <1>6, <1>7, <1>8, <1>9, <1>10 DEF HistoryInv

\* ... LoadPrev, which takes what the slot holds ...
LEMMA LoadPrevHolds ==
    ASSUME TableInv, HistoryInv, NEW t \in Threads, LoadPrev(t)
    PROVE  HistoryInv'
<1> DEFINE l == line[t]
           i == slot[t]
<1>1. /\ Typed /\ Goto(t, "load", "poll") /\ UNCHANGED <<argVars, slot>>
      /\ UNCHANGED <<fd, hasLast, writer, lastValue, own, forgot>>
  BY DEF LoadPrev, TableInv, tableVars, lineHistory
<1>2. /\ pc[t] = "load" /\ pc'[t] = "poll"
      /\ \A u \in Threads : u # t => pc'[u] = pc[u]
      /\ line' = line /\ slot' = slot /\ i \in Slots /\ l \in LinesOf(t)
  BY <1>1, GoesOn
<1>3. /\ prev'[t] = lastValue[i] /\ \A u \in Threads : u # t => prev'[u] = prev[u]
  BY <1>1, TableTypes DEF LoadPrev
<1>4. /\ ~foreign'[t] => writer[i] = l
      /\ \A u \in Threads : u # t => foreign'[u] = foreign[u]
  <2>1. foreign \in [Threads -> BOOLEAN]
    BY <1>1, TableTypes
  <2> QED  BY <2>1, Zenon DEF LoadPrev
<1>5. WrittenTaken'
  BY <1>1, <1>2 DEF HistoryInv, WrittenTaken
<1>6. ClaimedAfresh'
  BY <1>1, <1>2 DEF HistoryInv, ClaimedAfresh
<1>7. MarkedOwn'
  BY <1>1, <1>2 DEF HistoryInv, MarkedOwn
<1>8. SlotHolds'
  <2>1. ASSUME NEW u \in Threads, NEW m \in LinesOf(u), NEW j \in Slots
        PROVE  Finds(u, m, j)' => Finds(u, m, j)
    BY <1>1, <1>2 DEF Finds
  <2>2. ASSUME NEW u \in Threads, NEW m \in LinesOf(u),
               ~(pc'[u] = "poll" /\ line'[u] = m)
        PROVE  ~(pc[u] = "poll" /\ line[u] = m)
    BY <1>2, <2>2
  <2> QED  BY <1>1, <2>1, <2>2 DEF HistoryInv, SlotHolds
<1>9. PrevHolds'
  <2>1. ASSUME ~foreign'[t], l \notin forgot
        PROVE  prev'[t] \in {own[l], Unreadable}
    <3>1. Finds(t, l, i) /\ writer[i] = l
      BY <1>2, <1>4, <2>1 DEF Finds
    <3>2. lastValue[i] \in {own[l], Unreadable}
      BY <1>2, <2>1, <3>1 DEF HistoryInv, SlotHolds
    <3> QED  BY <1>3, <3>2
  <2> QED  BY <1>1, <1>2, <1>3, <1>4, <2>1 DEF HistoryInv, PrevHolds
<1> QED  BY <1>5, <1>6, <1>7, <1>8, <1>9 DEF HistoryInv

\* ... ClaimFd, since no slot has been marked with the line, and this one not
\* been written for it ...
LEMMA ClaimFdHolds ==
    ASSUME TableInv, HistoryInv, NEW t \in Threads, ClaimFd(t)
    PROVE  HistoryInv'
<1> DEFINE l == line[t]
           i == slot[t]
<1>1. /\ Typed /\ Goto(t, "claim_fd", "claim_has") /\ UNCHANGED <<argVars, slot>>
      /\ UNCHANGED <<hasLast, writer, lastValue, own, forgot, prev, foreign>>
      /\ fd' = [fd EXCEPT ![i] = l]
  BY DEF ClaimFd, TableInv, lineHistory
<1>2. /\ pc[t] = "claim_fd" /\ pc'[t] = "claim_has"
      /\ \A u \in Threads : u # t => pc'[u] = pc[u]
      /\ line' = line /\ slot' = slot /\ i \in Slots
      /\ \A u \in Threads : pc[u] # "idle" /\ u # t => line[u] # l
  BY <1>1, GoesOn
<1>3. /\ fd'[i] = l /\ \A j \in Slots : j # i => fd'[j] = fd[j]
  BY <1>1, <1>2, TableTypes
<1>4. \A j \in Slots : fd[j] # l
  BY <1>2 DEF TableInv, Unmarked
<1>5. WrittenTaken'
  BY <1>1, <1>2 DEF HistoryInv, WrittenTaken
<1>6. ClaimedAfresh'
  BY <1>1, <1>2 DEF HistoryInv, ClaimedAfresh
<1>7. MarkedOwn'
  <2> SUFFICES ASSUME NEW u \in Threads, pc'[u] \notin {"idle", "claim_fd"},
                      NEW j \in Slots, fd'[j] = line[u]
               PROVE  j = slot[u]
    BY <1>2 DEF MarkedOwn
  <2>1. CASE u = t
    BY <1>3, <1>4, <2>1
  <2>2. CASE u # t
    <3>1. line[u] # l /\ pc[u] \notin {"idle", "claim_fd"}
      BY <1>2, <2>2
    <3>2. fd[j] = line[u]
      BY <1>3, <3>1
    <3> QED  BY <3>1, <3>2 DEF HistoryInv, MarkedOwn
  <2> QED  BY <2>1, <2>2
<1>8. SlotHolds'
  <2>1. writer[i] # l
    BY <1>2 DEF HistoryInv, ClaimedAfresh
  <2>2. ASSUME NEW u \in Threads, NEW m \in LinesOf(u), NEW j \in Slots,
               writer[j] = m, Finds(u, m, j)'
        PROVE  Finds(u, m, j)
    BY <1>2, <1>3, <2>1, <2>2 DEF Finds
  <2>3. ASSUME NEW u \in Threads, NEW m \in LinesOf(u),
               ~(pc'[u] = "poll" /\ line'[u] = m)
        PROVE  ~(pc[u] = "poll" /\ line[u] = m)
    BY <1>2, <2>3
  <2> QED  BY <1>1, <2>2, <2>3 DEF HistoryInv, SlotHolds
<1>9. PrevHolds'
  BY <1>1, <1>2 DEF HistoryInv, PrevHolds
<1> QED  BY <1>5, <1>6, <1>7, <1>8, <1>9 DEF HistoryInv

\* ... ClaimHas ...
LEMMA ClaimHasHolds ==
    ASSUME TableInv, HistoryInv, NEW t \in Threads, ClaimHas(t)
    PROVE  HistoryInv'
<1>1. /\ Typed /\ Goto(t, "claim_has", "claim_last") /\ UNCHANGED <<argVars, slot>>
      /\ UNCHANGED <<fd, writer, lastValue, own, forgot, prev, foreign>>
  BY DEF ClaimHas, TableInv, lineHistory
<1>2. /\ pc[t] = "claim_has" /\ pc'[t] = "claim_last"
      /\ \A u \in Threads : u # t => pc'[u] = pc[u]
      /\ line' = line /\ slot' = slot /\ slot[t] \in Slots
      /\ \A u \in Threads : pc[u] # "idle" => slot[u] \in Slots
  BY <1>1, GoesOn
<1>3. hasLast'[slot[t]] /\ \A j \in Slots : hasLast[j] => hasLast'[j]
  <2>1. hasLast \in [Slots -> BOOLEAN]
    BY <1>1, TableTypes
  <2> QED  BY <1>2, <2>1, Zenon DEF ClaimHas
<1>4. WrittenTaken'
  BY <1>1, <1>2, <1>3 DEF HistoryInv, WrittenTaken
<1>5. ClaimedAfresh'
  BY <1>1, <1>2 DEF HistoryInv, ClaimedAfresh
<1>6. MarkedOwn'
  BY <1>1, <1>2 DEF HistoryInv, MarkedOwn
<1>7. SlotHolds'
  BY <1>1, <1>2 DEF HistoryInv, SlotHolds, Finds
<1>8. PrevHolds'
  BY <1>1, <1>2 DEF HistoryInv, PrevHolds
<1> QED  BY <1>4, <1>5, <1>6, <1>7, <1>8 DEF HistoryInv

\* ... ClaimLast, after which the slot holds no level ...
LEMMA ClaimLastHolds ==
    ASSUME TableInv, HistoryInv, NEW t \in Threads, ClaimLast(t)
    PROVE  HistoryInv'
<1> DEFINE l == line[t]
           i == slot[t]
<1>1. /\ Typed /\ Goto(t, "claim_last", "first") /\ UNCHANGED <<argVars, slot>>
      /\ UNCHANGED <<fd, hasLast, own, forgot, prev, foreign>>
      /\ lastValue' = [lastValue EXCEPT ![i] = Unreadable]
      /\ writer' = [writer EXCEPT ![i] = l]
  BY DEF ClaimLast, TableInv, lineHistory
<1>2. /\ pc[t] = "claim_last" /\ pc'[t] = "first"
      /\ \A u \in Threads : u # t => pc'[u] = pc[u]
      /\ line' = line /\ slot' = slot /\ i \in Slots
      /\ \A u \in Threads : pc[u] # "idle" =>
           slot[u] \in Slots /\ (u # t => line[u] # l)
  BY <1>1, GoesOn
<1>3. /\ writer'[i] = l /\ lastValue'[i] = Unreadable
      /\ \A j \in Slots : j # i =>
           writer'[j] = writer[j] /\ lastValue'[j] = lastValue[j]
  BY <1>1, <1>2, TableTypes
<1>4. WrittenTaken'
  BY <1>1, <1>2, <1>3 DEF HistoryInv, WrittenTaken
<1>5. ClaimedAfresh'
  <2> SUFFICES ASSUME NEW u \in Threads,
                      pc'[u] \in {"claim_fd", "claim_has", "claim_last"}
               PROVE  writer'[slot[u]] # line[u]
    BY <1>2 DEF ClaimedAfresh
  <2>1. u # t /\ pc[u] = pc'[u] /\ slot[u] \in Slots /\ line[u] # l
    BY <1>2
  <2> QED  BY <1>3, <2>1 DEF HistoryInv, ClaimedAfresh
<1>6. MarkedOwn'
  BY <1>1, <1>2 DEF HistoryInv, MarkedOwn
<1>7. SlotHolds'
  <2> SUFFICES ASSUME NEW u \in Threads, NEW m \in LinesOf(u), NEW j \in Slots,
                      Finds(u, m, j)', writer'[j] = m, m \notin forgot,
                      ~(pc'[u] = "poll" /\ line[u] = m), j # i
               PROVE  lastValue[j] \in {own[m], Unreadable}
    BY <1>1, <1>2, <1>3 DEF SlotHolds
  <2>1. Finds(u, m, j) /\ writer[j] = m /\ ~(pc[u] = "poll" /\ line[u] = m)
    BY <1>1, <1>2, <1>3 DEF Finds
  <2> QED  BY <2>1 DEF HistoryInv, SlotHolds
<1>8. PrevHolds'
  BY <1>1, <1>2 DEF HistoryInv, PrevHolds
<1> QED  BY <1>4, <1>5, <1>6, <1>7, <1>8 DEF HistoryInv

\* What a poll reads is what was last read from the line.
LEMMA ReadOwn ==
    ASSUME Typed, NEW t \in Threads, pc[t] # "idle", Read(t)
    PROVE  /\ Here(t) # Unreadable => own'[line[t]] = Here(t)
           /\ \A m \in Lines : m # line[t] => own'[m] = own[m]
<1>1. line[t] \in Lines
  BY InCall
<1> QED  BY <1>1, TableTypes DEF Read

\* A poll that leaves the slot as it is disturbs no other line.
LEMMA PollHolds ==
    ASSUME Typed, SlotHolds, NEW t \in Threads, line[t] \in LinesOf(t), line' = line,
           \A u \in Threads : u # t => pc'[u] = pc[u],
           pc'[t] = "poll", UNCHANGED <<fd, writer, lastValue, slot>>,
           \A m \in Lines : m # line[t] => own'[m] = own[m],
           \A m \in Lines : m # line[t] => (m \in forgot' <=> m \in forgot)
    PROVE  SlotHolds'
<1> SUFFICES ASSUME NEW u \in Threads, NEW m \in LinesOf(u), NEW j \in Slots,
                    Finds(u, m, j)', writer[j] = m, m \notin forgot',
                    ~(pc'[u] = "poll" /\ line[u] = m)
             PROVE  lastValue[j] \in {own'[m], Unreadable}
  BY DEF SlotHolds
<1>1. m # line[t] /\ m \in Lines
  BY OtherLine DEF Lines
<1>2. Finds(u, m, j) /\ ~(pc[u] = "poll" /\ line[u] = m) /\ m \notin forgot
  BY <1>1 DEF Finds
<1> QED  BY <1>1, <1>2 DEF SlotHolds

\* ... FirstValue, which compares with what it reads ...
LEMMA FirstValueHolds ==
    ASSUME TableInv, HistoryInv, NEW t \in Threads, FirstValue(t)
    PROVE  HistoryInv'
<1> DEFINE l == line[t]
<1>1. /\ Typed /\ Goto(t, "first", "poll") /\ UNCHANGED <<argVars, slot>>
      /\ UNCHANGED <<fd, hasLast, writer, lastValue>> /\ Read(t)
      /\ forgot' = forgot \ {l} /\ prev' = [prev EXCEPT ![t] = Here(t)]
  BY DEF FirstValue, TableInv, tableVars
<1>2. /\ pc[t] = "first" /\ pc'[t] = "poll"
      /\ \A u \in Threads : u # t => pc'[u] = pc[u]
      /\ line' = line /\ slot' = slot /\ l \in LinesOf(t)
      /\ \A u \in Threads : pc[u] # "idle" =>
           line[u] \in LinesOf(u) /\ (u # t => line[u] # l)
  BY <1>1, GoesOn
<1>3. /\ Here(t) # Unreadable => own'[l] = Here(t)
      /\ \A m \in Lines : m # l => own'[m] = own[m]
  BY <1>1, <1>2, ReadOwn
<1>4. /\ prev'[t] = Here(t) /\ \A u \in Threads : u # t => prev'[u] = prev[u]
  BY <1>1, TableTypes
<1>5. \A u \in Threads : u # t => foreign'[u] = foreign[u]
  <2>1. foreign \in [Threads -> BOOLEAN]
    BY <1>1, TableTypes
  <2> QED  BY <2>1, Zenon DEF FirstValue
<1>6. WrittenTaken'
  BY <1>1, <1>2 DEF HistoryInv, WrittenTaken
<1>7. ClaimedAfresh'
  BY <1>1, <1>2 DEF HistoryInv, ClaimedAfresh
<1>8. MarkedOwn'
  BY <1>1, <1>2 DEF HistoryInv, MarkedOwn
<1>9. SlotHolds'
  BY <1>1, <1>2, <1>3, PollHolds DEF HistoryInv
<1>10. PrevHolds'
  <2> SUFFICES ASSUME NEW u \in Threads, pc'[u] = "poll", ~foreign'[u],
                      line[u] \notin forgot'
               PROVE  prev'[u] \in {own'[line[u]], Unreadable}
    BY <1>2 DEF PrevHolds
  <2>1. CASE u = t
    BY <1>3, <1>4, <2>1
  <2>2. CASE u # t
    <3>1. pc[u] = "poll" /\ line[u] # l /\ line[u] \in Lines
      BY <1>2, <2>2 DEF Lines
    <3> QED  BY <1>1, <1>3, <1>4, <1>5, <2>2, <3>1 DEF HistoryInv, PrevHolds
  <2> QED  BY <2>1, <2>2
<1> QED  BY <1>6, <1>7, <1>8, <1>9, <1>10 DEF HistoryInv

\* ... PollAgain ...
LEMMA PollAgainHolds ==
    ASSUME TableInv, HistoryInv, NEW t \in Threads, PollAgain(t)
    PROVE  HistoryInv'
<1> DEFINE l == line[t]
<1>1. /\ Typed /\ pc[t] = "poll" /\ UNCHANGED <<pc, line, slot>>
      /\ UNCHANGED <<fd, hasLast, writer, lastValue, foreign, forgot>> /\ Read(t)
      /\ Here(t) # Unreadable /\ prev' = [prev EXCEPT ![t] = Here(t)]
  BY DEF PollAgain, TableInv, tableVars, argVars
<1>2. \A u \in Threads : pc[u] # "idle" => line[u] \in LinesOf(u) /\ line[u] \in Lines
  BY <1>1, InCall
<1>3. \A u \in Threads : pc[u] # "idle" /\ u # t => line[u] # l
  BY <1>1, <1>2, OtherLine
<1>4. /\ own'[l] = Here(t) /\ \A m \in Lines : m # l => own'[m] = own[m]
  BY <1>1, ReadOwn
<1>5. /\ prev'[t] = Here(t) /\ \A u \in Threads : u # t => prev'[u] = prev[u]
  BY <1>1, TableTypes
<1>6. WrittenTaken' /\ ClaimedAfresh' /\ MarkedOwn'
  BY <1>1 DEF HistoryInv, WrittenTaken, ClaimedAfresh, MarkedOwn
<1>7. SlotHolds'
  BY <1>1, <1>2, <1>4, PollHolds DEF HistoryInv
<1>8. PrevHolds'
  <2> SUFFICES ASSUME NEW u \in Threads, pc[u] = "poll", ~foreign[u],
                      line[u] \notin forgot
               PROVE  prev'[u] \in {own'[line[u]], Unreadable}
    BY <1>1 DEF PrevHolds
  <2>1. CASE u = t
    BY <1>4, <1>5, <2>1
  <2>2. CASE u # t
    BY <1>2, <1>3, <1>4, <1>5, <2>2 DEF HistoryInv, PrevHolds
  <2> QED  BY <2>1, <2>2
<1> QED  BY <1>6, <1>7, <1>8 DEF HistoryInv

\* ... and LastPoll, which leaves in the slot what it has read.
LEMMA LastPollHolds ==
    ASSUME TableInv, HistoryInv, NEW t \in Threads, LastPoll(t)
    PROVE  HistoryInv'
<1> DEFINE l == line[t]
           i == slot[t]
<1>1. /\ Typed /\ pc[t] = "poll" /\ pc' = [pc EXCEPT ![t] = "idle"]
      /\ UNCHANGED <<fd, hasLast>> /\ Read(t)
  BY DEF LastPoll, Goto, TableInv
<1>2. /\ pc'[t] = "idle"
      /\ \A u \in Threads : u # t =>
           /\ pc'[u] = pc[u] /\ line'[u] = line[u] /\ slot'[u] = slot[u]
           /\ prev'[u] = prev[u]
  BY <1>1 DEF LastPoll, Typed, TypeOK
<1>3. \A u \in Threads : u # t => foreign'[u] = foreign[u]
  <2>1. foreign \in [Threads -> BOOLEAN]
    BY <1>1, TableTypes
  <2> QED  BY <2>1, Zenon DEF LastPoll
<1>4. \A u \in Threads : pc[u] # "idle" =>
        line[u] \in LinesOf(u) /\ line[u] \in Lines /\ slot[u] \in Slots
  BY <1>1, InCall
<1>5. \A u \in Threads : pc[u] # "idle" /\ u # t => line[u] # l
  BY <1>1, <1>4, OtherLine
<1>6. /\ Here(t) # Unreadable => own'[l] = Here(t)
      /\ \A m \in Lines : m # l => own'[m] = own[m]
  BY <1>1, ReadOwn
<1>7. /\ \A m \in Lines : m # l => (m \in forgot' <=> m \in forgot)
      /\ l \notin forgot' => Here(t) # Unreadable
  BY DEF LastPoll
<1>8. /\ writer'[i] \in {writer[i], l}
      /\ l \notin forgot' => writer'[i] = l /\ lastValue'[i] = Here(t)
      /\ writer'[i] # l => lastValue'[i] = lastValue[i]
      /\ \A j \in Slots : j # i =>
           writer'[j] = writer[j] /\ lastValue'[j] = lastValue[j]
  <2>1. i \in Slots
    BY <1>1, <1>4
  <2>2. CASE Here(t) # Unreadable
    <3>1. /\ lastValue' = [lastValue EXCEPT ![i] = Here(t)]
          /\ writer' = [writer EXCEPT ![i] = l]
      BY <2>2 DEF LastPoll
    <3> QED  BY <1>1, <2>1, <3>1, TableTypes
  <2>3. CASE Here(t) = Unreadable
    <3>1. lastValue' = lastValue /\ writer' = writer
      BY <2>3 DEF LastPoll
    <3> QED  BY <1>7, <2>3, <3>1
  <2> QED  BY <2>2, <2>3
<1>9. WrittenTaken'
  <2>1. hasLast[i]
    BY <1>1 DEF HistoryInv, WrittenTaken
  <2>2. \A j \in Slots : writer'[j] # NoLine => hasLast'[j]
    BY <1>1, <1>8, <2>1 DEF HistoryInv, WrittenTaken
  <2>3. \A u \in Threads : pc'[u] \in {"load", "claim_last", "first", "poll"} =>
                             hasLast'[slot'[u]]
    BY <1>1, <1>2 DEF HistoryInv, WrittenTaken
  <2> QED  BY <2>2, <2>3 DEF WrittenTaken
<1>10. ClaimedAfresh'
  <2> SUFFICES ASSUME NEW u \in Threads,
                      pc'[u] \in {"claim_fd", "claim_has", "claim_last"}
               PROVE  writer'[slot'[u]] # line'[u]
    BY DEF ClaimedAfresh
  <2>1. u # t /\ pc[u] = pc'[u] /\ slot[u] \in Slots /\ line[u] # l
    BY <1>2, <1>4, <1>5
  <2>2. writer[slot[u]] # line[u]
    BY <2>1 DEF HistoryInv, ClaimedAfresh
  <2> QED  BY <1>2, <1>8, <2>1, <2>2
<1>11. MarkedOwn'
  BY <1>1, <1>2 DEF HistoryInv, MarkedOwn
<1>12. SlotHolds'
  <2> SUFFICES ASSUME NEW u \in Threads, NEW m \in LinesOf(u), NEW j \in Slots,
                      Finds(u, m, j)', writer'[j] = m, m \notin forgot',
                      ~(pc'[u] = "poll" /\ line'[u] = m)
               PROVE  lastValue'[j] \in {own'[m], Unreadable}
    BY DEF SlotHolds
  <2>1. CASE m = l
    <3>1. u = t
      BY <1>1, <1>4, <2>1, OtherLine
    <3>2. fd[j] = l
      BY <1>1, <1>2, <2>1, <3>1 DEF Finds
    <3>3. j = i
      BY <1>1, <3>2 DEF HistoryInv, MarkedOwn
    <3> QED  BY <1>6, <1>7, <1>8, <2>1, <3>3
  <2>2. CASE m # l
    <3>1. /\ m \in Lines /\ writer[j] = m /\ lastValue'[j] = lastValue[j]
          /\ own'[m] = own[m] /\ m \notin forgot
      BY <1>6, <1>7, <1>8, <2>2 DEF Lines
    <3>2. Finds(u, m, j) /\ ~(pc[u] = "poll" /\ line[u] = m)
      BY <1>1, <1>2, <2>2 DEF Finds
    <3> QED  BY <3>1, <3>2 DEF HistoryInv, SlotHolds
  <2> QED  BY <2>1, <2>2
<1>13. PrevHolds'
  <2> SUFFICES ASSUME NEW u \in Threads, pc'[u] = "poll", ~foreign'[u],
                      line'[u] \notin forgot'
               PROVE  prev'[u] \in {own'[line'[u]], Unreadable}
    BY DEF PrevHolds
  <2>1. /\ u # t /\ pc[u] = "poll" /\ line'[u] = line[u] /\ line[u] # l
        /\ line[u] \in Lines
    BY <1>2, <1>4, <1>5
  <2> QED  BY <1>2, <1>3, <1>6, <1>7, <2>1 DEF HistoryInv, PrevHolds
<1> QED  BY <1>9, <1>10, <1>11, <1>12, <1>13 DEF HistoryInv

\* The invariant is inductive.
LEMMA HistoryNext == TableInv /\ HistoryInv /\ [Next]_gpioVars => HistoryInv'
<1> SUFFICES ASSUME TableInv, HistoryInv, [Next]_gpioVars PROVE HistoryInv'
  OBVIOUS
<1>1. ASSUME UNCHANGED <<tableVars, callVars, lineHistory>> PROVE HistoryInv'
  BY <1>1 DEF HistoryInv, WrittenTaken, ClaimedAfresh, MarkedOwn, SlotHolds,
              Finds, PrevHolds, tableVars, callVars, argVars, lineHistory
<1>2. CASE UNCHANGED gpioVars \/ \E l \in Moving : Rewrite(l)
  BY <1>1, <1>2 DEF Rewrite, gpioVars
<1>3. ASSUME NEW t \in Threads, NEW w \in Waits[t],
             FindOwn(t, w[1], w[2]) \/ FindFree(t, w[1], w[2])
      PROVE  HistoryInv'
  BY <1>3, FindOwnHolds, FindFreeHolds
<1>4. ASSUME NEW t \in Threads, Step(t) \/ PollAgain(t) PROVE HistoryInv'
  BY <1>4, LoadPrevHolds, ClaimFdHolds, ClaimHasHolds, ClaimLastHolds,
     FirstValueHolds, LastPollHolds, PollAgainHolds DEF Step
<1> QED  BY <1>2, <1>3, <1>4 DEF Next

\* An edge that a wait reports has happened since the line was last read: what
\* the threads do to each other's slots in gGPIOLast never makes one up, unless
\* the wait found another line's value in its slot when it began.
THEOREM EdgesAreSeen == Spec => EdgeSeen
<1> DEFINE A == \A t \in Threads :
                  Returns(t) /\ EdgeFound(t) /\ ~foreign[t] /\ line[t] \notin forgot
                    => own[line[t]] = 1 - Here(t)
<1>1. HistoryInv => A
  <2> SUFFICES ASSUME HistoryInv, NEW t \in Threads, Returns(t), EdgeFound(t),
                      ~foreign[t], line[t] \notin forgot
               PROVE  own[line[t]] = 1 - Here(t)
    OBVIOUS
  <2>1. prev[t] \in {own[line[t]], Unreadable}
    BY DEF HistoryInv, PrevHolds, Returns
  <2> QED  BY <2>1 DEF EdgeFound, Unreadable
<1>2. HistoryInv /\ [Next]_gpioVars => [A]_gpioVars
  BY <1>1
<1> HIDE DEF A
<1>3. Spec => [][A]_gpioVars
  BY <1>2, TableInit, TableNext, HistoryInit, HistoryNext, PTL DEF Spec
<1> QED  BY <1>3 DEF EdgeSeen, A
=============================================================================
