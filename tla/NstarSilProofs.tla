--------------------------- MODULE NstarSilProofs ---------------------------
(***************************************************************************)
(* Proofs about the control file of the SIL application and the counters   *)
(* of its callbacks, for every script and any number of callbacks of the   *)
(* four threads and of changes of state.                                   *)
(***************************************************************************)
EXTENDS NstarSil, FiniteSetTheorems, TLAPS

ControlTyped ==
    /\ file \in Seq(Nat) /\ executed \in Seq(Nat)
    /\ sent \in Nat /\ pos \in 0..Len(file)

\* The file holds commands in the order they were sent.
FileInOrder ==
    /\ \A i, j \in 1..Len(file) : i < j => file[i] < file[j]
    /\ \A i \in 1..Len(file) : file[i] <= sent

\* The lines not read yet were sent after all that was executed; a file that is
\* about to be truncated is not read again.
UnreadAfterExecuted ==
    /\ \A i \in 1..Len(executed) : executed[i] <= sent
    /\ pc # "truncate" =>
         \A i \in 1..Len(executed) : \A j \in 1..Len(file) :
             j > pos => executed[i] < file[j]
    /\ pos > 0 => pc \in {"lines", "execute"}

InOrder == \A i, j \in 1..Len(executed) : i < j => executed[i] < executed[j]

OrderInv == ControlTyped /\ FileInOrder /\ UnreadAfterExecuted /\ InOrder
-----------------------------------------------------------------------------
\* The initial state satisfies the invariant.
LEMMA OrderInit == Init => OrderInv
BY DEF Init, OrderInv, ControlTyped, FileInOrder, UnreadAfterExecuted, InOrder

\* What appending does to a sequence of numbers
LEMMA Appended ==
    ASSUME NEW s \in Seq(Nat), NEW n \in Nat
    PROVE  /\ Append(s, n) \in Seq(Nat) /\ Len(Append(s, n)) = Len(s) + 1
           /\ Len(s) \in Nat
           /\ Append(s, n)[Len(s) + 1] = n
           /\ \A i \in 1..Len(s) : Append(s, n)[i] = s[i]
OBVIOUS

\* A command is sent: it is later than all others.
LEMMA OrderSend ==
    ASSUME OrderInv, Send
    PROVE  OrderInv'
<1> DEFINE n == sent + 1
<1>1. /\ file \in Seq(Nat) /\ executed \in Seq(Nat) /\ n \in Nat /\ sent \in Nat
      /\ pos \in 0..Len(file)
  BY DEF OrderInv, ControlTyped
<1>2. /\ file' = Append(file, n) /\ sent' = n
      /\ UNCHANGED <<pc, pos, executed>>
  BY DEF Send
<1>3. /\ file' \in Seq(Nat) /\ Len(file') = Len(file) + 1 /\ Len(file) \in Nat
      /\ file'[Len(file) + 1] = n
      /\ \A i \in 1..Len(file) : file'[i] = file[i]
  BY <1>1, <1>2, Appended
<1>4. ControlTyped'
  BY <1>1, <1>2, <1>3 DEF ControlTyped
<1>5. \A i \in 1..Len(file') : i \in 1..Len(file) \/ i = Len(file) + 1
  BY <1>3
<1>6. \A i \in 1..Len(file) : file[i] < n
  BY <1>1 DEF OrderInv, FileInOrder
<1>7. FileInOrder'
  <2>1. ASSUME NEW i \in 1..Len(file'), NEW j \in 1..Len(file'), i < j
        PROVE  file'[i] < file'[j]
    <3>1. CASE j \in 1..Len(file)
      BY <1>3, <2>1, <3>1 DEF OrderInv, FileInOrder
    <3>2. CASE j = Len(file) + 1
      BY <1>3, <1>6, <2>1, <3>2
    <3> QED  BY <1>5, <3>1, <3>2
  <2>2. \A i \in 1..Len(file') : file'[i] <= n
    <3>1. \A i \in 1..Len(file) : file[i] \in Nat
      BY <1>1
    <3>2. \A i \in 1..Len(file) : file[i] <= n
      BY <1>1, <1>6, <3>1
    <3>3. file'[Len(file) + 1] <= n
      BY <1>1, <1>3
    <3> QED  BY <1>3, <1>5, <3>2, <3>3
  <2> QED  BY <1>2, <2>1, <2>2 DEF FileInOrder
<1>8. \A i \in 1..Len(executed) : executed[i] < n
  BY <1>1 DEF OrderInv, UnreadAfterExecuted
<1>9. UnreadAfterExecuted'
  <2>1. ASSUME pc # "truncate", NEW i \in 1..Len(executed),
               NEW j \in 1..Len(file'), j > pos
        PROVE  executed[i] < file'[j]
    <3>1. CASE j \in 1..Len(file)
      BY <1>3, <2>1, <3>1 DEF OrderInv, UnreadAfterExecuted
    <3>2. CASE j = Len(file) + 1
      BY <1>3, <1>8, <3>2
    <3> QED  BY <1>5, <3>1, <3>2
  <2>2. \A i \in 1..Len(executed) : executed[i] <= n
    BY <1>1, <1>8
  <2> QED  BY <1>2, <2>1, <2>2 DEF OrderInv, UnreadAfterExecuted
<1>10. InOrder'
  BY <1>2 DEF OrderInv, InOrder
<1> QED  BY <1>4, <1>7, <1>9, <1>10 DEF OrderInv

\* A line is read and executed: it is later than all before it.
LEMMA OrderRead ==
    ASSUME OrderInv, ReadLine
    PROVE  OrderInv'
<1> DEFINE n == file[pos + 1]
<1>1. /\ file \in Seq(Nat) /\ executed \in Seq(Nat) /\ sent \in Nat
      /\ pos \in 0..Len(file) /\ pos < Len(file) /\ Len(file) \in Nat
  BY DEF OrderInv, ControlTyped, ReadLine
<1>2. pos + 1 \in 1..Len(file) /\ n \in Nat
  BY <1>1
<1>3. /\ executed' = Append(executed, n) /\ pos' = pos + 1
      /\ pc = "lines" /\ pc' = "execute" /\ UNCHANGED <<file, sent>>
  BY DEF ReadLine, Goto
<1>4. /\ executed' \in Seq(Nat) /\ Len(executed') = Len(executed) + 1
      /\ Len(executed) \in Nat /\ executed'[Len(executed) + 1] = n
      /\ \A i \in 1..Len(executed) : executed'[i] = executed[i]
  BY <1>1, <1>2, <1>3, Appended
<1>5. \A i \in 1..Len(executed') : i \in 1..Len(executed) \/ i = Len(executed) + 1
  BY <1>4
<1>6. ControlTyped' /\ FileInOrder'
  BY <1>1, <1>2, <1>3, <1>4 DEF OrderInv, ControlTyped, FileInOrder
<1>7. \A i \in 1..Len(executed) : executed[i] < n
  BY <1>1, <1>2, <1>3 DEF OrderInv, UnreadAfterExecuted
<1>8. UnreadAfterExecuted'
  <2>1. n <= sent
    BY <1>2 DEF OrderInv, FileInOrder
  <2>2. \A i \in 1..Len(executed') : executed'[i] <= sent
    BY <1>4, <1>5, <2>1 DEF OrderInv, UnreadAfterExecuted
  <2>3. ASSUME NEW i \in 1..Len(executed'), NEW j \in 1..Len(file), j > pos + 1
        PROVE  executed'[i] < file[j]
    <3>1. CASE i \in 1..Len(executed)
      <4>1. j > pos
        BY <1>1, <2>3
      <4> QED  BY <1>3, <1>4, <3>1, <4>1 DEF OrderInv, UnreadAfterExecuted
    <3>2. CASE i = Len(executed) + 1
      <4>1. n < file[j]
        BY <1>2, <2>3 DEF OrderInv, FileInOrder
      <4> QED  BY <1>4, <3>2, <4>1
    <3> QED  BY <1>5, <3>1, <3>2
  <2> QED  BY <1>3, <2>2, <2>3 DEF UnreadAfterExecuted
<1>9. InOrder'
  <2>1. ASSUME NEW i \in 1..Len(executed'), NEW j \in 1..Len(executed'), i < j
        PROVE  executed'[i] < executed'[j]
    <3>1. CASE j \in 1..Len(executed)
      BY <1>4, <2>1, <3>1 DEF OrderInv, InOrder
    <3>2. CASE j = Len(executed) + 1
      BY <1>4, <1>7, <2>1, <3>2
    <3> QED  BY <1>5, <3>1, <3>2
  <2> QED  BY <2>1 DEF InOrder
<1> QED  BY <1>6, <1>8, <1>9 DEF OrderInv

\* The end of the file, and its truncation
LEMMA OrderEnd ==
    ASSUME OrderInv, EndOfFile \/ Truncate
    PROVE  OrderInv'
<1>1. CASE EndOfFile
  <2>1. /\ pos = Len(file) /\ pos' = 0 /\ UNCHANGED <<file, executed, sent>>
        /\ pc' = IF pos > 0 THEN "truncate" ELSE "sample"
    BY <1>1 DEF EndOfFile, Goto
  <2> QED  BY <2>1 DEF OrderInv, ControlTyped, FileInOrder, UnreadAfterExecuted,
                      InOrder
<1>2. CASE Truncate
  <2>1. /\ file' = <<>> /\ pc = "truncate" /\ pc' = "sample"
        /\ UNCHANGED <<pos, executed, sent>>
    BY <1>2 DEF Truncate, Goto
  <2> QED  BY <2>1 DEF OrderInv, ControlTyped, FileInOrder, UnreadAfterExecuted,
                      InOrder
<1> QED  BY <1>1, <1>2

\* Everything else main does leaves the control file alone, and main out of the
\* reading of it; ...
LEMMA OrderRest ==
    ASSUME OrderInv, UNCHANGED <<file, pos, executed, sent>>,
           pc \notin {"lines", "truncate"}, pc' # "truncate",
           pos = 0 \/ pc' \in {"lines", "execute"}
    PROVE  OrderInv'
BY DEF OrderInv, ControlTyped, FileInOrder, UnreadAfterExecuted, InOrder

\* ... what the threads do leaves main where it is.
LEMMA OrderKept ==
    ASSUME OrderInv, UNCHANGED <<pc, file, pos, executed, sent>>
    PROVE  OrderInv'
BY DEF OrderInv, ControlTyped, FileInOrder, UnreadAfterExecuted, InOrder

\* Every step preserves the invariant.
LEMMA OrderStep == OrderInv /\ [Next]_silVars => OrderInv'
<1> SUFFICES ASSUME OrderInv, [Next]_silVars PROVE OrderInv'
  OBVIOUS
<1>1. pos # 0 => pc \in {"lines", "execute"}
  BY DEF OrderInv, UnreadAfterExecuted, ControlTyped
<1>2. CASE Send
  BY <1>2, OrderSend
<1>3. CASE ReadLine \/ EndOfFile \/ Truncate
  BY <1>3, OrderRead, OrderEnd
<1>4. CASE Startup \/ LoopHead \/ LeaveLoop \/ Sample
  <2>1. /\ UNCHANGED <<file, pos, executed, sent>>
        /\ pc \in {"startup", "loop", "sample"} /\ pc' # "truncate"
    BY <1>4 DEF Startup, LoopHead, LeaveLoop, Sample, Goto, controlVars
  <2> QED  BY <1>1, <2>1, OrderRest
<1>5. CASE Compare \/ Refresh \/ Update
  <2>1. /\ UNCHANGED <<file, pos, executed, sent>>
        /\ pc \in {"compare", "refresh", "update"} /\ pc' # "truncate"
    BY <1>5 DEF Compare, Refresh, Update, Goto, controlVars
  <2> QED  BY <1>1, <2>1, OrderRest
<1>6. CASE Execute
  <2>1. /\ UNCHANGED <<file, pos, executed, sent>>
        /\ pc = "execute" /\ pc' = "lines"
    BY <1>6 DEF Execute, controlVars
  <2> QED  BY <2>1, OrderRest
<1>7. CASE UNCHANGED silVars
  <2>1. UNCHANGED <<pc, file, pos, executed, sent>>
    BY <1>7 DEF silVars, controlVars
  <2> QED  BY <2>1, OrderKept
<1>8. ASSUME NEW t \in Threads, Callback(t) PROVE OrderInv'
  <2>1. UNCHANGED <<pc, file, pos, executed, sent>>
    BY <1>8
       DEF Callback, LoadCounter, StoreCounter, SetDetail, SetGlobal, controlVars
  <2> QED  BY <2>1, OrderKept
<1>9. ASSUME NEW k \in States, ChangeState(k) PROVE OrderInv'
  <2>1. UNCHANGED <<pc, file, pos, executed, sent>>
    BY <1>9 DEF ChangeState, SetGlobal, controlVars
  <2> QED  BY <2>1, OrderKept
<1> QED  BY <1>2, <1>3, <1>4, <1>5, <1>6, <1>7, <1>8, <1>9 DEF Next, Main, Ended

\* Commands are executed at most once and in the order they were sent, whatever
\* the test process, the threads and main do in between.
THEOREM CommandsInOrder == FairSpec => []ExecutedInOrder
<1>1. OrderInv => ExecutedInOrder
  <2>1. OrderInv => DOMAIN executed = 1..Len(executed)
    BY DEF OrderInv, ControlTyped
  <2> QED  BY <2>1 DEF OrderInv, InOrder, ExecutedInOrder
<1> QED  BY <1>1, OrderInit, OrderStep, PTL DEF FairSpec
-----------------------------------------------------------------------------
(* The counters of the callbacks.                                          *)

Names == DOMAIN Counter

\* A command that is executed is one of the script.
FilesTyped ==
    /\ pc \in {"startup", "loop", "lines", "execute", "truncate",
               "sample", "compare", "refresh", "update", "deinit"}
    /\ file \in Seq(1..Len(Script)) /\ executed \in Seq(1..Len(Script))
    /\ sent \in 0..Len(Script)
    /\ pc = "execute" => executed # <<>>

\* A state comes and goes, so that it is one of two values.
ShownTyped ==
    /\ mem \in [Globals -> Nat] /\ snap \in [Globals -> Nat]
    /\ status \in [Globals -> Nat] /\ next \in 1..Len(Keys)
    /\ \A k \in States : mem[k] \in 0..1

\* A thread is in a callback of its own, and in its second half only if it has
\* one.
CallsTyped ==
    /\ step \in [Threads -> {"none", "store", "detail"}]
    /\ callback \in [Threads -> Names]
    /\ loaded \in [Threads -> Nat] /\ calls \in [Names -> Nat]
    /\ collisions \in [Names -> Nat]
    /\ \A t \in Threads :
         /\ step[t] # "none" => callback[t] \in Callbacks[t]
         /\ step[t] = "detail" => callback[t] \in DOMAIN Detail

\* A counter is behind the calls by those in progress at least, and so is what
\* each of these is about to store.
Ahead(c) ==
    /\ mem[Counter[c]] + Cardinality(Counting(c)) <= calls[c]
    /\ \A t \in Counting(c) : loaded[t] + Cardinality(Counting(c)) <= calls[c]

\* It is behind by no more than one call in progress and one for every collision,
\* and what is about to be stored by no more than its own and the collisions.
Behind(c) ==
    /\ calls[c] <= mem[Counter[c]] + collisions[c]
                     + (IF Counting(c) = {} THEN 0 ELSE 1)
    /\ \A t \in Counting(c) : calls[c] <= loaded[t] + 1 + collisions[c]

Bounded == \A c \in Names : Ahead(c) /\ Behind(c)

CountInv == FilesTyped /\ ShownTyped /\ CallsTyped /\ Bounded

\* Each counter is a global of its own: no state, no result of a command and no
\* other global of a callback.
LEMMA Apart ==
    /\ \A c \in Names : Counter[c] \in Globals /\ Counter[c] \notin States
    /\ \A c, d \in Names : Counter[c] = Counter[d] => c = d
    /\ \A c \in Names, d \in DOMAIN Detail : Counter[c] # Detail[d]
    /\ \A c \in Names, op \in Commands : Counter[c] # RC[op]
    /\ States \subseteq Globals
    /\ \A d \in DOMAIN Detail : Detail[d] \notin States
    /\ \A op \in Commands : RC[op] \notin States
<1>1. Globals = {Keys[i] : i \in 1..13}
  BY DEF Globals, Range, Keys
<1>2. /\ Keys[3] = "FRAME_RECEIVED_COUNT" /\ Keys[5] = "LOCK_ACQUIRED_COUNT"
      /\ Keys[6] = "LOCK_LOST_COUNT" /\ Keys[7] = "FAULT_COUNT"
      /\ Keys[9] = "TX_COMPLETE_COUNT"
  BY DEF Keys
<1>3. {"FRAME_RECEIVED_COUNT", "LOCK_ACQUIRED_COUNT", "LOCK_LOST_COUNT",
       "FAULT_COUNT", "TX_COMPLETE_COUNT"} \subseteq Globals
  BY <1>1, <1>2
<1>4. \A c \in Names : Counter[c] \in {"FRAME_RECEIVED_COUNT", "LOCK_ACQUIRED_COUNT",
                        "LOCK_LOST_COUNT", "FAULT_COUNT", "TX_COMPLETE_COUNT"}
  BY DEF Names, Counter
<1>5. \A c, d \in Names : Counter[c] = Counter[d] => c = d
  BY DEF Names, Counter
<1>6. \A c \in Names, d \in DOMAIN Detail : Counter[c] # Detail[d]
  BY <1>4 DEF Detail
<1>7. \A c \in Names, op \in Commands : Counter[c] # RC[op]
  BY <1>4 DEF Commands, RC
<1>8. \A d \in DOMAIN Detail : Detail[d] \notin States
  BY DEF Detail, States
<1>9. \A op \in Commands : RC[op] \notin States
  BY DEF Commands, RC, States
<1>10. Keys[1] = "MODULE_STATE" /\ Keys[2] = "RX_STATE"
  BY DEF Keys
<1>11. States \subseteq Globals
  BY <1>1, <1>10 DEF States
<1>12. \A c \in Names : Counter[c] \notin States
  BY <1>4 DEF States
<1> QED  BY <1>3, <1>4, <1>5, <1>6, <1>7, <1>8, <1>9, <1>11, <1>12

\* The keys of the status file are the globals.
LEMMA KeysLength == Len(Keys) = 13 /\ \A i \in 1..13 : Keys[i] \in Globals
BY DEF Keys, Globals, Range

\* Appending to a sequence over a set
LEMMA AppendedIn ==
    ASSUME NEW S, NEW s \in Seq(S), NEW e \in S
    PROVE  Append(s, e) \in Seq(S) /\ Append(s, e) # <<>>
           /\ Len(Append(s, e)) = Len(s) + 1 /\ Len(s) \in Nat
OBVIOUS

\* The places main can be at
MainLabels == {"startup", "loop", "lines", "execute", "truncate", "sample",
               "compare", "refresh", "update", "deinit"}

\* A step that leaves the files alone and does not begin a command.
LEMMA FilesKept ==
    ASSUME FilesTyped, UNCHANGED <<file, executed, sent>>,
           pc' = pc \/ pc' \in MainLabels \ {"execute"}
    PROVE  FilesTyped'
BY DEF FilesTyped, MainLabels

\* The control file and what is executed, in every step
LEMMA FilesStep ==
    ASSUME OrderInv, FilesTyped, [Next]_silVars
    PROVE  FilesTyped'
<1> USE DEF MainLabels
<1>1. Len(Script) \in Nat
  BY SilBoundsAssumption
<1>2. CASE Send
  <2>1. sent + 1 \in 1..Len(Script) /\ sent + 1 \in 0..Len(Script)
    BY <1>1, <1>2 DEF Send, FilesTyped
  <2>2. /\ file' = Append(file, sent + 1) /\ sent' = sent + 1
        /\ UNCHANGED <<pc, executed>>
    BY <1>2 DEF Send
  <2>3. file' \in Seq(1..Len(Script))
    BY <2>1, <2>2, AppendedIn DEF FilesTyped
  <2> QED  BY <2>1, <2>2, <2>3 DEF FilesTyped
<1>3. CASE ReadLine
  <2>1. /\ executed' = Append(executed, file[pos + 1])
        /\ pc' = "execute" /\ UNCHANGED <<file, sent>>
        /\ pos < Len(file)
    BY <1>3 DEF ReadLine, Goto
  <2>2. pos + 1 \in 1..Len(file)
    BY <2>1 DEF OrderInv, ControlTyped
  <2>3. file[pos + 1] \in 1..Len(Script)
    BY <2>2 DEF FilesTyped
  <2>4. executed' \in Seq(1..Len(Script)) /\ executed' # <<>>
    BY <2>1, <2>3, AppendedIn DEF FilesTyped
  <2> QED  BY <2>1, <2>2, <2>4 DEF FilesTyped
<1>4. CASE Truncate
  <2>1. /\ file' = <<>> /\ UNCHANGED <<executed, sent>> /\ pc' = "sample"
    BY <1>4 DEF Truncate, Goto
  <2> QED  BY <2>1 DEF FilesTyped
<1>5. CASE EndOfFile \/ Startup \/ LoopHead \/ LeaveLoop \/ Sample
  BY <1>5, FilesKept
     DEF EndOfFile, Startup, LoopHead, LeaveLoop, Sample, Goto, controlVars
<1>6. CASE Compare \/ Refresh \/ Update \/ Execute
  BY <1>6, FilesKept DEF Compare, Refresh, Update, Execute, Goto, controlVars
<1>7. CASE UNCHANGED silVars
  BY <1>7, FilesKept DEF silVars, controlVars
<1>8. ASSUME NEW t \in Threads, Callback(t) PROVE FilesTyped'
  BY <1>8, FilesKept
     DEF Callback, LoadCounter, StoreCounter, SetDetail, SetGlobal, controlVars
<1>9. ASSUME NEW k \in States, ChangeState(k) PROVE FilesTyped'
  BY <1>9, FilesKept DEF ChangeState, SetGlobal, controlVars
<1> QED  BY <1>2, <1>3, <1>4, <1>5, <1>6, <1>7, <1>8, <1>9 DEF Next, Main, Ended

\* The command that is executed is one.
LEMMA CurrentCommand ==
    ASSUME FilesTyped, pc = "execute"
    PROVE  Current \in Commands
<1>1. executed \in Seq(1..Len(Script)) /\ executed # <<>>
  BY DEF FilesTyped
<1>2. Len(executed) \in 1..Len(executed)
  BY <1>1
<1>3. executed[Len(executed)] \in 1..Len(Script)
  BY <1>1, <1>2
<1> QED  BY <1>3, SilBoundsAssumption DEF Current

\* A global other than the states becomes a number.
LEMMA OneSet ==
    ASSUME ShownTyped, NEW k, NEW v \in Nat, mem' = [mem EXCEPT ![k] = v],
           k \in States => v \in 0..1
    PROVE  mem' \in [Globals -> Nat] /\ \A s \in States : mem'[s] \in 0..1
BY Apart DEF ShownTyped

\* What main does is to write numbers, and to show what the globals are.
LEMMA ShownMain ==
    ASSUME ShownTyped, FilesTyped, Main
    PROVE  ShownTyped'
<1>1. CASE Refresh
  <2>1. Keys[next] \in Globals /\ next \in 1..13
    BY KeysLength DEF ShownTyped
  <2>2. mem[Keys[next]] \in Nat
    BY <2>1 DEF ShownTyped
  <2>3. snap' \in [Globals -> Nat] /\ mem' = mem
    BY <1>1, <2>1, <2>2 DEF Refresh, ShownTyped
  <2>4. next' \in 1..13 /\ status' \in [Globals -> Nat]
    BY <1>1, <2>1, <2>3, KeysLength DEF Refresh, ShownTyped
  <2> QED  BY <2>3, <2>4, KeysLength DEF ShownTyped
<1>2. CASE Update
  BY <1>2 DEF Update, ShownTyped
<1>3. CASE Startup
  <2>1. PICK v \in 0..1 : mem' = [mem EXCEPT !["MODULE_STATE"] = v]
    BY <1>3 DEF Startup
  <2>2. mem' \in [Globals -> Nat] /\ \A s \in States : mem'[s] \in 0..1
    <3>1. v \in Nat
      OBVIOUS
    <3> QED  BY <2>1, <3>1, OneSet
  <2> QED  BY <1>3, <2>2 DEF Startup, refreshVars, ShownTyped
<1>4. CASE Execute
  <2>1. mem' = [mem EXCEPT ![RC[Current]] = 1] \/ mem' = mem
    BY <1>4 DEF Execute
  <2>2. mem' \in [Globals -> Nat] /\ \A s \in States : mem'[s] \in 0..1
    <3>1. 1 \in Nat /\ 1 \in 0..1
      OBVIOUS
    <3>2. CASE mem' = [mem EXCEPT ![RC[Current]] = 1]
      BY <3>1, <3>2, OneSet
    <3>3. CASE mem' = mem
      BY <3>3 DEF ShownTyped
    <3> QED  BY <2>1, <3>2, <3>3
  <2> QED  BY <1>4, <2>2 DEF Execute, refreshVars, ShownTyped
<1>5. CASE ReadLine \/ EndOfFile \/ Truncate \/ LoopHead \/ LeaveLoop
             \/ Sample \/ Compare
  BY <1>5 DEF ReadLine, EndOfFile, Truncate, LoopHead, LeaveLoop, Sample,
              Compare, refreshVars, ShownTyped
<1> QED  BY <1>1, <1>2, <1>3, <1>4, <1>5 DEF Main

\* So is what a callback writes.
LEMMA ShownCallback ==
    ASSUME ShownTyped, CallsTyped, NEW t \in Threads, Callback(t)
    PROVE  ShownTyped'
<1>1. ASSUME NEW c \in Names, LoadCounter(t, c) PROVE ShownTyped'
  BY <1>1 DEF LoadCounter, refreshVars, ShownTyped
<1>2. CASE StoreCounter(t)
  <2>1. callback[t] \in Names /\ loaded[t] + 1 \in Nat
    BY DEF CallsTyped
  <2>2. /\ mem' = [mem EXCEPT ![Counter[callback[t]]] = loaded[t] + 1]
        /\ UNCHANGED <<snap, status, next>>
    BY <1>2 DEF StoreCounter, SetGlobal, refreshVars
  <2>3. mem' \in [Globals -> Nat] /\ \A s \in States : mem'[s] \in 0..1
    <3>1. Counter[callback[t]] \notin States
      BY <2>1, Apart
    <3> QED  BY <2>1, <2>2, <3>1, OneSet
  <2> QED  BY <2>2, <2>3 DEF ShownTyped
<1>3. CASE SetDetail(t)
  <2> DEFINE k == Detail[callback[t]]
  <2>1. callback[t] \in DOMAIN Detail /\ callback[t] \in Callbacks[t]
    BY <1>3 DEF SetDetail, CallsTyped
  <2>2. k \notin States
    BY <2>1, Apart
  <2>3. CASE k = "TOTAL_BYTES_RECEIVED"
    <3>1. /\ mem' = [mem EXCEPT ![k] = mem[k] + 1]
          /\ UNCHANGED <<snap, status, next>>
      BY <1>3, <2>3 DEF SetDetail, SetGlobal, refreshVars
    <3>2. mem[k] + 1 \in Nat
      <4>1. Keys[4] = "TOTAL_BYTES_RECEIVED"
        BY DEF Keys
      <4>2. k \in Globals
        BY <2>3, <4>1, KeysLength
      <4> QED  BY <4>2 DEF ShownTyped
    <3>3. mem' \in [Globals -> Nat] /\ \A s \in States : mem'[s] \in 0..1
      BY <2>2, <3>1, <3>2, OneSet
    <3> QED  BY <3>1, <3>3 DEF ShownTyped
  <2>4. CASE k # "TOTAL_BYTES_RECEIVED"
    <3>1. /\ mem' = [mem EXCEPT ![k] = OwnValue[t]]
          /\ UNCHANGED <<snap, status, next>>
      BY <1>3, <2>4 DEF SetDetail, SetGlobal, refreshVars
    <3>2. t \in {"fault", "health", "main"}
      BY <2>1, <2>4 DEF Threads, Callbacks, Detail
    <3>3. OwnValue[t] \in Nat
      BY <3>2 DEF OwnValue
    <3>4. mem' \in [Globals -> Nat] /\ \A s \in States : mem'[s] \in 0..1
      BY <2>2, <3>1, <3>3, OneSet
    <3> QED  BY <3>1, <3>4 DEF ShownTyped
  <2> QED  BY <2>3, <2>4
<1> QED  BY <1>1, <1>2, <1>3 DEF Callback, Names

\* Nor does anything else write what is no number.
LEMMA ShownStep ==
    ASSUME ShownTyped, FilesTyped, CallsTyped, [Next]_silVars
    PROVE  ShownTyped'
<1>1. CASE Send \/ UNCHANGED silVars
  BY <1>1 DEF Send, silVars, refreshVars, ShownTyped
<1>2. ASSUME NEW k \in States, ChangeState(k) PROVE ShownTyped'
  <2>1. /\ mem' = [mem EXCEPT ![k] = 1 - mem[k]]
        /\ UNCHANGED <<snap, status, next>>
    BY <1>2 DEF ChangeState, SetGlobal, refreshVars
  <2>2. 1 - mem[k] \in 0..1 /\ 1 - mem[k] \in Nat
    BY DEF ShownTyped
  <2>3. mem' \in [Globals -> Nat] /\ \A s \in States : mem'[s] \in 0..1
    BY <2>1, <2>2, OneSet
  <2> QED  BY <2>1, <2>3 DEF ShownTyped
<1> QED  BY <1>1, <1>2, ShownMain, ShownCallback DEF Next, Ended

\* A thread in none of its callbacks reads a counter.
LEMMA CallsLoad ==
    ASSUME CallsTyped, ShownTyped, NEW t \in Threads, NEW c \in Names,
           LoadCounter(t, c)
    PROVE  CallsTyped'
<1>1. /\ step' = [step EXCEPT ![t] = "store"]
      /\ callback' = [callback EXCEPT ![t] = c]
      /\ loaded' = [loaded EXCEPT ![t] = mem[Counter[c]]]
      /\ calls' = [calls EXCEPT ![c] = @ + 1]
      /\ c \in Callbacks[t]
  BY DEF LoadCounter
<1>2. mem[Counter[c]] \in Nat
  BY Apart DEF ShownTyped
<1>3. step' \in [Threads -> {"none", "store", "detail"}]
  BY <1>1 DEF CallsTyped
<1>4. callback' \in [Threads -> Names]
  BY <1>1 DEF CallsTyped
<1>5. /\ loaded' \in [Threads -> Nat] /\ calls' \in [Names -> Nat]
      /\ collisions' \in [Names -> Nat]
  <2>1. collisions' = collisions \/ collisions' = [collisions EXCEPT ![c] = @ + 1]
    BY DEF LoadCounter
  <2> QED  BY <1>1, <1>2, <2>1 DEF CallsTyped
<1>6. ASSUME NEW u \in Threads
      PROVE  /\ step'[u] # "none" => callback'[u] \in Callbacks[u]
             /\ step'[u] = "detail" => callback'[u] \in DOMAIN Detail
  <2>1. CASE u = t
    BY <1>1, <2>1 DEF CallsTyped
  <2>2. CASE u # t
    BY <1>1, <2>2 DEF CallsTyped
  <2> QED  BY <2>1, <2>2
<1> QED  BY <1>3, <1>4, <1>5, <1>6 DEF CallsTyped

\* It goes on to the second half of the callback, if there is one, and returns.
LEMMA CallsGoOn ==
    ASSUME CallsTyped, NEW t \in Threads, StoreCounter(t) \/ SetDetail(t)
    PROVE  CallsTyped'
<1>1. PICK s \in {"none", "detail"} :
        /\ step' = [step EXCEPT ![t] = s] /\ UNCHANGED <<callback, calls, collisions>>
        /\ loaded' = [loaded EXCEPT ![t] = 0] \/ loaded' = loaded
        /\ s = "detail" => callback[t] \in DOMAIN Detail
        /\ step[t] # "none"
  <2>1. CASE StoreCounter(t)
    BY <2>1 DEF StoreCounter
  <2>2. CASE SetDetail(t)
    BY <2>2 DEF SetDetail
  <2> QED  BY <2>1, <2>2
<1>2. step' \in [Threads -> {"none", "store", "detail"}]
  BY <1>1 DEF CallsTyped
<1>3. loaded' \in [Threads -> Nat]
  BY <1>1 DEF CallsTyped
<1>4. ASSUME NEW u \in Threads
      PROVE  /\ step'[u] # "none" => callback'[u] \in Callbacks[u]
             /\ step'[u] = "detail" => callback'[u] \in DOMAIN Detail
  <2>1. CASE u = t
    BY <1>1, <2>1 DEF CallsTyped
  <2>2. CASE u # t
    BY <1>1, <2>2 DEF CallsTyped
  <2> QED  BY <2>1, <2>2
<1> QED  BY <1>1, <1>2, <1>3, <1>4 DEF CallsTyped

\* The threads in one increment are finitely many.
LEMMA CountingFinite ==
    ASSUME NEW c \in Names
    PROVE  /\ IsFiniteSet(Counting(c)) /\ Cardinality(Counting(c)) \in Nat
           /\ Counting(c) = {} => Cardinality(Counting(c)) = 0
<1>1. Threads = {"rx", "fault", "health", "main"}
  BY DEF Threads, Callbacks
<1>2. IsFiniteSet({}) /\ Cardinality({}) = 0
  BY FS_EmptySet
<1>3. IsFiniteSet(Threads)
  <2>1. IsFiniteSet({"main"})
    BY FS_Singleton
  <2>2. IsFiniteSet({"main"} \cup {"health"})
    BY <2>1, FS_AddElement
  <2>3. IsFiniteSet(({"main"} \cup {"health"}) \cup {"fault"})
    BY <2>2, FS_AddElement
  <2>4. IsFiniteSet((({"main"} \cup {"health"}) \cup {"fault"}) \cup {"rx"})
    BY <2>3, FS_AddElement
  <2>5. Threads = (({"main"} \cup {"health"}) \cup {"fault"}) \cup {"rx"}
    BY <1>1
  <2> QED  BY <2>4, <2>5
<1>4. Counting(c) \subseteq Threads
  BY DEF Counting
<1>5. IsFiniteSet(Counting(c))
  BY <1>3, <1>4, FS_Subset
<1> QED  BY <1>2, <1>5, FS_CardinalityType

\* What a bound needs to know of the numbers in it
LEMMA CountTyped ==
    ASSUME ShownTyped, CallsTyped, NEW c \in Names
    PROVE  /\ mem[Counter[c]] \in Nat /\ calls[c] \in Nat
           /\ collisions[c] \in Nat
           /\ \A t \in Counting(c) : loaded[t] \in Nat
BY Apart DEF ShownTyped, CallsTyped, Counting

\* A counter is read. If others have read it too, there is one more collision.
LEMMA CountLoad ==
    ASSUME ShownTyped, CallsTyped, Bounded,
           NEW t \in Threads, NEW c \in Names, LoadCounter(t, c)
    PROVE  Bounded'
<1> DEFINE n == Cardinality(Counting(c))
<1>1. /\ step[t] = "none" /\ step' = [step EXCEPT ![t] = "store"]
      /\ callback' = [callback EXCEPT ![t] = c]
      /\ loaded' = [loaded EXCEPT ![t] = mem[Counter[c]]]
      /\ calls' = [calls EXCEPT ![c] = @ + 1] /\ mem' = mem
      /\ collisions' = IF Counting(c) = {} THEN collisions
                       ELSE [collisions EXCEPT ![c] = @ + 1]
  BY DEF LoadCounter
<1>2. /\ calls'[c] = calls[c] + 1
      /\ collisions'[c] = collisions[c] + (IF Counting(c) = {} THEN 0 ELSE 1)
      /\ \A d \in Names : d # c => /\ calls'[d] = calls[d]
                                   /\ collisions'[d] = collisions[d]
  <2>1. c \in DOMAIN calls /\ c \in DOMAIN collisions /\ collisions[c] \in Nat
    BY DEF CallsTyped
  <2> QED  BY <1>1, <2>1
<1>3. /\ step'[t] = "store" /\ callback'[t] = c /\ loaded'[t] = mem[Counter[c]]
      /\ \A u \in Threads : u # t =>
           /\ step'[u] = step[u] /\ callback'[u] = callback[u]
           /\ loaded'[u] = loaded[u]
  BY <1>1 DEF CallsTyped
<1>4. /\ t \notin Counting(c) /\ Counting(c)' = Counting(c) \cup {t}
      /\ \A d \in Names : d # c => Counting(d)' = Counting(d)
  BY <1>1, <1>3 DEF Counting
<1>5. ASSUME NEW d \in Names
      PROVE  \A u \in Counting(d) : loaded'[u] = loaded[u]
  BY <1>1, <1>3 DEF Counting
<1>6. Cardinality(Counting(c)') = n + 1 /\ n \in Nat
  BY <1>4, CountingFinite, FS_AddElement
<1>7. ASSUME NEW d \in Names, d # c
      PROVE  (Ahead(d) /\ Behind(d))'
  BY <1>1, <1>2, <1>4, <1>5, <1>7 DEF Bounded, Ahead, Behind
<1>8. /\ mem[Counter[c]] \in Nat /\ calls[c] \in Nat /\ collisions[c] \in Nat
      /\ \A u \in Counting(c) : loaded[u] \in Nat
  BY CountTyped
<1>9. /\ mem[Counter[c]] + n <= calls[c]
      /\ \A u \in Counting(c) : loaded[u] + n <= calls[c]
  BY DEF Bounded, Ahead
<1>10. /\ mem'[Counter[c]] + (n + 1) <= calls'[c]
       /\ loaded'[t] + (n + 1) <= calls'[c]
  BY <1>1, <1>2, <1>3, <1>6, <1>8, <1>9
<1>11. \A u \in Counting(c) : loaded'[u] + (n + 1) <= calls'[c]
  BY <1>2, <1>5, <1>6, <1>8, <1>9
<1>12. Ahead(c)'
  BY <1>4, <1>6, <1>10, <1>11 DEF Ahead
<1>13. /\ calls[c] <= mem[Counter[c]] + collisions[c]
                         + (IF Counting(c) = {} THEN 0 ELSE 1)
       /\ \A u \in Counting(c) : calls[c] <= loaded[u] + 1 + collisions[c]
  BY DEF Bounded, Behind
<1>14. /\ calls'[c] <= mem'[Counter[c]] + collisions'[c] + 1
       /\ calls'[c] <= loaded'[t] + 1 + collisions'[c]
  BY <1>1, <1>2, <1>3, <1>8, <1>13
<1>15. ASSUME NEW u \in Counting(c)
       PROVE  calls'[c] <= loaded'[u] + 1 + collisions'[c]
  BY <1>2, <1>5, <1>8, <1>13, <1>15
<1>16. Behind(c)'
  BY <1>4, <1>14, <1>15 DEF Behind
<1> QED  BY <1>7, <1>12, <1>16 DEF Bounded

\* A counter is stored: it is now what the thread has read and one more.
LEMMA CountStore ==
    ASSUME ShownTyped, CallsTyped, Bounded,
           NEW t \in Threads, StoreCounter(t)
    PROVE  Bounded'
<1> DEFINE c == callback[t]
           n == Cardinality(Counting(c))
<1>1. /\ step[t] = "store" /\ UNCHANGED <<callback, calls, collisions>>
      /\ mem' = [mem EXCEPT ![Counter[c]] = loaded[t] + 1]
      /\ loaded' = [loaded EXCEPT ![t] = 0]
  BY DEF StoreCounter, SetGlobal
<1>2. PICK s \in {"none", "detail"} : step' = [step EXCEPT ![t] = s]
  BY DEF StoreCounter
<1>3. c \in Names /\ Counter[c] \in Globals
  BY Apart DEF CallsTyped
<1>4. /\ mem'[Counter[c]] = loaded[t] + 1
      /\ \A d \in Names : d # c => mem'[Counter[d]] = mem[Counter[d]]
  BY <1>1, <1>3, Apart DEF ShownTyped
<1>5. /\ step'[t] # "store"
      /\ \A u \in Threads : u # t => step'[u] = step[u] /\ loaded'[u] = loaded[u]
  BY <1>1, <1>2 DEF CallsTyped
<1>6. /\ t \in Counting(c) /\ Counting(c)' = Counting(c) \ {t}
      /\ \A d \in Names : d # c => Counting(d)' = Counting(d) /\ t \notin Counting(d)
  BY <1>1, <1>5 DEF Counting
<1>7. ASSUME NEW d \in Names
      PROVE  \A u \in Counting(d)' : u \in Counting(d) /\ loaded'[u] = loaded[u]
  <2> SUFFICES ASSUME NEW u \in Threads, step'[u] = "store", callback'[u] = d
               PROVE  u \in Counting(d) /\ loaded'[u] = loaded[u]
    BY DEF Counting
  <2> QED  BY <1>1, <1>5 DEF Counting
<1>8. Cardinality(Counting(c)') = n - 1 /\ n \in Nat
  BY <1>3, <1>6, CountingFinite, FS_RemoveElement
<1>9. ASSUME NEW d \in Names, d # c
      PROVE  (Ahead(d) /\ Behind(d))'
  <2>1. Counting(d)' = Counting(d) /\ \A u \in Counting(d) : loaded'[u] = loaded[u]
    BY <1>6, <1>7, <1>9
  <2>2. /\ mem'[Counter[d]] = mem[Counter[d]]
        /\ calls'[d] = calls[d] /\ collisions'[d] = collisions[d]
    BY <1>1, <1>4, <1>9
  <2> QED  BY <2>1, <2>2 DEF Bounded, Ahead, Behind
<1>10. /\ calls[c] \in Nat /\ collisions[c] \in Nat
       /\ \A u \in Counting(c) : loaded[u] \in Nat
  BY <1>3, CountTyped
<1>11. /\ \A u \in Counting(c) : loaded[u] + n <= calls[c]
       /\ \A u \in Counting(c) : calls[c] <= loaded[u] + 1 + collisions[c]
  BY <1>3 DEF Bounded, Ahead, Behind
<1>12. mem'[Counter[c]] + (n - 1) <= calls'[c]
  BY <1>1, <1>4, <1>6, <1>8, <1>10, <1>11
<1>13. ASSUME NEW u \in Counting(c)'
       PROVE  loaded'[u] + (n - 1) <= calls'[c]
  <2>1. u \in Counting(c) /\ loaded'[u] = loaded[u]
    <3>1. u \in Threads /\ u # t
      BY <1>6 DEF Counting
    <3> QED  BY <1>5, <1>6, <3>1
  <2> QED  BY <1>1, <1>8, <1>10, <1>11, <2>1
<1>14. Ahead(c)'
  BY <1>1, <1>8, <1>12, <1>13 DEF Ahead
<1>15. calls'[c] <= mem'[Counter[c]] + collisions'[c]
                      + (IF Counting(c)' = {} THEN 0 ELSE 1)
  BY <1>1, <1>4, <1>6, <1>10, <1>11
<1>16. \A u \in Counting(c)' : calls'[c] <= loaded'[u] + 1 + collisions'[c]
  BY <1>1, <1>3, <1>7, <1>11
<1>17. Behind(c)'
  BY <1>1, <1>15, <1>16 DEF Behind
<1>18. ASSUME NEW d \in Names
       PROVE  (Ahead(d) /\ Behind(d))'
  <2>1. CASE d # callback[t]
    BY <1>9, <2>1
  <2>2. CASE d = callback[t]
    <3>1. d = callback'[t]
      BY <1>1, <2>2
    <3> QED  BY <1>14, <1>17, <3>1
  <2> QED  BY <2>1, <2>2
<1> QED  BY <1>18 DEF Bounded

\* Whatever else happens leaves the counters as they are.
LEMMA CountKept ==
    ASSUME Bounded, CallsTyped,
           UNCHANGED <<callback, loaded, calls, collisions>>,
           \A c \in Names : mem'[Counter[c]] = mem[Counter[c]],
           \A t \in Threads : step'[t] = "store" <=> step[t] = "store"
    PROVE  Bounded'
<1>1. \A c \in Names : Counting(c)' = Counting(c)
  BY DEF Counting
<1> QED  BY <1>1 DEF Bounded, Ahead, Behind

\* A global that is no counter is written.
LEMMA OtherSet ==
    ASSUME ShownTyped, NEW k, NEW v, mem' = [mem EXCEPT ![k] = v],
           \A c \in Names : Counter[c] # k
    PROVE  \A c \in Names : mem'[Counter[c]] = mem[Counter[c]]
BY Apart DEF ShownTyped

\* Every step of a callback keeps the counters and the calls together.
LEMMA CountCallback ==
    ASSUME ShownTyped, CallsTyped, Bounded,
           NEW t \in Threads, Callback(t)
    PROVE  CallsTyped' /\ Bounded'
<1>1. ASSUME NEW c \in Names, LoadCounter(t, c)
      PROVE  CallsTyped' /\ Bounded'
  BY <1>1, CallsLoad, CountLoad
<1>2. CASE StoreCounter(t)
  BY <1>2, CallsGoOn, CountStore
<1>3. CASE SetDetail(t)
  <2>1. CallsTyped'
    BY <1>3, CallsGoOn
  <2>2. /\ step[t] = "detail" /\ step' = [step EXCEPT ![t] = "none"]
        /\ UNCHANGED <<callback, loaded, calls, collisions>>
    BY <1>3 DEF SetDetail
  <2>3. PICK v : mem' = [mem EXCEPT ![Detail[callback[t]]] = v]
    BY <1>3 DEF SetDetail, SetGlobal
  <2>4. callback[t] \in DOMAIN Detail
    BY <2>2 DEF CallsTyped
  <2>5. \A c \in Names : mem'[Counter[c]] = mem[Counter[c]]
    <3>1. \A c \in Names : Counter[c] # Detail[callback[t]]
      BY <2>4, Apart
    <3> QED  BY <2>3, <3>1, OtherSet
  <2>6. \A u \in Threads : step'[u] = "store" <=> step[u] = "store"
    BY <2>2 DEF CallsTyped
  <2> QED  BY <2>1, <2>2, <2>5, <2>6, CountKept
<1> QED  BY <1>1, <1>2, <1>3 DEF Callback, Names

\* main sets a state and the results of the commands, no counter.
LEMMA CountMain ==
    ASSUME ShownTyped, FilesTyped, Main
    PROVE  \A c \in Names : mem'[Counter[c]] = mem[Counter[c]]
<1>1. CASE Startup
  <2>1. PICK v : mem' = [mem EXCEPT !["MODULE_STATE"] = v]
    BY <1>1 DEF Startup
  <2>2. \A c \in Names : Counter[c] # "MODULE_STATE"
    BY Apart DEF States
  <2> QED  BY <2>1, <2>2, OtherSet
<1>2. CASE Execute
  <2>1. mem' = [mem EXCEPT ![RC[Current]] = 1] \/ mem' = mem
    BY <1>2 DEF Execute
  <2>2. Current \in Commands
    BY <1>2, CurrentCommand DEF Execute
  <2>3. \A c \in Names : Counter[c] # RC[Current]
    BY <2>2, Apart
  <2> QED  BY <2>1, <2>3, OtherSet
<1>3. CASE ReadLine \/ EndOfFile \/ Truncate \/ LoopHead \/ LeaveLoop
             \/ Sample \/ Compare \/ Refresh \/ Update
  BY <1>3 DEF ReadLine, EndOfFile, Truncate, LoopHead, LeaveLoop, Sample,
              Compare, Refresh, Update
<1> QED  BY <1>1, <1>2, <1>3 DEF Main

\* So does every other step.
LEMMA CountStep ==
    ASSUME FilesTyped, ShownTyped, CallsTyped, Bounded,
           [Next]_silVars
    PROVE  CallsTyped' /\ Bounded'
<1>1. ASSUME UNCHANGED callbackVars,
             \A c \in Names : mem'[Counter[c]] = mem[Counter[c]]
      PROVE  CallsTyped' /\ Bounded'
  <2>1. UNCHANGED <<step, callback, loaded, calls, collisions>>
    BY <1>1 DEF callbackVars
  <2>2. CallsTyped'
    BY <2>1 DEF CallsTyped
  <2> QED  BY <1>1, <2>1, <2>2, CountKept
<1>2. CASE Main
  <2>1. UNCHANGED callbackVars
    BY <1>2 DEF Main, Startup, LoopHead, LeaveLoop, ReadLine, EndOfFile,
                Truncate, Sample, Compare, Refresh, Update, Execute
  <2> QED  BY <1>1, <1>2, <2>1, CountMain
<1>3. CASE Send
  BY <1>1, <1>3 DEF Send
<1>4. CASE UNCHANGED silVars
  BY <1>1, <1>4 DEF silVars
<1>5. ASSUME NEW t \in Threads, Callback(t)
      PROVE  CallsTyped' /\ Bounded'
  BY <1>5, CountCallback
<1>6. ASSUME NEW k \in States, ChangeState(k)
      PROVE  CallsTyped' /\ Bounded'
  <2>1. mem' = [mem EXCEPT ![k] = 1 - mem[k]] /\ UNCHANGED callbackVars
    BY <1>6 DEF ChangeState, SetGlobal
  <2>2. \A c \in Names : Counter[c] # k
    BY Apart
  <2> QED  BY <1>1, <2>1, <2>2, OtherSet
<1> QED  BY <1>2, <1>3, <1>4, <1>5, <1>6 DEF Next, Ended

\* The initial state satisfies the invariant.
LEMMA CountInit == Init => CountInv
<1> SUFFICES ASSUME Init PROVE CountInv
  OBVIOUS
<1>1. FilesTyped
  BY SilBoundsAssumption DEF Init, FilesTyped
<1>2. mem \in [Globals -> Nat] /\ \A k \in Globals : mem[k] = 0
  BY DEF Init
<1>3. ShownTyped
  <2>1. snap \in [Globals -> Nat] /\ status \in [Globals -> Nat]
    BY <1>2 DEF Init
  <2>2. \A k \in States : mem[k] \in 0..1
    BY <1>2, Apart
  <2>3. next \in 1..Len(Keys)
    BY KeysLength DEF Init
  <2> QED  BY <1>2, <2>1, <2>2, <2>3 DEF ShownTyped
<1>4. \A t \in Threads : step[t] = "none"
  BY DEF Init
<1>5. CallsTyped
  <2>1. "onTXComplete" \in Names
    BY DEF Names, Counter
  <2>2. /\ step \in [Threads -> {"none", "store", "detail"}]
        /\ callback \in [Threads -> Names]
    BY <2>1 DEF Init
  <2>3. /\ loaded \in [Threads -> Nat] /\ calls \in [Names -> Nat]
        /\ collisions \in [Names -> Nat]
    BY DEF Init, Names
  <2> QED  BY <1>4, <2>2, <2>3 DEF CallsTyped
<1>6. \A c \in Names : mem[Counter[c]] = calls[c] /\ calls[c] = 0
  BY <1>2, Apart DEF Init, Names
<1>7. Bounded
  <2>1. ASSUME NEW c \in Names
        PROVE  Counting(c) = {} /\ Cardinality(Counting(c)) = 0
    <3>1. Counting(c) = {}
      BY <1>4 DEF Counting
    <3> QED  BY <3>1, CountingFinite
  <2>2. \A c \in Names : collisions[c] = 0
    BY DEF Init, Names
  <2> QED  BY <1>6, <2>1, <2>2 DEF Bounded, Ahead, Behind
<1> QED  BY <1>1, <1>3, <1>5, <1>7 DEF CountInv

\* Every step preserves it.
LEMMA CountInvStep == OrderInv /\ CountInv /\ [Next]_silVars => CountInv'
<1> SUFFICES ASSUME OrderInv, CountInv, [Next]_silVars PROVE CountInv'
  OBVIOUS
<1>1. FilesTyped /\ ShownTyped /\ CallsTyped /\ Bounded
  BY DEF CountInv
<1>2. FilesTyped'
  BY <1>1, FilesStep
<1>3. ShownTyped'
  BY <1>1, ShownStep
<1>4. CallsTyped' /\ Bounded'
  BY <1>1, CountStep
<1> QED  BY <1>2, <1>3, <1>4 DEF CountInv

\* The globals, the status file and the control file are well formed, and no
\* counter exceeds the calls of its callback, even when increments are lost.
THEOREM TypeCorrect == FairSpec => []TypeOK
<1>1. OrderInv /\ CountInv => TypeOK
  <2> SUFFICES ASSUME OrderInv, CountInv PROVE TypeOK
    OBVIOUS
  <2>1. pos \in 0..Len(file)
    BY DEF OrderInv, ControlTyped
  <2>2. FilesTyped /\ ShownTyped /\ CallsTyped /\ Bounded
    BY DEF CountInv
  <2>3. \A c \in Names : mem[Counter[c]] <= calls[c]
    <3> SUFFICES ASSUME NEW c \in Names PROVE mem[Counter[c]] <= calls[c]
      OBVIOUS
    <3>1. mem[Counter[c]] \in Nat /\ calls[c] \in Nat
      BY <2>2, CountTyped
    <3>2. Cardinality(Counting(c)) \in Nat
      BY CountingFinite
    <3>3. mem[Counter[c]] + Cardinality(Counting(c)) <= calls[c]
      BY <2>2 DEF Bounded, Ahead
    <3> QED  BY <3>1, <3>2, <3>3
  <2> QED  BY <2>1, <2>2, <2>3
           DEF TypeOK, FilesTyped, ShownTyped, CallsTyped, Names
<1> HIDE DEF OrderInv, CountInv, TypeOK
<1> QED  BY <1>1, OrderInit, OrderStep, CountInit, CountInvStep, PTL DEF FairSpec

\* A counter and the calls of its callback differ by the calls in progress and, at
\* most, by one for every collision: an unlocked increment loses no more.
THEOREM AllCounted == FairSpec => []Counted
<1>1. CountInv => Counted
  BY DEF CountInv, Bounded, Ahead, Behind, Counted, Names
<1> HIDE DEF OrderInv, CountInv, Counted
<1> QED  BY <1>1, OrderInit, OrderStep, CountInit, CountInvStep, PTL DEF FairSpec
=============================================================================
