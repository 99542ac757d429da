--------------------------- MODULE NstarRegsProofs --------------------------
(***************************************************************************)
(* Proofs about the register groups, for any number of setters and         *)
(* readers, groups of any length and any values.                           *)
(***************************************************************************)
EXTENDS NstarRegs, NstarDigitsProofs

\* A call begins at the first register of its group.
FromTheFirst == \A t \in Callers : Idle(t) => at[t] = 1

\* Of two setters at work at once, each has been disturbed.
Alone ==
    \A s, t \in Setters : s # t /\ pc[s] = "set" /\ pc[t] = "set" => disturbed[t]

\* What an undisturbed setter has written is still there.
Written ==
    \A t \in Setters : pc[t] = "set" /\ ~disturbed[t] =>
        \A i \in 1..N : i < at[t] => regs[SetGroup[i]] = Byte(arg[t], i)

\* What a reader has read is what is there, unless the group has changed.
Got ==
    \A t \in Getters : pc[t] = "get" /\ ~moved[t] =>
        \A i \in 1..ReadLen : i < at[t] => buf[t][i] = regs[ReadAddr(i)]

RegsInv == TypeOK /\ FromTheFirst /\ Alone /\ Written /\ Got
-----------------------------------------------------------------------------
\* Neither group is empty.
LEMMA Sizes == N \in Nat /\ N > 0 /\ ReadLen \in Nat /\ ReadLen > 0
BY GroupAssumption DEF N

\* Bytes are the digits of an even base.
LEMMA BaseFacts == BASE \in Nat \ {0} /\ BASE % 2 = 0 /\ Bytes = 0..BASE - 1
BY GroupAssumption

\* The addresses of the group that is set are addresses, and no two are the same.
LEMMA SetGroupFacts ==
    /\ \A i \in 1..N : SetGroup[i] \in Addrs
    /\ \A i, j \in 1..N : SetGroup[i] = SetGroup[j] => i = j
    /\ LatchAddr = SetGroup[N]
<1>1. SetGroup \in Seq(Addrs) /\ N = Len(SetGroup)
  BY GroupAssumption DEF N
<1>2. DOMAIN SetGroup = 1..N
  BY <1>1
<1>3. \A i \in 1..N : SetGroup[i] \in Addrs
  BY <1>1
<1>4. \A i, j \in 1..N : SetGroup[i] = SetGroup[j] => i = j
  <2>1. \A i, j \in DOMAIN SetGroup : SetGroup[i] = SetGroup[j] => i = j
    BY GroupAssumption
  <2> QED  BY <1>2, <2>1
<1> QED  BY <1>3, <1>4 DEF LatchAddr

\* So are those of the group that is read, whatever the uint8_t wraps to.
LEMMA ReadGroupFacts == \A i \in 1..ReadLen : ReadAddr(i) \in Addrs
BY GroupAssumption DEF ReadAddr

\* A byte of a setter's argument is a value its register can hold.
LEMMA ByteType ==
    ASSUME NEW v \in Nat, NEW i \in 1..N
    PROVE  Byte(v, i) \in Bytes
<1>1. Shifted(v, i) \in Nat
  BY Sizes, BaseFacts, DigitRange DEF Shifted
<1>2. Limits[i] \in 1..BASE
  BY GroupAssumption DEF N
<1> QED  BY <1>1, <1>2, BaseFacts DEF Byte

\* Registers after a reset are registers.
LEMMA DefaultsType ==
    Defaults \in [Addrs -> Bytes] /\ DefaultLatched \in [1..N -> Bytes]
BY RegistersAssumption, SetGroupFacts DEF DefaultLatched

\* A thread that reads does not set.
LEMMA CallersApart == \A t \in Setters : t \notin Getters
BY GroupAssumption

USE DEF Callers, Idle, InSetter

\* The initial state satisfies the invariant.
LEMMA RegsInit == Init => RegsInv
<1> SUFFICES ASSUME Init PROVE RegsInv
  OBVIOUS
<1>1. /\ disturbed \in [Setters -> BOOLEAN] /\ moved \in [Getters -> BOOLEAN]
      /\ \A t \in Setters : ~disturbed[t]
      /\ \A t \in Getters : ~moved[t]
  BY Zenon DEF Init
<1>2. 0 \in Bytes
  BY RegistersAssumption
<1>3. TypeOK
  BY <1>1, <1>2, DefaultsType, Sizes DEF Init, TypeOK
<1> QED
  BY <1>1, <1>3, Sizes DEF Init, RegsInv, FromTheFirst, Alone, Written, Got
-----------------------------------------------------------------------------
\* Only t's place changes.
Others(t) == \A u \in Callers : u # t => pc'[u] = pc[u] /\ at'[u] = at[u]
PlacesTyped == /\ pc' \in [Callers -> {"ok", "error", "set", "get"}]
               /\ at' \in [Callers -> Nat]

\* Where the threads are, of TypeOK
LEMMA Places ==
    ASSUME TypeOK
    PROVE  /\ pc \in [Callers -> {"ok", "error", "set", "get"}]
           /\ at \in [Callers -> Nat]
           /\ \A u \in Setters : pc[u] # "get" /\ at[u] \in 1..N
           /\ \A u \in Getters : pc[u] # "set" /\ at[u] \in 1..ReadLen
BY DEF TypeOK

\* A call returns.
LEMMA Returned ==
    ASSUME TypeOK, NEW t \in Callers, NEW r \in {"ok", "error"}, Return(t, r)
    PROVE  PlacesTyped /\ Others(t) /\ pc'[t] = r /\ at'[t] = 1
BY DEF Return, TypeOK, PlacesTyped, Others

\* A call has done a register: it returns or goes on with the next one.
LEMMA Advanced ==
    ASSUME TypeOK, NEW t \in Callers, NEW last, Advance(t, last)
    PROVE  /\ PlacesTyped /\ Others(t)
           /\ \/ at[t] = last /\ pc'[t] = "ok" /\ at'[t] = 1
              \/ at[t] # last /\ pc'[t] = pc[t] /\ at'[t] = at[t] + 1
<1>1. CASE at[t] = last
  BY <1>1, Returned DEF Advance
<1>2. CASE at[t] # last
  BY <1>2, Places DEF Advance, PlacesTyped, Others
<1> QED  BY <1>1, <1>2

\* Returning from a call keeps the places of all threads in their ranges, ...
LEMMA ReturnPlaces ==
    ASSUME TypeOK, NEW t \in Callers, Others(t),
           pc'[t] \in {"ok", "error"}, at'[t] = 1
    PROVE  /\ \A u \in Setters : pc'[u] # "get" /\ at'[u] \in 1..N
           /\ \A u \in Getters : pc'[u] # "set" /\ at'[u] \in 1..ReadLen
<1>1. ASSUME NEW u \in Callers, u # t PROVE pc'[u] = pc[u] /\ at'[u] = at[u]
  BY <1>1 DEF Others
<1>2. \A u \in Setters : u = t \/ (pc[u] # "get" /\ at[u] \in 1..N)
  BY Places
<1>3. \A u \in Getters : u = t \/ (pc[u] # "set" /\ at[u] \in 1..ReadLen)
  BY Places
<1> QED  BY <1>1, <1>2, <1>3, Sizes

\* ... and what is said of the calls under way, of which there is one less.
LEMMA ReturnKeeps ==
    ASSUME RegsInv, NEW t \in Callers, Others(t),
           pc'[t] \in {"ok", "error"}, at'[t] = 1
    PROVE  /\ FromTheFirst'
           /\ UNCHANGED disturbed => Alone'
           /\ UNCHANGED <<regs, arg, disturbed>> => Written'
           /\ UNCHANGED <<regs, buf, moved>> => Got'
<1>1. FromTheFirst'
  BY DEF RegsInv, FromTheFirst, Others
<1>2. UNCHANGED disturbed => Alone'
  BY DEF RegsInv, Alone, Others
<1>3. UNCHANGED <<regs, arg, disturbed>> => Written'
  BY DEF RegsInv, Written, Others
<1>4. UNCHANGED <<regs, buf, moved>> => Got'
  BY DEF RegsInv, Got, Others
<1> QED  BY <1>1, <1>2, <1>3, <1>4

\* A call that returns and has changed nothing else
LEMMA Untouched ==
    ASSUME RegsInv, PlacesTyped, NEW t \in Callers, Others(t),
           UNCHANGED <<regs, latched, arg, buf, disturbed, moved>>,
           pc'[t] \in {"ok", "error"}, at'[t] = 1
    PROVE  RegsInv'
<1>1. TypeOK'
  BY ReturnPlaces DEF RegsInv, TypeOK, PlacesTyped
<1> QED  BY <1>1, ReturnKeeps DEF RegsInv

\* A setter rejects its argument.
LEMMA RegsSetRejected ==
    ASSUME RegsInv, NEW t \in Setters, NEW v \in Values, SetRejected(t, v)
    PROVE  RegsInv'
BY Returned, Untouched DEF SetRejected, deviceVars, RegsInv

\* A setter begins.
LEMMA RegsSet ==
    ASSUME RegsInv, NEW t \in Setters, NEW v \in Values, Set(t, v)
    PROVE  RegsInv'
<1>1. PlacesTyped /\ Others(t) /\ pc'[t] = "set" /\ at' = at /\ at[t] = 1
  BY DEF Set, RegsInv, TypeOK, FromTheFirst, PlacesTyped, Others
<1>2. v \in Nat
  BY GroupAssumption
<1>3. disturbed \in [Setters -> BOOLEAN]
  BY DEF RegsInv, TypeOK
<1>4. /\ disturbed' \in [Setters -> BOOLEAN]
      /\ \A s \in Setters : s # t /\ ~disturbed'[s] => ~disturbed[s]
      /\ \A s \in Setters : s # t /\ pc[s] = "set" =>
            disturbed'[s] /\ disturbed'[t]
  BY <1>3, Zenon DEF Set
<1>5. UNCHANGED <<regs, latched, buf, moved>> /\ arg' = [arg EXCEPT ![t] = v]
  BY DEF Set, deviceVars
<1>6. \A u \in Getters : pc'[u] = pc[u]
  BY <1>1, CallersApart DEF Others
<1>7. TypeOK'
  BY <1>1, <1>2, <1>4, <1>5, <1>6 DEF RegsInv, TypeOK, PlacesTyped, Others
<1>8. FromTheFirst'
  BY <1>1 DEF RegsInv, FromTheFirst, Others
<1>9. Alone'
  BY <1>1, <1>4 DEF RegsInv, Alone, Others
<1>10. Written'
  BY <1>1, <1>4, <1>5, <1>7 DEF RegsInv, TypeOK, Written, Others
<1>11. Got'
  BY <1>1, <1>5, <1>6 DEF RegsInv, Got
<1> QED  BY <1>7, <1>8, <1>9, <1>10, <1>11 DEF RegsInv
-----------------------------------------------------------------------------
\* A write that the device carries out.
LEMMA Carried ==
    ASSUME TypeOK, NEW t \in Setters, CarryOut(WriteCommand(t))
    PROVE  /\ regs' = [regs EXCEPT ![SetGroup[at[t]]] = Byte(arg[t], at[t])]
           /\ regs' \in [Addrs -> Bytes] /\ latched' \in [1..N -> Bytes]
           /\ \A i \in 1..ReadLen : regs'[ReadAddr(i)] = regs[ReadAddr(i)]
           /\ Reading(regs') = Reading(regs)
           /\ \/ latched' = latched
              \/ at[t] = N /\ latched' = [i \in 1..N |-> regs'[SetGroup[i]]]
<1>1. Byte(arg[t], at[t]) \in Bytes
  BY ByteType DEF TypeOK
<1>2. regs' = [regs EXCEPT ![SetGroup[at[t]]] = Byte(arg[t], at[t])]
  BY DEF CarryOut, WriteCommand, Effect
<1>3. regs' \in [Addrs -> Bytes]
  BY <1>1, <1>2 DEF TypeOK
<1>4. \A i \in 1..ReadLen : regs'[ReadAddr(i)] = regs[ReadAddr(i)]
  BY <1>2, ApartAssumption, ReadGroupFacts DEF TypeOK, ReadAddrs
<1>5. Reading(regs') = Reading(regs)
  BY <1>4 DEF Reading
<1>6. \/ latched' = latched
      \/ at[t] = N /\ latched' = [i \in 1..N |-> regs'[SetGroup[i]]]
  BY Sizes, SetGroupFacts DEF CarryOut, WriteCommand, TypeOK
<1> QED  BY <1>2, <1>3, <1>4, <1>5, <1>6, SetGroupFacts DEF TypeOK

\* The history of changes stays as it is without a change.
LEMMA Unmoved ==
    ASSUME TypeOK, NoteMoved, Reading(regs') = Reading(regs)
    PROVE  moved' = moved
<1>1. moved \in [Getters -> BOOLEAN]
  BY DEF TypeOK
<1>2. /\ moved' \in [Getters -> BOOLEAN]
      /\ \A t \in Getters : moved'[t] <=> moved[t]
  BY <1>1, Zenon DEF NoteMoved
<1> QED  BY <1>1, <1>2

\* The next byte is written.
LEMMA RegsWriteByte ==
    ASSUME RegsInv, NEW t \in Setters, WriteByte(t)
    PROVE  RegsInv'
<1>1. /\ pc[t] = "set" /\ CarryOut(WriteCommand(t)) /\ NoteMoved
      /\ Advance(t, N) /\ UNCHANGED <<arg, buf, disturbed>> /\ TypeOK
  BY DEF WriteByte, RegsInv
<1>2. /\ PlacesTyped /\ Others(t)
      /\ \/ at[t] = N /\ pc'[t] = "ok" /\ at'[t] = 1
         \/ at[t] # N /\ pc'[t] = pc[t] /\ at'[t] = at[t] + 1
  BY <1>1, Advanced
<1>3. moved' = moved
  BY <1>1, Carried, Unmoved
<1>4. \A u \in Getters : pc'[u] = pc[u] /\ at'[u] = at[u]
  BY <1>2, CallersApart DEF Others
<1>5. TypeOK'
  <2>1. \A u \in Setters : pc'[u] # "get" /\ at'[u] \in 1..N
    BY <1>1, <1>2, Sizes, Places DEF Others
  <2>2. regs' \in [Addrs -> Bytes] /\ latched' \in [1..N -> Bytes]
    BY <1>1, Carried
  <2> QED  BY <1>1, <1>2, <1>3, <1>4, <2>1, <2>2 DEF TypeOK, PlacesTyped
<1>6. FromTheFirst'
  BY <1>1, <1>2 DEF RegsInv, FromTheFirst, Others
<1>7. Alone'
  BY <1>1, <1>2 DEF RegsInv, Alone, Others
<1>8. Written'
  <2>1. ASSUME NEW u \in Setters, pc'[u] = "set", ~disturbed[u],
               NEW i \in 1..N, i < at'[u]
        PROVE  regs'[SetGroup[i]] = Byte(arg[u], i)
    <3>1. u = t
      BY <1>1, <1>2, <2>1 DEF Others, RegsInv, Alone
    <3>2. at'[t] = at[t] + 1 /\ at[t] \in 1..N
      BY <1>1, <1>2, <2>1, <3>1 DEF TypeOK
    <3>3. regs' = [regs EXCEPT ![SetGroup[at[t]]] = Byte(arg[t], at[t])]
      BY <1>1, Carried
    <3>4. CASE i = at[t]
      BY <1>1, <3>1, <3>2, <3>3, <3>4, SetGroupFacts DEF TypeOK
    <3>5. CASE i # at[t]
      <4>1. i < at[t]
        BY <2>1, <3>1, <3>2, <3>5, Sizes
      <4>2. regs[SetGroup[i]] = Byte(arg[u], i)
        BY <1>1, <2>1, <3>1, <4>1 DEF RegsInv, Written
      <4> QED  BY <1>1, <3>2, <3>3, <3>5, <4>2, SetGroupFacts DEF TypeOK
    <3> QED  BY <3>4, <3>5
  <2> QED  BY <1>1, <2>1 DEF Written
<1>9. Got'
  BY <1>1, <1>3, <1>4, Carried DEF RegsInv, Got
<1> QED  BY <1>5, <1>6, <1>7, <1>8, <1>9 DEF RegsInv

\* A write fails: the bytes written so far stay, and the call is over.
LEMMA RegsWriteFails ==
    ASSUME RegsInv, NEW t \in Setters, WriteFails(t)
    PROVE  RegsInv'
<1>1. /\ pc[t] = "set" /\ NoteMoved /\ UNCHANGED <<arg, buf, disturbed>>
      /\ CarryOut(WriteCommand(t)) \/ UNCHANGED <<regs, latched>>
      /\ Return(t, "error") /\ TypeOK
  BY DEF WriteFails, RegsInv, deviceVars
<1>2. PlacesTyped /\ Others(t) /\ pc'[t] = "error" /\ at'[t] = 1
  BY <1>1, Returned
<1>3. CASE UNCHANGED <<regs, latched>>
  <2>1. moved' = moved
    BY <1>1, <1>3, Unmoved
  <2> QED  BY <1>1, <1>2, <1>3, <2>1, Untouched
<1>4. CASE CarryOut(WriteCommand(t))
  <2>1. moved' = moved
    BY <1>1, <1>4, Carried, Unmoved
  <2>2. regs' \in [Addrs -> Bytes] /\ latched' \in [1..N -> Bytes]
    BY <1>1, <1>4, Carried
  <2>3. TypeOK'
    BY <1>1, <1>2, <2>1, <2>2, ReturnPlaces DEF TypeOK, PlacesTyped
  <2>4. FromTheFirst' /\ Alone'
    BY <1>1, <1>2, ReturnKeeps
  <2>5. Written'
    BY <1>1, <1>2 DEF RegsInv, Alone, Written, Others
  <2>6. Got'
    <3>1. \A u \in Getters : pc'[u] = pc[u] /\ at'[u] = at[u]
      BY <1>2, CallersApart DEF Others
    <3> QED  BY <1>1, <1>4, <2>1, <3>1, Carried DEF RegsInv, Got
  <2> QED  BY <2>3, <2>4, <2>5, <2>6 DEF RegsInv
<1> QED  BY <1>1, <1>3, <1>4
-----------------------------------------------------------------------------
\* A reader begins.
LEMMA RegsGet ==
    ASSUME RegsInv, NEW t \in Getters, Get(t)
    PROVE  RegsInv'
<1>1. TypeOK
  BY DEF RegsInv
<1>2. PlacesTyped /\ Others(t) /\ pc'[t] = "get" /\ at' = at /\ at[t] = 1
  BY <1>1, Places DEF Get, RegsInv, FromTheFirst, PlacesTyped, Others
<1>3. /\ moved' \in [Getters -> BOOLEAN]
      /\ \A u \in Getters : u # t => (moved'[u] <=> moved[u])
  <2>1. moved \in [Getters -> BOOLEAN]
    BY <1>1 DEF TypeOK
  <2> QED  BY <2>1, Zenon DEF Get
<1>4. UNCHANGED <<regs, latched, arg, buf, disturbed>>
  BY DEF Get, deviceVars
<1>5. \A u \in Setters : pc'[u] = pc[u] /\ at'[u] = at[u]
  BY <1>2, CallersApart DEF Others
<1>6. TypeOK'
  BY <1>1, <1>2, <1>3, <1>4, <1>5 DEF TypeOK, PlacesTyped, Others
<1>7. FromTheFirst' /\ Alone'
  BY <1>2, <1>4, <1>5 DEF RegsInv, FromTheFirst, Alone, Others
<1>8. Written'
  BY <1>4, <1>5 DEF RegsInv, Written
<1>9. Got'
  BY <1>2, <1>3, <1>4 DEF RegsInv, Got, Others
<1> QED  BY <1>6, <1>7, <1>8, <1>9 DEF RegsInv

\* A register is read.
LEMMA RegsReadByte ==
    ASSUME RegsInv, NEW t \in Getters, ReadByte(t)
    PROVE  RegsInv'
<1>1. /\ pc[t] = "get" /\ Advance(t, ReadLen) /\ TypeOK
      /\ buf' = [buf EXCEPT ![t][at[t]] = regs[ReadAddr(at[t])]]
      /\ UNCHANGED <<regs, latched, arg, disturbed, moved>>
  BY DEF ReadByte, RegsInv, deviceVars
<1>2. /\ PlacesTyped /\ Others(t)
      /\ \/ at[t] = ReadLen /\ pc'[t] = "ok" /\ at'[t] = 1
         \/ at[t] # ReadLen /\ pc'[t] = pc[t] /\ at'[t] = at[t] + 1
  BY <1>1, Advanced
<1>3. \A u \in Setters : pc'[u] = pc[u] /\ at'[u] = at[u]
  BY <1>2, CallersApart DEF Others
<1>4. at[t] \in 1..ReadLen /\ regs[ReadAddr(at[t])] \in Bytes
  BY <1>1, Places, ReadGroupFacts DEF TypeOK
<1>5. buf' \in [Getters -> [1..ReadLen -> Bytes]]
  BY <1>1, <1>4 DEF TypeOK
<1>6. TypeOK'
  <2>1. \A u \in Getters : pc'[u] # "set" /\ at'[u] \in 1..ReadLen
    BY <1>1, <1>2, Sizes, Places DEF Others
  <2> QED  BY <1>1, <1>2, <1>3, <1>5, <2>1 DEF TypeOK, PlacesTyped
<1>7. FromTheFirst' /\ Alone'
  BY <1>1, <1>2, <1>3 DEF RegsInv, FromTheFirst, Alone, Others
<1>8. Written'
  BY <1>1, <1>3 DEF RegsInv, Written
<1>9. Got'
  <2>1. ASSUME NEW u \in Getters, pc'[u] = "get", ~moved[u],
               NEW i \in 1..ReadLen, i < at'[u]
        PROVE  buf'[u][i] = regs[ReadAddr(i)]
    <3>1. CASE u = t /\ i = at[t]
      BY <1>1, <1>4, <3>1 DEF TypeOK
    <3>2. CASE u = t /\ i # at[t]
      <4>1. i < at[t]
        BY <1>2, <1>4, <2>1, <3>2, Sizes
      <4>2. buf[u][i] = regs[ReadAddr(i)]
        BY <1>1, <2>1, <3>2, <4>1 DEF RegsInv, Got
      <4> QED  BY <1>1, <3>2, <4>2 DEF TypeOK
    <3>3. CASE u # t
      <4>1. pc[u] = "get" /\ i < at[u]
        BY <1>2, <2>1, <3>3 DEF Others
      <4>2. buf[u][i] = regs[ReadAddr(i)]
        BY <2>1, <4>1 DEF RegsInv, Got
      <4> QED  BY <1>1, <3>3, <4>2 DEF TypeOK
    <3> QED  BY <3>1, <3>2, <3>3
  <2> QED  BY <1>1, <2>1 DEF Got
<1> QED  BY <1>6, <1>7, <1>8, <1>9 DEF RegsInv

\* A read fails.
LEMMA RegsReadFails ==
    ASSUME RegsInv, NEW t \in Getters, ReadFails(t)
    PROVE  RegsInv'
BY Returned, Untouched DEF ReadFails, deviceVars, RegsInv
-----------------------------------------------------------------------------
\* What the histories say of a reset and of a new measurement
LEMMA Noted ==
    ASSUME TypeOK, NoteMoved
    PROVE  /\ moved' \in [Getters -> BOOLEAN]
           /\ \A t \in Getters : pc[t] = "get" /\ ~moved'[t] =>
                 ~moved[t] /\ Reading(regs') = Reading(regs)
<1>1. moved \in [Getters -> BOOLEAN]
  BY DEF TypeOK
<1> QED  BY <1>1, Zenon DEF NoteMoved

\* A reset comes into every call of a setter that is under way.
LEMMA Disturbed ==
    ASSUME TypeOK, Disturb
    PROVE  /\ disturbed' \in [Setters -> BOOLEAN]
           /\ \A t \in Setters : pc[t] = "set" => disturbed'[t]
<1>1. disturbed \in [Setters -> BOOLEAN]
  BY DEF TypeOK
<1> QED  BY <1>1, Zenon DEF Disturb

\* Equal readings have equal bytes.
LEMMA SameReading ==
    ASSUME Reading(regs') = Reading(regs), NEW i \in 1..ReadLen
    PROVE  regs'[ReadAddr(i)] = regs[ReadAddr(i)]
<1>1. /\ Reading(regs')[i] = regs'[ReadAddr(i)]
      /\ Reading(regs)[i] = regs[ReadAddr(i)]
  BY DEF Reading
<1> QED  BY <1>1

\* The device is reset.
LEMMA RegsReset ==
    ASSUME RegsInv, Reset
    PROVE  RegsInv'
<1>1. /\ CarryOut([op |-> "C"]) /\ Disturb /\ NoteMoved /\ TypeOK
      /\ UNCHANGED <<pc, at, arg, buf>>
  BY DEF Reset, RegsInv, threadVars
<1>2. regs' = Defaults /\ latched' = DefaultLatched
  BY <1>1 DEF CarryOut, Effect
<1>3. TypeOK'
  BY <1>1, <1>2, DefaultsType, Noted, Disturbed DEF TypeOK
<1>4. FromTheFirst'
  BY <1>1 DEF RegsInv, FromTheFirst
<1>5. Alone' /\ Written'
  BY <1>1, Disturbed DEF Alone, Written
<1>6. Got'
  BY <1>1, Noted, SameReading DEF RegsInv, Got
<1> QED  BY <1>3, <1>4, <1>5, <1>6 DEF RegsInv

\* The transponder measures anew.
LEMMA RegsMeasure ==
    ASSUME RegsInv, NEW new \in Measured, Measure(new)
    PROVE  RegsInv'
<1> DEFINE At(a) == CHOOSE i \in 1..ReadLen : ReadAddr(i) = a
<1>1. /\ regs' = [a \in Addrs |-> IF a \in ReadAddrs THEN new[At(a)]
                                                 ELSE regs[a]]
      /\ NoteMoved /\ TypeOK
      /\ UNCHANGED <<latched, pc, at, arg, buf, disturbed>>
  BY DEF Measure, RegsInv, threadVars
<1>2. \A a \in ReadAddrs : At(a) \in 1..ReadLen
  BY DEF ReadAddrs
<1>3. \A i \in 1..ReadLen : new[i] \in Bytes
  BY GroupAssumption
<1>4. \A a \in Addrs : regs'[a] \in Bytes
  BY <1>1, <1>2, <1>3 DEF TypeOK
<1> HIDE DEF At
<1>5. regs' \in [Addrs -> Bytes]
  BY <1>1, <1>4
<1>6. TypeOK'
  BY <1>1, <1>5, Noted DEF TypeOK
<1>7. FromTheFirst' /\ Alone'
  BY <1>1 DEF RegsInv, FromTheFirst, Alone
<1>8. \A i \in 1..N : regs'[SetGroup[i]] = regs[SetGroup[i]]
  BY <1>1, ApartAssumption, SetGroupFacts
<1>9. Written'
  BY <1>1, <1>8 DEF RegsInv, Written
<1>10. Got'
  BY <1>1, Noted, SameReading DEF RegsInv, Got
<1> QED  BY <1>6, <1>7, <1>9, <1>10 DEF RegsInv

\* Every step of every thread and of the device preserves the invariant.
LEMMA RegsStep == RegsInv /\ [Next]_regsVars => RegsInv'
<1> SUFFICES ASSUME RegsInv, [Next]_regsVars PROVE RegsInv'
  OBVIOUS
<1>1. CASE Setter
  BY <1>1, RegsSet, RegsSetRejected, RegsWriteByte, RegsWriteFails DEF Setter
<1>2. CASE Getter
  BY <1>2, RegsGet, RegsReadByte, RegsReadFails DEF Getter
<1>3. CASE Device
  BY <1>3, RegsReset, RegsMeasure DEF Device
<1>4. CASE UNCHANGED regsVars
  BY <1>4 DEF regsVars, deviceVars, threadVars, RegsInv, TypeOK, FromTheFirst,
              Alone, Written, Got
<1> QED  BY <1>1, <1>2, <1>3, <1>4 DEF Next
-----------------------------------------------------------------------------
\* A setter's last byte puts its whole value in force, if it was alone.
LEMMA LatchedBySetter ==
    ASSUME RegsInv, NEW t \in Setters, pc[t] = "set", CarryOut(WriteCommand(t)),
           ~disturbed[t], at[t] = N,
           latched' = [i \in 1..N |-> regs'[SetGroup[i]]]
    PROVE  latched' = ByteSeq(arg[t])
<1>1. \A i \in 1..N : i < N => regs[SetGroup[i]] = Byte(arg[t], i)
  BY DEF RegsInv, Written
<1>2. regs' = [regs EXCEPT ![SetGroup[N]] = Byte(arg[t], N)]
  BY Carried DEF RegsInv
<1>3. regs \in [Addrs -> Bytes]
  BY DEF RegsInv, TypeOK
<1>4. ASSUME NEW i \in 1..N PROVE regs'[SetGroup[i]] = Byte(arg[t], i)
  <2>1. CASE i = N
    BY <1>2, <1>3, <2>1, SetGroupFacts
  <2>2. CASE i # N
    <3>1. i < N
      BY <2>2, Sizes
    <3> QED  BY <1>1, <1>2, <1>3, <2>2, <3>1, SetGroupFacts, Sizes
  <2> QED  BY <2>1, <2>2
<1> QED  BY <1>4 DEF ByteSeq

\* Its other bytes put nothing in force.
LEMMA LatchStep ==
    ASSUME RegsInv, NEW t \in Setters, pc[t] = "set", CarryOut(WriteCommand(t))
    PROVE  latched' = latched \/ disturbed[t] \/ latched' = ByteSeq(arg[t])
BY Carried, LatchedBySetter DEF RegsInv

\* Whatever comes into force does so as a whole.
LEMMA WholeStep ==
    ASSUME RegsInv, [Next]_regsVars
    PROVE  \/ latched' = latched \/ latched' = DefaultLatched
           \/ \E t \in InSetter : disturbed[t] \/ latched' = ByteSeq(arg[t])
<1>1. CASE Setter
  <2> SUFFICES ASSUME NEW t \in Setters, WriteByte(t) \/ WriteFails(t)
               PROVE  latched' = latched
                        \/ \E u \in InSetter :
                              disturbed[u] \/ latched' = ByteSeq(arg[u])
    BY <1>1 DEF Setter, Set, SetRejected, deviceVars
  <2>1. /\ pc[t] = "set"
        /\ CarryOut(WriteCommand(t)) \/ latched' = latched
    BY DEF WriteByte, WriteFails, deviceVars
  <2> QED  BY <2>1, LatchStep
<1>2. CASE Getter
  BY <1>2 DEF Getter, Get, ReadByte, ReadFails, deviceVars
<1>3. CASE Device
  BY <1>3 DEF Device, Reset, Measure, CarryOut, Effect
<1>4. CASE UNCHANGED regsVars
  BY <1>4 DEF regsVars, deviceVars
<1> QED  BY <1>1, <1>2, <1>3, <1>4 DEF Next

\* The register by which a reader succeeds completes the bytes it has read.
LEMMA ReadStep ==
    ASSUME RegsInv, [Next]_regsVars, NEW t \in Getters, Succeeds(t), ~moved[t]
    PROVE  buf'[t] = Reading(regs)
<1>1. TypeOK
  BY DEF RegsInv
<1>2. pc[t] = "get" /\ pc'[t] = "ok"
  BY <1>1, Places DEF Succeeds
<1>3. ReadByte(t)
  <2>1. CASE Setter
    <3> SUFFICES ASSUME NEW u \in Setters, pc'[t] # pc[t],
                        \/ \E v \in Values : Set(u, v) \/ SetRejected(u, v)
                        \/ WriteByte(u) \/ WriteFails(u)
                 PROVE  FALSE
      BY <1>2, <2>1 DEF Setter
    <3>1. u # t
      BY CallersApart
    <3>2. Others(u)
      BY <1>1, Places, Returned, Advanced
         DEF Set, SetRejected, WriteByte, WriteFails, Others
    <3> QED  BY <3>1, <3>2 DEF Others
  <2>2. CASE Getter
    <3> SUFFICES ASSUME NEW u \in Getters, u # t,
                        Get(u) \/ ReadByte(u) \/ ReadFails(u)
                 PROVE  FALSE
      BY <1>1, <1>2, <2>2, Returned DEF Getter, Get, ReadFails
    <3>1. Others(u)
      BY <1>1, Places, Returned, Advanced DEF Get, ReadByte, ReadFails, Others
    <3> QED  BY <1>2, <3>1 DEF Others
  <2>3. CASE Device \/ UNCHANGED regsVars
    BY <1>2, <2>3 DEF Device, Reset, Measure, regsVars, threadVars
  <2> QED  BY <2>1, <2>2, <2>3 DEF Next
<1>4. at[t] = ReadLen /\ at[t] \in 1..ReadLen
  BY <1>1, <1>2, <1>3, Advanced, Places DEF ReadByte
<1>5. buf' = [buf EXCEPT ![t][ReadLen] = regs[ReadAddr(ReadLen)]]
  BY <1>3, <1>4 DEF ReadByte
<1>6. \A i \in 1..ReadLen : i < ReadLen => buf[t][i] = regs[ReadAddr(i)]
  BY <1>2, <1>4 DEF RegsInv, Got
<1>7. buf'[t] \in [1..ReadLen -> Bytes]
  BY <1>3, RegsReadByte DEF RegsInv, TypeOK
<1>8. ASSUME NEW i \in 1..ReadLen PROVE buf'[t][i] = regs[ReadAddr(i)]
  <2>1. CASE i = ReadLen
    BY <1>1, <1>5, <2>1 DEF TypeOK
  <2>2. CASE i # ReadLen
    <3>1. i < ReadLen
      BY <2>2, Sizes
    <3> QED  BY <1>1, <1>5, <1>6, <2>2, <3>1 DEF TypeOK
  <2> QED  BY <2>1, <2>2
<1> QED  BY <1>7, <1>8 DEF Reading

\* A step by which a setter succeeds is the write of its last byte.
LEMMA SetStep ==
    ASSUME RegsInv, [Next]_regsVars, NEW t \in Setters, Succeeds(t)
    PROVE  pc[t] = "set" /\ WriteByte(t) /\ at[t] = N
<1>1. TypeOK
  BY DEF RegsInv
<1>2. pc[t] = "set" /\ pc'[t] = "ok"
  BY <1>1, Places DEF Succeeds
<1>3. WriteByte(t)
  <2>1. CASE Setter
    <3> SUFFICES ASSUME NEW u \in Setters, u # t,
                        \/ \E v \in Values : Set(u, v) \/ SetRejected(u, v)
                        \/ WriteByte(u) \/ WriteFails(u)
                 PROVE  FALSE
      BY <1>1, <1>2, <2>1, Returned DEF Setter, Set, SetRejected, WriteFails
    <3>1. Others(u)
      BY <1>1, Places, Returned, Advanced
         DEF Set, SetRejected, WriteByte, WriteFails, Others
    <3> QED  BY <1>2, <3>1 DEF Others
  <2>2. CASE Getter
    <3> SUFFICES ASSUME NEW u \in Getters,
                        Get(u) \/ ReadByte(u) \/ ReadFails(u)
                 PROVE  FALSE
      BY <2>2 DEF Getter
    <3>1. u # t
      BY CallersApart
    <3>2. Others(u)
      BY <1>1, Places, Returned, Advanced DEF Get, ReadByte, ReadFails, Others
    <3> QED  BY <1>2, <3>1, <3>2 DEF Others
  <2>3. CASE Device \/ UNCHANGED regsVars
    BY <1>2, <2>3 DEF Device, Reset, Measure, regsVars, threadVars
  <2> QED  BY <2>1, <2>2, <2>3 DEF Next
<1>4. at[t] = N
  BY <1>1, <1>2, <1>3, Advanced DEF WriteByte
<1> QED  BY <1>2, <1>3, <1>4

\* What a setter that succeeds alone has put in force
LEMMA TakesEffect ==
    ASSUME RegsInv, [Next]_regsVars, NEW t \in Setters, Succeeds(t), ~disturbed[t]
    PROVE  latched' = ByteSeq(arg[t])
<1>1. pc[t] = "set" /\ at[t] = N /\ CarryOut(WriteCommand(t))
  BY SetStep DEF WriteByte
<1>2. latched' = [i \in 1..N |-> regs'[SetGroup[i]]]
  BY <1>1, SetGroupFacts DEF CarryOut, WriteCommand
<1> QED  BY <1>1, <1>2, LatchedBySetter
-----------------------------------------------------------------------------
\* A setter at work has been called with a number in its range.
Checked == \A t \in Setters : pc[t] = "set" => InRange(arg[t])

\* The range of an argument is checked once, and no other call changes it.
LEMMA CheckedStep ==
    ASSUME RegsInv, Checked, [Next]_regsVars
    PROVE  Checked'
<1>1. TypeOK
  BY DEF RegsInv
<1> SUFFICES ASSUME NEW t \in Setters, pc'[t] = "set"
             PROVE  InRange(arg'[t])
  BY DEF Checked, InRange, Shifted
<1>2. CASE \E u \in Setters, v \in Values : Set(u, v)
  <2>1. PICK u \in Setters, v \in Values : Set(u, v)
    BY <1>2
  <2>2. arg' = [arg EXCEPT ![u] = v] /\ InRange(v) /\ pc' = [pc EXCEPT ![u] = "set"]
    BY <2>1 DEF Set
  <2>3. CASE u = t
    BY <1>1, <2>2, <2>3 DEF TypeOK
  <2>4. CASE u # t
    BY <1>1, <2>2, <2>4 DEF TypeOK, Checked
  <2> QED  BY <2>3, <2>4
<1>3. CASE arg' = arg /\ (pc[t] = "set" \/ pc'[t] # "set")
  BY <1>3 DEF Checked
<1>4. ASSUME NEW u \in Setters,
             \/ \E v \in Values : SetRejected(u, v)
             \/ WriteByte(u) \/ WriteFails(u)
      PROVE  arg' = arg /\ (pc[t] = "set" \/ pc'[t] # "set")
  <2>1. arg' = arg
    BY <1>4 DEF SetRejected, WriteByte, WriteFails
  <2>2. \/ Return(u, "error")
        \/ pc[u] = "set" /\ Advance(u, N)
    BY <1>4 DEF SetRejected, WriteByte, WriteFails
  <2>3. CASE Return(u, "error")
    BY <1>1, <2>1, <2>3, Returned DEF Others
  <2>4. CASE pc[u] = "set" /\ Advance(u, N)
    BY <1>1, <2>1, <2>4, Advanced DEF Others
  <2> QED  BY <2>2, <2>3, <2>4
<1>5. ASSUME NEW u \in Getters, Get(u) \/ ReadByte(u) \/ ReadFails(u)
      PROVE  arg' = arg /\ (pc[t] = "set" \/ pc'[t] # "set")
  <2>1. arg' = arg
    BY <1>5 DEF Get, ReadByte, ReadFails
  <2>2. u # t
    BY CallersApart
  <2>3. Others(u)
    BY <1>1, <1>5, Places, Returned, Advanced DEF Get, ReadByte, ReadFails, Others
  <2> QED  BY <2>1, <2>2, <2>3 DEF Others
<1>6. CASE Device \/ UNCHANGED regsVars
  BY <1>3, <1>6 DEF Device, Reset, Measure, regsVars, threadVars
<1> QED  BY <1>2, <1>3, <1>4, <1>5, <1>6 DEF Next, Setter, Getter

\* No call is under way at first.
LEMMA CheckedInit == Init => Checked
BY DEF Init, Checked
-----------------------------------------------------------------------------
\* Cutting a byte to what its register holds takes nothing off one that is in
\* range.
LEMMA NothingCut ==
    ASSUME NEW x \in Nat, NEW m \in 1..BASE, BASE % m = 0, x % BASE < m
    PROVE  x % m = x % BASE
<1> DEFINE b == BASE
           k == b \div m
           q == x \div b
           r == x % b
           c == k * q
           d == x \div m
           e == x % m
<1>1. b \in Nat \ {0} /\ m \in Nat \ {0} /\ x \in Int /\ b \in Int
  BY BaseFacts
<1>2. b = m * k + (b % m) /\ k \in Int
  BY <1>1, Division
<1>3. b = m * k
  BY <1>1, <1>2
<1>4. x = b * q + r /\ r \in 0..b - 1 /\ q \in Int
  <2> HIDE DEF b
  <2> QED  BY <1>1, Division
<1>5. x = m * d + e /\ e \in 0..m - 1 /\ d \in Int
  BY <1>1, Division
<1>6. r \in 0..m - 1
  BY <1>1, <1>4
<1> HIDE DEF b, k, q, r, d, e
<1>7. x = m * c + r
  <2>1. (m * k) * q = m * (k * q)
    BY <1>1, <1>2, <1>4
  <2> QED  BY <1>3, <1>4, <2>1
<1>8. c \in Int
  BY <1>2, <1>4
<1> HIDE DEF c
<1>9. r = e
  <2>1. m * c + r = m * d + e
    BY <1>5, <1>7
  <2>2. /\ m \in Nat \ {0} /\ c \in Int /\ d \in Int
        /\ r \in 0..m - 1 /\ e \in 0..m - 1
    BY <1>1, <1>5, <1>6, <1>8
  <2> QED  BY ONLY <2>1, <2>2, DivisionUnique
<1> QED  BY <1>9 DEF r, e, b

\* A number in range has no more digits than the group has registers, ...
LEMMA InRangeSmall ==
    ASSUME NEW v \in Nat, InRange(v)
    PROVE  v < Power(BASE, N)
<1> DEFINE p == Power(BASE, N - 1)
           q == v \div p
           r == v % p
           b == BASE
<1>1. N - 1 \in Nat /\ (N - 1) + 1 = N /\ 1 \in 1..N /\ v \in Int
  BY Sizes
<1>2. p \in Nat \ {0} /\ Power(BASE, N) = b * p /\ b \in Nat \ {0}
  BY <1>1, BaseFacts, PowerStep
<1>3. Limits[1] \in 1..BASE /\ q < Limits[1]
  BY <1>1, GroupAssumption DEF N, InRange, Shifted
<1> HIDE DEF p
<1>4. v = p * q + r /\ r \in 0..p - 1 /\ q \in Nat
  BY <1>1, <1>2, Division
<1>5. q <= b - 1
  BY <1>2, <1>3, <1>4
<1> HIDE DEF q, r, b
<1>6. q * p <= (b - 1) * p
  BY <1>2, <1>4, <1>5, Times
<1>7. (b - 1) * p = b * p - p /\ q * p = p * q /\ b * p \in Int /\ p * q \in Int
  BY <1>2, <1>4
<1> QED  BY <1>2, <1>4, <1>6, <1>7

\* ... and the bytes the setter writes are those digits.
LEMMA BytesAreDigits ==
    ASSUME NEW v \in Nat, InRange(v)
    PROVE  ByteSeq(v) = DigitsOf(BASE, v, N)
<1>1. ASSUME NEW i \in 1..N PROVE Byte(v, i) = Digit(BASE, v, N, i)
  <2> DEFINE x == Shifted(v, i)
             m == Limits[i]
  <2>1. x \in Nat
    BY Sizes, BaseFacts, DigitRange DEF Shifted
  <2>2. m \in 1..BASE /\ BASE % m = 0
    BY GroupAssumption DEF N
  <2>3. x % BASE < m
    <3>1. CASE i = 1
      <4>1. x < m
        BY <3>1 DEF InRange
      <4> HIDE DEF x, m
      <4> QED  BY <2>1, <2>2, <4>1, BaseFacts
    <3>2. CASE i # 1
      <4>1. i \in 2..N
        BY <3>2, Sizes
      <4> QED  BY <4>1 DEF InRange
    <3> QED  BY <3>1, <3>2
  <2> HIDE DEF x, m
  <2>4. x % m = x % BASE
    BY <2>1, <2>2, <2>3, NothingCut
  <2> QED  BY <2>4 DEF x, m, Byte, Shifted, Digit
<1> QED  BY <1>1 DEF ByteSeq, DigitsOf

\* So together they are the number.
LEMMA NumberOfBytes ==
    ASSUME NEW v \in Nat, InRange(v)
    PROVE  Number(ByteSeq(v)) = v
<1>1. v < Power(BASE, N) /\ ByteSeq(v) = DigitsOf(BASE, v, N)
  BY InRangeSmall, BytesAreDigits
<1>2. Value(BASE, DigitsOf(BASE, v, N)) = v
  BY <1>1, BaseFacts, Sizes, ValueOfDigits
<1> QED  BY <1>1, <1>2 DEF Number
-----------------------------------------------------------------------------
\* A group has as many numbers below its sign bit as above it, and a word is
\* wider than the group by a byte.
LEMMA Halves ==
    ASSUME NEW h, h = Whole \div 2
    PROVE  /\ h \in Nat \ {0} /\ Whole = 2 * h /\ Whole \in Nat \ {0}
           /\ Word = BASE * Whole /\ Word \div 2 \in Int
           /\ 2 * h <= Word \div 2 /\ Word - h >= Word \div 2
<1> DEFINE p == Power(BASE, ReadLen - 1)
           b == BASE
           c == b \div 2
<1>1. ReadLen - 1 \in Nat /\ (ReadLen - 1) + 1 = ReadLen /\ ReadLen \in Nat
  BY Sizes
<1>2. p \in Nat \ {0} /\ Whole = b * p /\ b \in Nat \ {0}
  BY <1>1, BaseFacts, PowerStep DEF Whole
<1>3. b = 2 * c /\ c \in Nat \ {0}
  BY BaseFacts
<1>4. Word = b * Whole
  BY <1>1, BaseFacts, PowerStep DEF Word, Whole
<1> HIDE DEF p, b, c
<1>5. Whole = 2 * (c * p) /\ c * p \in Nat \ {0}
  <2>1. (2 * c) * p = 2 * (c * p) /\ c * p \in Nat
    BY <1>2, <1>3
  <2>2. c * p # 0
    <3>1. p >= 1 /\ 1 <= c
      BY <1>2, <1>3
    <3>2. 1 * p <= c * p
      BY <1>2, <1>3, <3>1, Times
    <3> QED  BY <1>2, <2>1, <3>1, <3>2
  <2> QED  BY <1>2, <1>3, <2>1, <2>2
<1> DEFINE x == c * p
<1> HIDE DEF x
<1>6. h = x /\ Whole = 2 * x /\ x \in Nat \ {0}
  BY <1>5 DEF x
<1> DEFINE y == c * Whole
<1>7. Word = 2 * y /\ y \in Nat
  BY <1>3, <1>4, <1>6
<1>8. Whole <= y
  <2>1. 1 * Whole <= c * Whole
    <3>1. 1 <= c /\ c \in Int /\ 1 \in Int /\ Whole \in Nat
      BY <1>3, <1>6
    <3> QED  BY ONLY <3>1, Times
  <2> QED  BY <1>6, <2>1
<1> HIDE DEF y
<1>9. Word \div 2 = y
  BY <1>7
<1> QED  BY <1>4, <1>6, <1>7, <1>8, <1>9 DEF b

\* Of the numbers from -h to h - 1, one has a given remainder.
LEMMA OneResidue ==
    ASSUME NEW h \in Nat \ {0}, NEW W, W = 2 * h,
           NEW s \in -h..h - 1, NEW u \in -h..h - 1, s % W = u % W
    PROVE  s = u
<1>1. W \in Nat \ {0} /\ s \in Int /\ u \in Int
  OBVIOUS
<1>2. ASSUME NEW x \in -h..h - 1, NEW y \in -h..h - 1, x % W = y % W, y <= x
      PROVE  x = y
  <2> DEFINE j == x \div W
             k == y \div W
             r == y % W
             q == j - k
             e == x - y
  <2>1. W \in Nat \ {0} /\ x \in Int /\ y \in Int
    OBVIOUS
  <2>2. x = W * j + r /\ j \in Int
    <3>1. x = W * j + (x % W) /\ j \in Int
      BY <2>1, Division
    <3> QED  BY <1>2, <3>1
  <2>3. y = W * k + r /\ k \in Int /\ r \in Int
    <3>1. y = W * k + r /\ k \in Int /\ r \in 0..W - 1
      BY <2>1, Division
    <3> QED  BY <3>1, <2>1
  <2>4. e \in 0..W - 1 /\ 0 \in 0..W - 1
    BY <1>2
  <2> HIDE DEF j, k, r
  <2>5. W * q = W * j - W * k /\ q \in Int /\ W * j \in Int /\ W * k \in Int
    BY <2>1, <2>2, <2>3
  <2>6. W * q + 0 = W * 0 + e
    BY <2>1, <2>2, <2>3, <2>5
  <2>7. 0 = e
    <3>1. q \in Int /\ 0 \in Int
      BY <2>5
    <3> HIDE DEF q, e
    <3> QED  BY ONLY <2>1, <2>4, <2>6, <3>1, DivisionUnique
  <2> QED  BY <2>7
<1>3. s <= u \/ u <= s
  OBVIOUS
<1> QED  BY <1>2, <1>3

\* Extending the sign of a group gives what its number means.
LEMMA SignExact ==
    ASSUME NEW r \in [Addrs -> Bytes]
    PROVE  SignExtend(Number(Reading(r))) = Meaning(r)
<1> DEFINE raw == Number(Reading(r))
           W == Whole
           h == W \div 2
           s0 == IF raw >= h THEN raw - W ELSE raw
<1>1. /\ h \in Nat \ {0} /\ W = 2 * h /\ W \in Nat \ {0}
      /\ Word = BASE * W /\ Word \div 2 \in Int
      /\ 2 * h <= Word \div 2 /\ Word - h >= Word \div 2
  BY Halves
<1>2. raw \in 0..W - 1
  <2>1. Reading(r) \in [1..ReadLen -> 0..BASE - 1]
    BY ReadGroupFacts, BaseFacts DEF Reading
  <2>2. BASE \in Nat \ {0} /\ ReadLen \in Nat
    BY BaseFacts, Sizes
  <2> QED  BY <2>1, <2>2, ValueRange DEF Number, Whole
<1>3. BASE * W = (BASE - 1) * W + W /\ (BASE - 1) * W \in Int
  BY <1>1, BaseFacts
<1> HIDE DEF raw, W, h
<1>4. SignExtend(raw) = s0
  <2> DEFINE m == (BASE - 1) * W
  <2>1. CASE raw >= h
    <3>1. m = Word - W /\ m \in Int /\ Word \in Int
      BY <1>1, <1>3
    <3> HIDE DEF m
    <3>2. ~(raw + m < Word \div 2) /\ (raw + m) - Word = raw - W
      BY <1>1, <1>2, <2>1, <3>1
    <3> QED  BY <2>1, <3>2 DEF SignExtend, AsInt, m, W, h
  <2>2. CASE ~(raw >= h)
    <3>1. raw < Word \div 2
      BY <1>1, <1>2, <2>2
    <3> QED  BY <2>2, <3>1 DEF SignExtend, AsInt, W, h
  <2> QED  BY <2>1, <2>2
<1>5. s0 \in -h..h - 1
  BY <1>1, <1>2
<1>6. s0 % W = raw
  <2>1. PICK k \in Int : s0 = W * k + raw
    <3>1. CASE raw >= h
      <4>1. s0 = W * (-1) + raw
        BY <1>1, <1>2, <3>1
      <4> QED  BY <4>1
    <3>2. CASE ~(raw >= h)
      <4>1. s0 = W * 0 + raw
        BY <1>1, <1>2, <3>2
      <4> QED  BY <4>1
    <3> QED  BY <3>1, <3>2
  <2>2. s0 \in Int
    BY <1>1, <1>5
  <2> HIDE DEF s0
  <2>3. s0 = W * (s0 \div W) + (s0 % W) /\ s0 % W \in 0..W - 1 /\ s0 \div W \in Int
    BY <1>1, <2>2, Division
  <2> DEFINE q == s0 \div W
             e == s0 % W
  <2>4. /\ W \in Nat \ {0} /\ q \in Int /\ k \in Int /\ e \in 0..W - 1
        /\ raw \in 0..W - 1 /\ W * q + e = W * k + raw
    BY <1>1, <1>2, <2>1, <2>3
  <2> HIDE DEF q, e
  <2>5. e = raw
    BY ONLY <2>4, DivisionUnique
  <2> QED  BY <2>5 DEF e
<1> DEFINE Means(s) == 2 * s >= -W /\ 2 * s < W /\ s % W = raw
<1>7. Meaning(r) = CHOOSE s \in -W..W : Means(s)
  BY DEF Meaning, W, raw
<1>8. \A s \in -W..W : Means(s) => s \in -h..h - 1 /\ s % W = raw
  BY <1>1
<1>9. s0 \in -W..W /\ Means(s0)
  BY <1>1, <1>5, <1>6
<1> HIDE DEF Means, s0
<1>10. \A s \in -W..W : Means(s) => s = s0
  BY <1>1, <1>5, <1>6, <1>8, OneResidue
<1>11. (CHOOSE s \in -W..W : Means(s)) = s0
  BY <1>9, <1>10
<1> QED  BY <1>4, <1>7, <1>11 DEF raw
-----------------------------------------------------------------------------
\* The invariant holds in every reachable state.
LEMMA RegsAlways == Spec => []RegsInv
BY RegsInit, RegsStep, PTL DEF Spec

\* No call gets past the registers of its group, and no register is given a value
\* it cannot hold, for groups of any length and any number of callers.
THEOREM TypeCorrect == Spec => []TypeOK
<1>1. RegsInv => TypeOK
  BY DEF RegsInv
<1> QED  BY <1>1, RegsAlways, PTL

\* A latching group never takes the bytes of two setters, unless they overlapped,
\* whatever writes fail and wherever the device is reset.
THEOREM LatchedWhole == Spec => LatchesWhole
<1>1. RegsInv /\ [Next]_regsVars
        => [latched' = latched \/ latched' = DefaultLatched
              \/ \E t \in InSetter :
                    disturbed[t] \/ latched' = ByteSeq(arg[t])]_regsVars
  BY WholeStep
<1> QED  BY <1>1, RegsAlways, PTL DEF Spec, LatchesWhole

\* A setter that returns NSTAR_OK, and was alone with the device, leaves the number
\* it was called with in force, for groups of any length, any limits that divide a
\* byte and any number.
THEOREM SetterTakesEffect == Spec => SetTakesEffect
<1>1. RegsInv /\ Checked /\ [Next]_regsVars
        => [\A t \in Setters : Succeeds(t) /\ ~disturbed[t]
                                 => Number(latched') = arg[t]]_regsVars
  <2> SUFFICES ASSUME RegsInv, Checked, [Next]_regsVars,
                      NEW t \in Setters, Succeeds(t), ~disturbed[t]
               PROVE  Number(latched') = arg[t]
    OBVIOUS
  <2>1. latched' = ByteSeq(arg[t]) /\ InRange(arg[t])
    BY SetStep, TakesEffect DEF Checked
  <2>2. arg[t] \in Nat
    BY DEF RegsInv, TypeOK
  <2> QED  BY <2>1, <2>2, NumberOfBytes
<1>2. Spec => []Checked
  BY RegsAlways, CheckedInit, CheckedStep, PTL DEF Spec
<1> QED  BY <1>1, <1>2, RegsAlways, PTL DEF Spec, SetTakesEffect

\* A read that returns NSTAR_OK gives the number the device has, sign and all, if
\* the group did not change in between, for groups of any length.
THEOREM ReadsExact == Spec => ReadExact
<1>1. RegsInv /\ [Next]_regsVars
        => [\A t \in Getters : Succeeds(t) /\ ~moved[t]
              => /\ Number(buf'[t]) = Number(Reading(regs))
                 /\ SignExtend(Number(buf'[t])) = Meaning(regs)]_regsVars
  <2> SUFFICES ASSUME RegsInv, [Next]_regsVars,
                      NEW t \in Getters, Succeeds(t), ~moved[t]
               PROVE  /\ Number(buf'[t]) = Number(Reading(regs))
                      /\ SignExtend(Number(buf'[t])) = Meaning(regs)
    OBVIOUS
  <2>1. buf'[t] = Reading(regs)
    BY ReadStep
  <2>2. regs \in [Addrs -> Bytes]
    BY DEF RegsInv, TypeOK
  <2> QED  BY <2>1, <2>2, SignExact
<1> QED  BY <1>1, RegsAlways, PTL DEF Spec, ReadExact
=============================================================================
