------------------------------ MODULE NstarRegs ------------------------------
(***************************************************************************)
(* The entry points of ttc_nstar.c that need several registers for one     *)
(* value: the setters of latching registers (NSTAR_SetRXSensitivity,       *)
(* NSTAR_SetTXFilter, NSTAR_SetRXFrequency, NSTAR_SetTXFrequency) and the  *)
(* readers built on NSTAR_RegReadMulti (readADCTemp, and the groups of     *)
(* NSTAR_RXGetLinkQuality one after the other).                            *)
(*                                                                         *)
(* Each takes uartMutex once per register, so other threads' commands, a   *)
(* reset and the transponder's own changes come between the registers. A   *)
(* single register command is one step, as NstarCommand promises: carried  *)
(* out and answered, or failed, carried out or not.                        *)
(***************************************************************************)
EXTENDS NstarDevice, NstarDigits

CONSTANTS
    Setters,      \* threads that call a setter of one group
    Getters,      \* threads that read another group
    SetGroup,     \* addresses of the latching group, most significant first
    Limits,       \* Limits[i]: the values byte i of the group may take
    ReadStart,    \* first address of the group that is read
    ReadLen,      \* its number of registers
    BASE,         \* values of a byte
    REG_COUNT,    \* register addresses, all values of a uint8_t
    Values,       \* arguments the setters are called with
    Measured      \* byte sequences the transponder puts in the group that is read

ASSUME GroupAssumption ==
    /\ Addrs = 0..REG_COUNT - 1 /\ Bytes = 0..BASE - 1
    /\ BASE \in Nat \ {0} /\ BASE % 2 = 0 /\ REG_COUNT \in Nat \ {0}
    /\ SetGroup \in Seq(Addrs) /\ Len(SetGroup) > 0
    /\ \A i, j \in DOMAIN SetGroup : SetGroup[i] = SetGroup[j] => i = j
    /\ Limits \in [DOMAIN SetGroup -> 1..BASE]
    /\ \A i \in DOMAIN SetGroup : BASE % Limits[i] = 0
    /\ ReadStart \in Addrs /\ ReadLen \in 1..REG_COUNT
    /\ Values \subseteq Nat /\ Measured \subseteq [1..ReadLen -> Bytes]
    /\ Setters \cap Getters = {}

Callers == Setters \cup Getters

N == Len(SetGroup)
LatchAddr == SetGroup[N]

\* The address of register i of RegReadMulti: a uint8_t.
ReadAddr(i) == (ReadStart + i - 1) % REG_COUNT
ReadAddrs == {ReadAddr(i) : i \in 1..ReadLen}

\* No register belongs to both groups.
ASSUME ApartAssumption == \A i \in 1..N : SetGroup[i] \notin ReadAddrs

\* A setter's arguments side by side, as one number of N bytes; InRange is the
\* check at the head of each setter.
Shifted(v, i) == v \div Power(BASE, N - i)

\* Mutant: no check; the bits that do not fit are cut off.
InRangeAny(v) == TRUE

InRange(v) ==
    /\ Shifted(v, 1) < Limits[1]
    /\ \A i \in 2..N : Shifted(v, i) % BASE < Limits[i]

Byte(v, i) == Shifted(v, i) % Limits[i]
ByteSeq(v) == [i \in 1..N |-> Byte(v, i)]

\* (b[1] << 8 | b[2]) << 8 | ...
Number(b) == Value(BASE, b)

\* The numbers of a group that is read, and those of a word it is extended to.
Whole == Power(BASE, ReadLen)
Word == Power(BASE, ReadLen + 1)
AsInt(w) == IF w < Word \div 2 THEN w ELSE w - Word

\* freqShiftHz: raw | 0xFF000000 when the sign bit of the group is set.
SignExtend(raw) ==
    IF raw >= Whole \div 2 THEN AsInt(raw + (BASE - 1) * Whole)
    ELSE AsInt(raw)
-----------------------------------------------------------------------------
VARIABLES
    regs,         \* the registers as R finds them
    latched,      \* the value of the latching group that is in force
    pc,           \* pc[t]: the entry point t is in, or what its last call returned
    at,           \* at[t]: the register it has come to
    arg,          \* arg[t]: the argument of a setter
    buf,          \* buf[t]: the bytes of a reader, as an earlier call left them
    disturbed,    \* history: another setter or a reset came into t's call
    moved         \* history: the group changed during t's call

deviceVars == <<regs, latched>>
threadVars == <<pc, at, arg, buf>>
regsVars == <<deviceVars, threadVars, disturbed, moved>>

Reading(r) == [i \in 1..ReadLen |-> r[ReadAddr(i)]]
DefaultLatched == [i \in 1..N |-> Defaults[SetGroup[i]]]

Init ==
    /\ regs = Defaults /\ latched = DefaultLatched
    /\ pc = [t \in Callers |-> "ok"] /\ at = [t \in Callers |-> 1]
    /\ arg = [t \in Setters |-> 0]
    /\ buf = [t \in Getters |-> [i \in 1..ReadLen |-> 0]]
    /\ disturbed = [t \in Setters |-> FALSE]
    /\ moved = [t \in Getters |-> FALSE]

\* A command reaches the device. Writing the last address of a latching group
\* puts the group as it then stands in force.
CarryOut(cmd) ==
    /\ regs' = Effect(cmd, regs)
    /\ latched' = IF cmd.op = "C" THEN DefaultLatched
                  ELSE IF cmd.op = "W" /\ cmd.addr = LatchAddr
                       THEN [i \in 1..N |-> regs'[SetGroup[i]]]
                  ELSE latched

\* The group a reader reads may have changed under it.
NoteMoved ==
    moved' = [t \in Getters |-> \/ moved[t]
                                \/ pc[t] = "get" /\ Reading(regs') # Reading(regs)]

Idle(t) == pc[t] \in {"ok", "error"}

Return(t, result) ==
    /\ pc' = [pc EXCEPT ![t] = result]
    /\ at' = [at EXCEPT ![t] = 1]

\* Mutant: one register too many.
AdvancePast(t, last) ==
    IF at[t] > last THEN Return(t, "ok")
    ELSE at' = [at EXCEPT ![t] = @ + 1] /\ UNCHANGED pc

\* The register is done, with NSTAR_OK: the next one, if there is one.
Advance(t, last) ==
    IF at[t] = last THEN Return(t, "ok")
    ELSE at' = [at EXCEPT ![t] = @ + 1] /\ UNCHANGED pc
-----------------------------------------------------------------------------
InSetter == {t \in Setters : pc[t] = "set"}

\* NSTAR_Set...: a call that is in range overlaps those under way.
Set(t, v) ==
    /\ Idle(t)
    /\ InRange(v)
    /\ pc' = [pc EXCEPT ![t] = "set"]
    /\ arg' = [arg EXCEPT ![t] = v]
    /\ disturbed' = [s \in Setters |->
                        IF s = t THEN InSetter # {}
                        ELSE disturbed[s] \/ s \in InSetter]
    /\ UNCHANGED <<deviceVars, at, buf, moved>>

SetRejected(t, v) ==
    /\ Idle(t)
    /\ ~InRange(v)
    /\ Return(t, "error")
    /\ UNCHANGED <<deviceVars, arg, buf, disturbed, moved>>

WriteCommand(t) ==
    [op |-> "W", addr |-> SetGroup[at[t]], val |-> Byte(arg[t], at[t])]

\* NSTAR_RegWrite of the next byte returns NSTAR_OK.
WriteByte(t) ==
    /\ pc[t] = "set"
    /\ CarryOut(WriteCommand(t))
    /\ NoteMoved
    /\ Advance(t, N)
    /\ UNCHANGED <<arg, buf, disturbed>>

\* Mutant: the next byte is written all the same.
WriteGoesOn(t) ==
    /\ pc[t] = "set"
    /\ UNCHANGED deviceVars
    /\ NoteMoved
    /\ IF at[t] = N THEN Return(t, "error")
                    ELSE at' = [at EXCEPT ![t] = @ + 1] /\ UNCHANGED pc
    /\ UNCHANGED <<arg, buf, disturbed>>

\* It fails, carried out or not; the bytes written so far stay.
WriteFails(t) ==
    /\ pc[t] = "set"
    /\ CarryOut(WriteCommand(t)) \/ UNCHANGED deviceVars
    /\ NoteMoved
    /\ Return(t, "error")
    /\ UNCHANGED <<arg, buf, disturbed>>

\* NSTAR_RegReadMulti
Get(t) ==
    /\ Idle(t)
    /\ pc' = [pc EXCEPT ![t] = "get"]
    /\ moved' = [moved EXCEPT ![t] = FALSE]
    /\ UNCHANGED <<deviceVars, at, arg, buf, disturbed>>

ReadByte(t) ==
    /\ pc[t] = "get"
    /\ buf' = [buf EXCEPT ![t][at[t]] = regs[ReadAddr(at[t])]]
    /\ Advance(t, ReadLen)
    /\ UNCHANGED <<deviceVars, arg, disturbed, moved>>

\* Mutant: the byte an earlier call left is taken.
ReadSkips(t) ==
    /\ pc[t] = "get"
    /\ Advance(t, ReadLen)
    /\ UNCHANGED <<deviceVars, arg, buf, disturbed, moved>>

ReadFails(t) ==
    /\ pc[t] = "get"
    /\ Return(t, "error")
    /\ UNCHANGED <<deviceVars, arg, buf, disturbed, moved>>
-----------------------------------------------------------------------------
Disturb == disturbed' = [s \in Setters |-> disturbed[s] \/ s \in InSetter]

\* NSTAR_CMDReset of another thread, or the device restarts (RESET_N).
Reset ==
    /\ CarryOut([op |-> "C"])
    /\ Disturb
    /\ NoteMoved
    /\ UNCHANGED threadVars

\* The transponder measures anew: all registers of a group change at once.
Measure(new) ==
    /\ regs' = [a \in Addrs |->
                   IF a \in ReadAddrs
                   THEN new[CHOOSE i \in 1..ReadLen : ReadAddr(i) = a]
                   ELSE regs[a]]
    /\ NoteMoved
    /\ UNCHANGED <<latched, threadVars, disturbed>>

Setter == \E t \in Setters :
              \/ \E v \in Values : Set(t, v) \/ SetRejected(t, v)
              \/ WriteByte(t) \/ WriteFails(t)
Getter == \E t \in Getters : Get(t) \/ ReadByte(t) \/ ReadFails(t)
Device == Reset \/ \E new \in Measured : Measure(new)

Next == Setter \/ Getter \/ Device

Spec == Init /\ [][Next]_regsVars
-----------------------------------------------------------------------------
\* The state is well formed: no call gets past the registers of its group, and
\* every byte that is written is one its register can hold.
TypeOK ==
    /\ regs \in [Addrs -> Bytes] /\ latched \in [1..N -> Bytes]
    /\ pc \in [Callers -> {"ok", "error", "set", "get"}]
    /\ at \in [Callers -> Nat]
    /\ \A t \in Setters : pc[t] # "get" /\ at[t] \in 1..N
    /\ \A t \in Getters : pc[t] # "set" /\ at[t] \in 1..ReadLen
    /\ arg \in [Setters -> Nat]
    /\ buf \in [Getters -> [1..ReadLen -> Bytes]]
    /\ disturbed \in [Setters -> BOOLEAN] /\ moved \in [Getters -> BOOLEAN]

\* A value comes into force only as a whole: the value of the setter that is
\* writing, unless another one or a reset came into its call. In particular the
\* bytes a setter that failed has left in the group are never latched with
\* those of the next.
LatchesWhole ==
    [][latched' = latched \/ latched' = DefaultLatched
         \/ \E t \in InSetter : disturbed[t] \/ latched' = ByteSeq(arg[t])]_regsVars

Succeeds(t) == ~Idle(t) /\ pc'[t] = "ok"

\* A setter that returns NSTAR_OK, and was alone with the device, leaves the
\* number it was called with in force.
SetTakesEffect ==
    [][\A t \in Setters : Succeeds(t) /\ ~disturbed[t]
                            => Number(latched') = arg[t]]_regsVars

\* The value a two's complement number of the group's width stands for.
Meaning(r) == CHOOSE s \in -Whole..Whole :
                  /\ 2 * s >= -Whole /\ 2 * s < Whole
                  /\ s % Whole = Number(Reading(r))

\* A read that returns NSTAR_OK gives the number the device has, if that did not
\* change in between; the bytes of different moments are never told apart.
ReadExact ==
    [][\A t \in Getters : Succeeds(t) /\ ~moved[t]
         => /\ Number(buf'[t]) = Number(Reading(regs))
            /\ SignExtend(Number(buf'[t])) = Meaning(regs)]_regsVars
=============================================================================
