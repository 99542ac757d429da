---------------------------- MODULE NstarDevice -----------------------------
(***************************************************************************)
(* The device behind the UART: its registers and its command handler, as   *)
(* handleCommand of the simulator nstar_sim.c has them. A command is what  *)
(* the entry points of ttc_nstar.c encode: R and W of a register, V (the   *)
(* identity), E (all RX status registers) and C (reset).                   *)
(* Registers change by commands only: what the test process changes behind *)
(* the host's back (the control file) and the clock bit that a read of     *)
(* TX_STATUS adds are left out; NstarContext has the clock.                *)
(***************************************************************************)
EXTENDS Integers, Sequences

CONSTANTS Addrs,          \* register addresses
          Bytes,          \* register values
          Defaults,       \* values of the registers after a reset
          IdentityRegs,   \* the registers a V answer carries, in order
          StatusRegs      \* the registers an E answer carries, in order

ASSUME RegistersAssumption ==
    /\ Bytes \subseteq Nat /\ 0 \in Bytes
    /\ Defaults \in [Addrs -> Bytes]
    /\ IdentityRegs \in Seq(Addrs)
    /\ StatusRegs \in Seq(Addrs)

Commands == [op : {"R"}, addr : Addrs]
              \cup [op : {"W"}, addr : Addrs, val : Bytes]
              \cup [op : {"V", "E", "C"}]

NoCommand == [op |-> "none"]

ACK_OK == <<0>>

\* The registers an R, V or E command asks for, in the order of the answer.
Reads(cmd) ==
    IF cmd.op = "R" THEN <<cmd.addr>>
    ELSE IF cmd.op = "V" THEN IdentityRegs
    ELSE StatusRegs

Registers(addrs, regs) == [i \in 1..Len(addrs) |-> regs[addrs[i]]]

\* What a command does to the registers.
Effect(cmd, regs) ==
    IF cmd.op = "W" THEN [regs EXCEPT ![cmd.addr] = cmd.val]
    ELSE IF cmd.op = "C" THEN Defaults
    ELSE regs

\* The CMD_ID and the payload the device answers a command with.
Answer(cmd, regs) ==
    IF cmd.op \in {"W", "C"} THEN [id |-> "A", data |-> ACK_OK]
    ELSE [id |-> cmd.op, data |-> Registers(Reads(cmd), regs)]

\* The device has carried the command out: once more would change nothing.
Done(cmd, regs) == Effect(cmd, regs) = regs
=============================================================================
