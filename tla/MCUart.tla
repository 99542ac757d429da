------------------------------- MODULE MCUart -------------------------------
(***************************************************************************)
(* Small instances of NstarUart: two threads, two registers of which the   *)
(* first is the identity's, two values.                                    *)
(***************************************************************************)
EXTENDS NstarUart

MCDefaults == [a \in Addrs |-> IF a = 1 THEN 1 ELSE 0]
MCIdentityRegs == <<1, 1>>
MCStatusRegs == <<2>>

=============================================================================
