------------------------------- MODULE MCRegs -------------------------------
(***************************************************************************)
(* NstarRegs with a latching group of three registers, whose first byte is *)
(* narrower, as in RX_SENSITIVITY, and a group of two to read, on both     *)
(* sides of the sign bit.                                                  *)
(***************************************************************************)
EXTENDS NstarRegs

MCAddrs == 0..7
MCDefaults == [a \in 0..7 |-> IF a \in {2, 6} THEN 3 ELSE 0]
MCSetGroup == <<4, 5, 6>>
MCLimits == <<2, 4, 4>>
MCMeasured == {<<1, 3>>, <<2, 0>>}
MCEmpty == <<>>
=============================================================================
