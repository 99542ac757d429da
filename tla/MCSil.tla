------------------------------- MODULE MCSil --------------------------------
(***************************************************************************)
(* NstarSil with a script of the test process: a stop that may complete a  *)
(* transmission, and a write that may be out of range.                     *)
(***************************************************************************)
EXTENDS NstarSil

MCScript == <<"TX_STOP", "TX_WRITE">>
=============================================================================
