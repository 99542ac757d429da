------------------------------- MODULE MCGpio -------------------------------
(***************************************************************************)
(* NstarGpio with the waits of the RX thread and of the fault thread.      *)
(***************************************************************************)
EXTENDS NstarGpio

MCThreads == {"rx", "fault"}
MCWaits == [rx |-> {<<"LOCK_DETECT", "rising">>, <<"DATA_VALID", "rising">>},
            fault |-> {<<"FAULT_N", "rising">>, <<"FAULT_N", "falling">>}]
=============================================================================
