------------------------------- MODULE MCWire -------------------------------
(***************************************************************************)
(* NstarWire with frames of every shape the commands have, and with the    *)
(* longest payload that can be encoded and the first that cannot.          *)
(***************************************************************************)
EXTENDS NstarWire

Bytes(n) == [i \in 1..n |-> 240]

MCPayloads == {Frame(86, <<>>), Frame(82, <<16>>),
               Frame(87, <<64, 1>>), Frame(69, Bytes(19)), Frame(69, Bytes(127)),
               Frame(69, Bytes(128))}
\* '>', ':', '0', 'a'
MCNoiseChars == {62, 58, 48, 97}
=============================================================================
