----------------------------- MODULE NstarDigits -----------------------------
(***************************************************************************)
(* Numbers and the digits that stand for them, as the code shifts them     *)
(* together and takes them apart: the bytes of a register group, the hex   *)
(* characters of a frame, the bits of a CRC.                               *)
(***************************************************************************)
EXTENDS Integers, Sequences

\* What a shift by n digits multiplies by.
Power(base, n) ==
    LET power[k \in 0..n] == IF k = 0 THEN 1 ELSE base * power[k - 1]
    IN  power[n]

\* The i-th of n digits, the most significant first.
Digit(base, v, n, i) == (v \div Power(base, n - i)) % base
DigitsOf(base, v, n) == [i \in 1..n |-> Digit(base, v, n, i)]

\* (d[1] << s | d[2]) << s | ..., where a shift by s multiplies by base.
Value(base, d) ==
    LET upTo[i \in 0..Len(d)] == IF i = 0 THEN 0 ELSE upTo[i - 1] * base + d[i]
    IN  upTo[Len(d)]
=============================================================================
