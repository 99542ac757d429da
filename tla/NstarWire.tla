----------------------------- MODULE NstarWire ------------------------------
(***************************************************************************)
(* One direction of the UART, character by character: frames are written   *)
(* one after the other by write(), and every read() takes some of the      *)
(* characters that have arrived and hands them to nstarFrameDecode, as     *)
(* cmdqSendReceive and the simulator's loop do. Noise alters at most one   *)
(* character of a frame.                                                   *)
(*                                                                         *)
(* NstarUart takes from here what a reader can tell (its Decoded).         *)
(***************************************************************************)
EXTENDS NstarFrame, FiniteSets

CONSTANTS Payloads,      \* frames that are written
          NoiseChars,    \* what noise may turn a character into
          MAX_WAITING,   \* bound on the frames not entirely read
          MAX_NOISY,     \* bound on the characters waiting when noise hits
          FRAME_BUF_MAX  \* NSTAR_FRAME_BUF_MAX: the most one read() takes

ASSUME CharsAssumption ==
    Payloads \subseteq Frames /\ NoiseChars \subseteq Byte

VARIABLES crcEnabled,    \* the build has NSTAR_CRC_ENABLED
          stream,        \* characters written and not yet read
          waiting,       \* history: the frames of the stream, see Entry
          got,           \* what the last step decoded, if it was a read
          took           \* history: the entries that read took exactly

wireVars == <<crcEnabled, stream, waiting, got, took>>

\* A frame whose characters are from..to of the stream; from <= 0 once its
\* first characters have been read.
Entry(f, from, to) == [frame |-> f, from |-> from, to |-> to, hit |-> FALSE]

Nothing == Failure("none")

Init ==
    /\ crcEnabled \in BOOLEAN
    /\ stream = <<>>
    /\ waiting = {}
    /\ got = Nothing
    /\ took = {}

\* The caller of nstarFrameEncode writes the whole frame, or nothing.
Write ==
    \E f \in Payloads :
        /\ Cardinality(waiting) < MAX_WAITING
        /\ Encodable(f)
        /\ stream' = stream \o Encode(crcEnabled, f)
        /\ waiting' = waiting \cup {Entry(f, Len(stream) + 1, Len(stream'))}
        /\ got' = Nothing
        /\ took' = {}
        /\ UNCHANGED crcEnabled

Noise ==
    /\ Len(stream) <= MAX_NOISY
    /\ \E e \in waiting, c \in NoiseChars :
         /\ ~e.hit
         /\ \E i \in DOMAIN stream \cap (e.from)..(e.to) :
              stream' = [stream EXCEPT ![i] = c]
         /\ waiting' = (waiting \ {e}) \cup {[e EXCEPT !.hit = TRUE]}
    /\ got' = Nothing
    /\ took' = {}
    /\ UNCHANGED crcEnabled

Shifted(e, n) == [e EXCEPT !.from = e.from - n, !.to = e.to - n]

Read ==
    \E n \in DOMAIN stream \cap 1..FRAME_BUF_MAX :
        /\ stream' = SubSeq(stream, n + 1, Len(stream))
        /\ waiting' = {Shifted(e, n) : e \in {w \in waiting : w.to > n}}
        /\ got' = Decode(crcEnabled, SubSeq(stream, 1, n))
        /\ took' = {e \in waiting : e.from = 1 /\ e.to = n}
        /\ UNCHANGED crcEnabled

Next == Write \/ Noise \/ Read

Spec == Init /\ [][Next]_wireVars
-----------------------------------------------------------------------------
\* Whatever a read() takes from the stream, part of a frame, the end of one
\* and the beginning of the next, or several, is decoded only if it is one
\* whole frame, and then as that frame; the CRC build says so of frames with
\* an altered character too.
OnlyWholeFrames ==
    got.rc = "OK" =>
        \E e \in took : (e.hit => crcEnabled) => got.frame = e.frame

\* A frame that is not altered and is read in one piece is decoded, whatever
\* its payload: the size field and the hex digits have room for it.
WholeFramesRead ==
    \A e \in took : ~e.hit => got = Result("OK", e.frame)

\* Division of a polynomial over GF(2) by x^16 + x^12 + x^5 + 1, one
\* coefficient after the other: what is left after the next one.
Divide(rem, bit) ==
    LET r == 2 * rem + bit
    IN  IF r >= 65536 THEN Xor(r - 65536, 4096 + 32 + 1) ELSE r

\* After the eight of a character, the highest first.
Divided8(before, c) ==
    Passes(before, 0, 8, [k \in 1..8 |-> [rem \in Word |-> Divide(rem, Digit(2, c, 8, k))]])

Remainder(chars) ==
    Loop(Word, 0, Len(chars),
         [i \in 1..Len(chars) |-> [rem \in Word |-> Divided8(rem, chars[i])]])

\* The CRC in a frame is CRC16-XMODEM of everything before it, the second
\* separator included, as ttc_nstar_frame.c and its tests have it, and not as
\* ttc_nstar.h and README.md do, which leave the separator out: these characters,
\* multiplied by x^16, leave it as their remainder.
CRCIsRemainder ==
    \A e \in waiting :
        waiting = {e} /\ e.from = 1 /\ ~e.hit /\ crcEnabled =>
            Remainder(SubSeq(stream, 1, Len(stream) - 5) \o <<0, 0>>)
              = HexValue(SubSeq(stream, Len(stream) - 4, Len(stream) - 1))
=============================================================================
