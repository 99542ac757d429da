----------------------------- MODULE NstarFrame -----------------------------
(***************************************************************************)
(* The UART frame codec of ttc_nstar_frame.c: nstarFrameEncode,            *)
(* nstarFrameDecode and nstarCRC16Xmodem, with and without                 *)
(* NSTAR_CRC_ENABLED (the parameter crc). A frame on the wire is the       *)
(* sequence of its characters, as ASCII codes.                             *)
(***************************************************************************)
EXTENDS NstarDigits

START == 60               \* '<'
END   == 62               \* '>'
SEP   == 58               \* ':'

\* The most payload bytes nstarFrameEncode takes.
MAX_PAYLOAD == 127

MinLen(crc) == IF crc THEN 11 ELSE 6

NibbleToHex(n) == IF n < 10 THEN 48 + n ELSE 65 + n - 10

HexToNibble(c) ==
    IF c \in 48..57 THEN c - 48
    ELSE IF c \in 65..70 THEN c - 65 + 10
    ELSE IF c \in 97..102 THEN c - 97 + 10
    ELSE -1

IsHex(chars) == \A i \in DOMAIN chars : HexToNibble(chars[i]) >= 0

\* The low n nibbles of a number as n hex digits, and back.
HexDigits(value, n) == [i \in 1..n |-> NibbleToHex(Digit(16, value, n, i))]

HexValue(chars) == Value(16, [i \in DOMAIN chars |-> HexToNibble(chars[i])])

HexEncode(data) ==
    [i \in 1..(2 * Len(data)) |-> HexDigits(data[(i + 1) \div 2], 2)[2 - (i % 2)]]

HexDecode(chars) ==
    [i \in 1..(Len(chars) \div 2) |-> HexValue(SubSeq(chars, 2 * i - 1, 2 * i))]

\* Passes i + 1 to i + n of a loop, each of which makes of one value the next, ...
Passes(start, i, n, pass) ==
    LET after[k \in 0..n] == IF k = 0 THEN start ELSE pass[i + k][after[k - 1]]
    IN  after[n]

\* ... and a whole loop of n passes over values of T, in rows of 16: TLC then nests few
\* evaluations.
Loop(T, start, n, pass) ==
    LET Rest(j) == n - 16 * (j - 1)
        rows == [j \in 1..(n + 15) \div 16 |-> [value \in T |->
                    Passes(value, 16 * (j - 1), IF Rest(j) < 16 THEN Rest(j) ELSE 16, pass)]]
    IN  Passes(start, 0, (n + 15) \div 16, rows)

\* The values of a uint8_t and of a uint16_t
UINT8_MAX == 255
UINT16_MAX == 65535
Byte == 0..UINT8_MAX
Word == 0..UINT16_MAX

\* Exclusive or, of two bytes in a table, and of two words.
XorOfBytes ==
    [a \in Byte |-> [b \in Byte |->
        Value(2, [i \in 1..8 |->
                     IF Digit(2, a, 8, i) = Digit(2, b, 8, i) THEN 0 ELSE 1])]]
Xor(a, b) == 256 * XorOfBytes[a \div 256][b \div 256] + XorOfBytes[a % 256][b % 256]

\* The inner loop: one bit, then the eight of a character.
ShiftCRC(crc) ==
    IF crc >= 32768 THEN Xor((2 * crc) % 65536, 4129) ELSE 2 * crc
Shifted8 ==
    [crc \in Word |->
        Passes(crc, 0, 8, [bit \in 1..8 |-> [before \in Word |-> ShiftCRC(before)]])]
AddChar(crc, c) == Shifted8[Xor(crc, c * 256)]

\* The loop over the characters.
CRCFrom(start, chars) ==
    Loop(Word, start, Len(chars),
         [i \in 1..Len(chars) |-> [crc \in Word |-> AddChar(crc, chars[i])]])

\* Mutant: another initial value.
CRC16FromOnes(chars) == CRCFrom(UINT16_MAX, chars)

CRC16(chars) == CRCFrom(0, chars)
-----------------------------------------------------------------------------
\* What there is to encode: an identifier and bytes.
Frames == [id : Byte, data : Seq(Byte)]

Frame(id, data) == [id |-> id, data |-> data]
Result(rc, frame) == [rc |-> rc, frame |-> frame]
Failure(rc) == Result(rc, Frame(0, <<>>))

\* Mutant: one byte more than two size digits can tell.
EncodableAny(f) == Len(f.data) <= MAX_PAYLOAD + 1

\* Otherwise NSTAR_ERR_PARAM.
Encodable(f) == Len(f.data) <= MAX_PAYLOAD

\* From '<' up to and including the second separator.
Protected(f) ==
    <<START, f.id>> \o HexDigits(2 * Len(f.data), 2) \o <<SEP>>
        \o HexEncode(f.data) \o <<SEP>>

Encode(crc, f) ==
    Protected(f) \o (IF crc THEN HexDigits(CRC16(Protected(f)), 4) ELSE <<>>)
                 \o <<END>>

\* Number of characters in DATA, and where the second separator must be.
DataSize(buf) == HexValue(SubSeq(buf, 3, 4))
Sep2(buf) == 6 + DataSize(buf)

\* Mutant: what follows the CRC is not looked at.
FramedAtLeast(crc, buf) ==
    /\ Len(buf) >= MinLen(crc)
    /\ buf[1] = START /\ buf[Len(buf)] = END
    /\ IsHex(SubSeq(buf, 3, 4))
    /\ buf[5] = SEP
    /\ Sep2(buf) + (IF crc THEN 5 ELSE 1) <= Len(buf)
    /\ buf[Sep2(buf)] = SEP
    /\ crc => IsHex(SubSeq(buf, Sep2(buf) + 1, Sep2(buf) + 4))

\* Delimiters, separators and the length are right.
Framed(crc, buf) ==
    /\ Len(buf) >= MinLen(crc)
    /\ buf[1] = START /\ buf[Len(buf)] = END
    /\ IsHex(SubSeq(buf, 3, 4))
    /\ buf[5] = SEP
    /\ Sep2(buf) + (IF crc THEN 5 ELSE 1) = Len(buf)
    /\ buf[Sep2(buf)] = SEP
    /\ crc => IsHex(SubSeq(buf, Sep2(buf) + 1, Sep2(buf) + 4))

CRCMatches(buf) ==
    CRC16(SubSeq(buf, 1, Sep2(buf)))
        = HexValue(SubSeq(buf, Sep2(buf) + 1, Sep2(buf) + 4))

Decode(crc, buf) ==
    LET chars == SubSeq(buf, 6, Sep2(buf) - 1)
    IN  IF ~Framed(crc, buf) THEN Failure("BAD_FRAME")
        ELSE IF crc /\ ~CRCMatches(buf) THEN Failure("CRC")
        ELSE IF Len(chars) % 2 # 0 \/ ~IsHex(chars) THEN Failure("BAD_FRAME")
        ELSE Result("OK", Frame(buf[2], HexDecode(chars)))
=============================================================================
