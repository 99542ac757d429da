-------------------------- MODULE NstarWireProofs ---------------------------
(***************************************************************************)
(* Proofs about the frame codec and the stream it is used on. Whatever has *)
(* been encoded is decoded again, for every frame, in both builds; the CRC *)
(* is the remainder that defines CRC16-XMODEM, and tells a single altered  *)
(* character. So a frame that noise spares and read() takes in one piece   *)
(* arrives, and nothing else does.                                         *)
(***************************************************************************)
EXTENDS NstarWire, NstarDigitsProofs, SequenceTheorems

\* What the passes of a loop make of its first value, one after the other
Trace(p, T, start, i, n, pass) ==
    /\ p[0] = start /\ \A k \in 1..n : p[k] = pass[i + k][p[k - 1]]
    /\ \A k \in 0..n : p[k] \in T
    /\ Passes(start, i, n, pass) = p[n]

\* A loop whose passes stay among the values of T goes through some of them, ...
LEMMA PassesTrace ==
    ASSUME NEW T, NEW start \in T, NEW i \in Nat, NEW n \in Nat, NEW pass,
           \A k \in 1..n : pass[i + k] \in [T -> T]
    PROVE  \E p : Trace(p, T, start, i, n, pass)
<1> DEFINE Def(f) == [k \in 0..n |-> IF k = 0 THEN start ELSE pass[i + k][f[k - 1]]]
           next == [k \in 1..n |-> pass[i + k]]
           p == CHOOSE f : f = Def(f)
<1>1. next \in [1..n -> [T -> T]]
  OBVIOUS
<1>2. PICK g \in [0..n -> T] : g[0] = start /\ \A k \in 1..n : g[k] = next[k][g[k - 1]]
  <2> HIDE DEF next
  <2> QED  BY <1>1, Recursion
<1>3. g = Def(g)
  <2>1. ASSUME NEW k \in 1..n PROVE g[k] = pass[i + k][g[k - 1]]
    BY <1>2
  <2> QED  BY <1>2, <2>1
<1>4. p = Def(p)
  BY <1>3
<1>5. Passes(start, i, n, pass) = p[n]
  BY DEF Passes
<1> HIDE DEF p
<1>6. p[0] = start /\ \A k \in 1..n : p[k] = pass[i + k][p[k - 1]]
  BY <1>4
<1>7. \A k \in 0..n : p[k] \in T
  <2>1. \A k \in 1..n : p[k - 1] \in T => p[k] \in T
    BY <1>6
  <2>2. p[0] \in T
    BY <1>6
  <2> QED  BY <2>1, <2>2, RecursionTyped
<1> QED  BY <1>5, <1>6, <1>7 DEF Trace

\* ... and ends with one.
LEMMA PassesType ==
    ASSUME NEW T, NEW start \in T, NEW i \in Nat, NEW n \in Nat, NEW pass,
           \A k \in 1..n : pass[i + k] \in [T -> T]
    PROVE  Passes(start, i, n, pass) \in T
<1>1. PICK p : Trace(p, T, start, i, n, pass)
  BY PassesTrace
<1> QED  BY <1>1 DEF Trace

\* Values that follow one another as the passes tell
Follows(p, T, i, n, pass) ==
    /\ \A k \in 1..n : p[k] = pass[i + k][p[k - 1]]
    /\ \A k \in 0..n : p[k] \in T
    /\ \A k \in 1..n : pass[i + k] \in [T -> T]

\* They end with what the loop makes of the first.
LEMMA PassesEnd ==
    ASSUME NEW T, NEW i \in Nat, NEW n \in Nat, NEW pass, NEW p, Follows(p, T, i, n, pass)
    PROVE  Passes(p[0], i, n, pass) = p[n]
<1> USE DEF Follows
<1>1. p[0] \in T
  OBVIOUS
<1>2. PICK q : Trace(q, T, p[0], i, n, pass)
  BY <1>1, PassesTrace
<1> DEFINE S == {k \in 0..n : q[k] = p[k]}
<1>3. \A k \in 0..n : k \in S
  <2>1. 0 \in S
    BY <1>2 DEF Trace
  <2>2. ASSUME NEW k \in 0..n, k # n, k \in S PROVE k + 1 \in S
    <3>1. k + 1 \in 1..n /\ (k + 1) - 1 = k /\ k + 1 \in 0..n
      BY <2>2
    <3>2. q[k + 1] = pass[i + (k + 1)][q[k]] /\ p[k + 1] = pass[i + (k + 1)][p[k]]
      BY <1>2, <3>1 DEF Trace
    <3>3. q[k] = p[k]
      BY <2>2
    <3>4. q[k + 1] = p[k + 1]
      BY <3>2, <3>3
    <3> QED  BY <3>1, <3>4
  <2> HIDE DEF S
  <2> QED  BY <2>1, <2>2, Induction
<1>4. q[n] = p[n]
  BY <1>3
<1> QED  BY <1>2, <1>4 DEF Trace

\* Where the rows of a loop of n passes are
LEMMA RowSizes ==
    ASSUME NEW n \in Nat, NEW r, r = (n + 15) \div 16
    PROVE  /\ r \in Nat /\ 16 * r >= n
           /\ \A j \in 1..r : /\ 16 * (j - 1) \in Nat /\ 16 * (j - 1) < n
                              /\ 16 * j < n => ~(n - 16 * (j - 1) < 16)
                              /\ ~(16 * j < n) => n - 16 * (j - 1) <= 16
<1>1. r \in Nat /\ 16 * r <= n + 15 /\ 16 * r >= n
  OBVIOUS
<1> QED  BY <1>1

\* A loop that runs in rows is a loop.
LEMMA LoopIsPasses ==
    ASSUME NEW T, NEW start \in T, NEW n \in Nat, NEW pass \in [1..n -> [T -> T]]
    PROVE  Loop(T, start, n, pass) = Passes(start, 0, n, pass)
<1> DEFINE r == (n + 15) \div 16
           Rest(j) == n - 16 * (j - 1)
           Size(j) == IF Rest(j) < 16 THEN Rest(j) ELSE 16
           rows == [j \in 1..r |-> [value \in T |->
                       Passes(value, 16 * (j - 1), Size(j), pass)]]
           At(j) == IF 16 * j < n THEN 16 * j ELSE n
<1>1. Loop(T, start, n, pass) = Passes(start, 0, r, rows)
  BY DEF Loop
<1>2. PICK p : Trace(p, T, start, 0, n, pass)
  <2>1. 0 \in Nat /\ \A k \in 1..n : 0 + k = k
    OBVIOUS
  <2> QED  BY <2>1, PassesTrace
<1>3. \A k \in 1..n : p[k] = pass[k][p[k - 1]]
  <2>1. \A k \in 1..n : 0 + k = k
    OBVIOUS
  <2> QED  BY <1>2, <2>1 DEF Trace
<1>4. /\ r \in Nat /\ 16 * r >= n
      /\ \A j \in 1..r : /\ 16 * (j - 1) \in Nat /\ 16 * (j - 1) < n
                         /\ 16 * j < n => ~(n - 16 * (j - 1) < 16)
                         /\ ~(16 * j < n) => n - 16 * (j - 1) <= 16
  BY RowSizes
<1> HIDE DEF r
<1>5. ASSUME NEW j \in 1..r
      PROVE  /\ 16 * (j - 1) \in Nat /\ Size(j) \in Nat
             /\ At(j - 1) = 16 * (j - 1) /\ At(j) = 16 * (j - 1) + Size(j)
             /\ 16 * (j - 1) + Size(j) <= n
  BY <1>4
<1>6. At(0) = 0 /\ At(r) = n /\ \A j \in 0..r : At(j) \in 0..n
  BY <1>4
<1> HIDE DEF Size, At
<1>7. ASSUME NEW j \in 1..r, NEW value \in T
      PROVE  Passes(value, 16 * (j - 1), Size(j), pass) \in T
  <2> DEFINE i == 16 * (j - 1)
             m == Size(j)
  <2>1. i \in Nat /\ m \in Nat /\ \A k \in 1..m : i + k \in 1..n
    BY <1>5
  <2> HIDE DEF i, m
  <2>2. \A k \in 1..m : pass[i + k] \in [T -> T]
    BY <2>1
  <2>3. Passes(value, i, m, pass) \in T
    BY <2>1, <2>2, PassesType
  <2> QED  BY <2>3 DEF i, m
<1>8. ASSUME NEW j \in 1..r
      PROVE  Passes(p[At(j - 1)], 16 * (j - 1), Size(j), pass) = p[At(j)]
  <2> DEFINE i == 16 * (j - 1)
             m == Size(j)
             q == [k \in 0..m |-> p[i + k]]
  <2>1. /\ i \in Nat /\ m \in Nat /\ i + m <= n /\ At(j - 1) = i /\ At(j) = i + m
    BY <1>5
  <2> HIDE DEF i, m
  <2>2. ASSUME NEW k \in 1..m PROVE q[k] = pass[i + k][q[k - 1]] /\ pass[i + k] \in [T -> T]
    <3>1. i + k \in 1..n /\ (i + k) - 1 = i + (k - 1) /\ k - 1 \in 0..m
      BY <2>1
    <3> QED  BY <1>3, <3>1
  <2>3. \A k \in 0..m : q[k] \in T
    <3>1. \A k \in 0..m : i + k \in 0..n
      BY <2>1
    <3> QED  BY <1>2, <3>1 DEF Trace
  <2>4. q[0] = p[i] /\ q[m] = p[i + m]
    BY <2>1
  <2> HIDE DEF q
  <2>5. Follows(q, T, i, m, pass)
    BY <2>2, <2>3 DEF Follows
  <2>6. Passes(q[0], i, m, pass) = q[m]
    BY <2>1, <2>5, PassesEnd
  <2> QED  BY <2>1, <2>4, <2>6 DEF i, m
<1> DEFINE q == [j \in 0..r |-> p[At(j)]]
<1>9. /\ \A j \in 1..r : rows[0 + j] \in [T -> T]
      /\ \A j \in 1..r, value \in T :
            rows[0 + j][value] = Passes(value, 16 * (j - 1), Size(j), pass)
  BY <1>7
<1> HIDE DEF rows
<1>10. \A j \in 0..r : q[j] \in T /\ p[At(j)] \in T
  BY <1>2, <1>6 DEF Trace
<1>11. ASSUME NEW j \in 1..r PROVE q[j] = rows[0 + j][q[j - 1]]
  <2>1. j \in 0..r /\ j - 1 \in 0..r
    BY <1>4
  <2>2. q[j] = p[At(j)] /\ q[j - 1] = p[At(j - 1)] /\ p[At(j - 1)] \in T
    BY <1>10, <2>1
  <2> HIDE DEF q
  <2> QED  BY <1>8, <1>9, <2>2
<1>12. q[0] = p[0] /\ q[r] = p[n]
  BY <1>4, <1>6
<1> HIDE DEF q
<1>13. Follows(q, T, 0, r, rows)
  BY <1>9, <1>10, <1>11 DEF Follows
<1>14. Passes(q[0], 0, r, rows) = q[r]
  <2>1. 0 \in Nat
    OBVIOUS
  <2> QED  BY <1>4, <1>13, <2>1, PassesEnd
<1> QED  BY <1>1, <1>2, <1>12, <1>14 DEF Trace

\* So it ends with one of the values its passes stay among.
LEMMA LoopType ==
    ASSUME NEW T, NEW start \in T, NEW n \in Nat, NEW pass \in [1..n -> [T -> T]]
    PROVE  Loop(T, start, n, pass) \in T
<1>1. 0 \in Nat /\ \A k \in 1..n : pass[0 + k] \in [T -> T]
  OBVIOUS
<1>2. Loop(T, start, n, pass) = Passes(start, 0, n, pass)
  BY LoopIsPasses
<1>3. Passes(start, 0, n, pass) \in T
  BY <1>1, PassesType
<1> QED  BY <1>2, <1>3
-----------------------------------------------------------------------------
\* Two pieces of a frame side by side
LEMMA Joined ==
    ASSUME NEW s \in Seq(Byte), NEW t \in Seq(Byte)
    PROVE  /\ s \o t \in Seq(Byte) /\ Len(s \o t) = Len(s) + Len(t)
           /\ \A i \in 1..Len(s) : (s \o t)[i] = s[i]
           /\ \A i \in 1..Len(t) : (s \o t)[Len(s) + i] = t[i]
<1>1. /\ s \o t \in Seq(Byte) /\ Len(s \o t) = Len(s) + Len(t)
      /\ \A i \in 1..Len(s) + Len(t) :
            (s \o t)[i] = IF i <= Len(s) THEN s[i] ELSE t[i - Len(s)]
  BY ConcatProperties
<1>2. Len(s) \in Nat /\ Len(t) \in Nat
  OBVIOUS
<1>3. ASSUME NEW i \in 1..Len(t) PROVE (s \o t)[Len(s) + i] = t[i]
  <2>1. /\ Len(s) + i \in 1..Len(s) + Len(t) /\ ~(Len(s) + i <= Len(s))
        /\ (Len(s) + i) - Len(s) = i
    BY <1>2
  <2> QED  BY <1>1, <2>1
<1>4. ASSUME NEW i \in 1..Len(s) PROVE (s \o t)[i] = s[i]
  <2>1. i \in 1..Len(s) + Len(t) /\ i <= Len(s)
    BY <1>2
  <2> QED  BY <1>1, <2>1
<1> QED  BY <1>1, <1>3, <1>4

\* A piece that is taken out again
LEMMA Taken ==
    ASSUME NEW s \in Seq(Byte), NEW t \in Seq(Byte), NEW m \in Nat \ {0}, NEW n \in Nat,
           n - m + 1 = Len(t), n <= Len(s),
           \A i \in 1..Len(t) : s[m - 1 + i] = t[i]
    PROVE  SubSeq(s, m, n) = t
<1> DEFINE u == SubSeq(s, m, n)
<1>1. \A j \in m..n : s[j] \in Byte
  OBVIOUS
<1>2. m \in Int /\ n \in Int /\ Len(t) \in Nat
  OBVIOUS
<1>3. /\ u \in Seq(Byte) /\ Len(u) = IF m <= n THEN n - m + 1 ELSE 0
      /\ \A i \in 1..n - m + 1 : u[i] = s[m + i - 1]
  BY <1>1, <1>2, SubSeqProperties
<1> HIDE DEF u
<1>4. Len(u) = Len(t)
  BY <1>2, <1>3
<1>5. \A i \in 1..Len(t) : u[i] = t[i]
  <2> SUFFICES ASSUME NEW i \in 1..Len(t) PROVE u[i] = t[i]
    OBVIOUS
  <2>1. i \in 1..n - m + 1 /\ m + i - 1 = m - 1 + i
    BY <1>2
  <2> QED  BY <1>3, <2>1
<1> QED  BY <1>3, <1>4, <1>5, SeqEqual DEF u
-----------------------------------------------------------------------------
\* The powers the codec uses: two hex digits make a byte, four a CRC.
LEMMA Powers == Power(2, 8) = 256 /\ Power(16, 2) = 256 /\ Power(16, 4) = 65536
<1>1. ASSUME NEW b \in Nat \ {0}
      PROVE  /\ Power(b, 2) = b * b
             /\ Power(b, 4) = b * (b * (b * b))
             /\ Power(b, 8) = b * (b * (b * (b * (b * (b * (b * b))))))
  <2> DEFINE p(n) == Power(b, n)
  <2>1. \A n \in Nat : p(n + 1) = b * p(n) /\ p(0) = 1
    BY PowerStep
  <2> HIDE DEF p
  <2>2. /\ p(0 + 1) = b * p(0) /\ p(1 + 1) = b * p(1) /\ p(2 + 1) = b * p(2)
        /\ p(3 + 1) = b * p(3) /\ p(4 + 1) = b * p(4) /\ p(5 + 1) = b * p(5)
        /\ p(6 + 1) = b * p(6) /\ p(7 + 1) = b * p(7) /\ p(0) = 1
    BY <2>1
  <2> QED  BY <2>2 DEF p
<1>2. 2 \in Nat \ {0} /\ 16 \in Nat \ {0}
  OBVIOUS
<1> QED  BY <1>1, <1>2

\* How large bytes and words are
LEMMA Sizes ==
    /\ UINT8_MAX \in Nat /\ \A x \in Int : x <= UINT8_MAX <=> x < 256
    /\ UINT16_MAX \in Nat /\ \A x \in Int : x <= UINT16_MAX <=> x < 65536
BY DEF UINT8_MAX, UINT16_MAX

\* What bytes and words are
LEMMA Ranges ==
    /\ \A x : x \in Byte <=> x \in Nat /\ x < 256
    /\ \A x : x \in Word <=> x \in Nat /\ x < 65536
BY Sizes DEF Byte, Word

\* A word has two bytes, and two bytes make a word.
LEMMA BytesOfWord ==
    /\ \A w \in Word : w \div 256 \in Byte /\ w % 256 \in Byte
    /\ \A h, l \in Byte : 256 * h + l \in Word /\ h * 256 \in Word
<1>1. ASSUME NEW w \in Word PROVE w \div 256 \in Byte /\ w % 256 \in Byte
  <2>1. w \in Nat /\ w < 65536
    BY Ranges
  <2>2. w \div 256 \in Nat /\ w \div 256 < 256 /\ w % 256 \in Nat /\ w % 256 < 256
    BY <2>1
  <2> QED  BY <2>2, Ranges
<1>2. ASSUME NEW h \in Byte, NEW l \in Byte
      PROVE  256 * h + l \in Word /\ h * 256 \in Word
  <2>1. h \in Nat /\ h < 256 /\ l \in Nat /\ l < 256
    BY Ranges
  <2>2. 256 * h + l \in Nat /\ 256 * h + l < 65536 /\ h * 256 \in Nat /\ h * 256 < 65536
    BY <2>1
  <2> QED  BY <2>2, Ranges
<1> QED  BY <1>1, <1>2

\* Bytes stay bytes, ...
LEMMA XorOfBytesType == \A a, b \in Byte : XorOfBytes[a][b] \in Byte
<1> SUFFICES ASSUME NEW a \in Byte, NEW b \in Byte PROVE XorOfBytes[a][b] \in Byte
  OBVIOUS
<1> DEFINE d == [i \in 1..8 |-> IF Digit(2, a, 8, i) = Digit(2, b, 8, i) THEN 0 ELSE 1]
<1>1. XorOfBytes[a][b] = Value(2, d)
  BY DEF XorOfBytes
<1>2. d \in [1..8 -> 0..2 - 1]
  OBVIOUS
<1> HIDE DEF d
<1>3. Value(2, d) \in 0..Power(2, 8) - 1
  <2>1. 2 \in Nat \ {0} /\ 8 \in Nat
    OBVIOUS
  <2> QED  BY <1>2, <2>1, ValueRange
<1> QED  BY <1>1, <1>3, Powers, Ranges

\* ... and words words.
LEMMA XorType == \A a, b \in Word : Xor(a, b) \in Word
<1> SUFFICES ASSUME NEW a \in Word, NEW b \in Word PROVE Xor(a, b) \in Word
  OBVIOUS
<1> DEFINE h == XorOfBytes[a \div 256][b \div 256]
           l == XorOfBytes[a % 256][b % 256]
<1>1. a \div 256 \in Byte /\ b \div 256 \in Byte /\ a % 256 \in Byte /\ b % 256 \in Byte
  BY BytesOfWord
<1>2. h \in Byte /\ l \in Byte
  BY <1>1, XorOfBytesType
<1> HIDE DEF h, l
<1>3. 256 * h + l \in Word
  BY <1>2, BytesOfWord
<1> QED  BY <1>3 DEF Xor, h, l

\* The CRC after one more bit, ...
LEMMA ShiftCRCType == \A crc \in Word : ShiftCRC(crc) \in Word
<1> SUFFICES ASSUME NEW crc \in Word PROVE ShiftCRC(crc) \in Word
  OBVIOUS
<1>1. crc \in Nat /\ crc < 65536
  BY Ranges
<1>2. CASE crc >= 32768
  <2> DEFINE d == (2 * crc) % 65536
             g == 4129
  <2>1. d \in Nat /\ d < 65536 /\ g \in Nat /\ g < 65536
    BY <1>1
  <2> HIDE DEF d, g
  <2>2. d \in Word /\ g \in Word
    BY <2>1, Ranges
  <2>3. Xor(d, g) \in Word
    BY <2>2, XorType
  <2> QED  BY <1>2, <2>3 DEF ShiftCRC, d, g
<1>3. CASE ~(crc >= 32768)
  <2>1. 2 * crc \in Nat /\ 2 * crc < 65536
    BY <1>1, <1>3
  <2>2. 2 * crc \in Word
    BY <2>1, Ranges
  <2> QED  BY <1>3, <2>2 DEF ShiftCRC
<1> QED  BY <1>2, <1>3

\* ... after eight of them, ...
LEMMA Shifted8Type == \A crc \in Word : Shifted8[crc] \in Word
<1> SUFFICES ASSUME NEW start \in Word PROVE Shifted8[start] \in Word
  OBVIOUS
<1> DEFINE pass == [bit \in 1..8 |-> [crc \in Word |-> ShiftCRC(crc)]]
           T == Word
<1>1. start \in T /\ 0 \in Nat /\ 8 \in Nat
  OBVIOUS
<1>2. \A k \in 1..8 : pass[0 + k] \in [T -> T]
  BY ShiftCRCType
<1>3. Shifted8[start] = Passes(start, 0, 8, pass)
  BY DEF Shifted8
<1> HIDE DEF T, pass
<1>4. Passes(start, 0, 8, pass) \in T
  BY <1>1, <1>2, PassesType
<1> QED  BY <1>3, <1>4 DEF T

\* ... after a character, ...
LEMMA AddCharType == \A crc \in Word, c \in Byte : AddChar(crc, c) \in Word
<1> SUFFICES ASSUME NEW crc \in Word, NEW c \in Byte PROVE AddChar(crc, c) \in Word
  OBVIOUS
<1>1. Xor(crc, c * 256) \in Word
  BY BytesOfWord, XorType
<1> QED  BY <1>1, Shifted8Type DEF AddChar

\* ... and after all of them.
LEMMA CRCType ==
    ASSUME NEW chars \in Seq(Byte)
    PROVE  CRC16(chars) \in Word
<1> DEFINE n == Len(chars)
           pass == [i \in 1..n |-> [crc \in Word |-> AddChar(crc, chars[i])]]
           T == Word
<1>1. n \in Nat /\ 0 \in T
  BY Ranges
<1>2. \A i \in 1..n : chars[i] \in Byte
  OBVIOUS
<1>3. pass \in [1..n -> [T -> T]]
  BY <1>2, AddCharType
<1>4. CRC16(chars) = Loop(Word, 0, n, pass)
  BY DEF CRC16, CRCFrom
<1> HIDE DEF T, pass, n
<1>5. Loop(T, 0, n, pass) \in T
  BY <1>1, <1>3, LoopType
<1> QED  BY <1>4, <1>5 DEF T
-----------------------------------------------------------------------------
\* A function that loses nothing
Injective(f, T) == \A u, v \in T : f[u] = f[v] => u = v

\* Two loops of injective passes that differ in one pass, or in what they begin with
\* (at = 0), ...
Differ(T, x, y, i, n, A, B, at) ==
    /\ \A k \in 1..n : /\ A[i + k] \in [T -> T] /\ B[i + k] \in [T -> T]
                       /\ Injective(A[i + k], T) /\ (k # at => A[i + k] = B[i + k])
    /\ IF at = 0 THEN x # y ELSE x = y
    /\ at # 0 => \A v \in T : A[i + at][v] # B[i + at][v]

\* ... do not end alike.
LEMMA PassesDiffer ==
    ASSUME NEW T, NEW x \in T, NEW y \in T, NEW i \in Nat, NEW n \in Nat, NEW A, NEW B,
           NEW at \in 0..n, Differ(T, x, y, i, n, A, B, at)
    PROVE  Passes(x, i, n, A) # Passes(y, i, n, B)
<1> USE DEF Differ
<1>1. PICK p : Trace(p, T, x, i, n, A)
  BY PassesTrace
<1>2. PICK q : Trace(q, T, y, i, n, B)
  BY PassesTrace
<1> DEFINE S == {k \in 0..n : IF k < at THEN p[k] = q[k] ELSE p[k] # q[k]}
<1>3. \A k \in 0..n : k \in S
  <2>1. 0 \in S
    <3>1. p[0] = x /\ q[0] = y
      BY <1>1, <1>2 DEF Trace
    <3> QED  BY <3>1
  <2>2. ASSUME NEW k \in 0..n, k # n, k \in S PROVE k + 1 \in S
    <3>1. k + 1 \in 1..n /\ (k + 1) - 1 = k /\ k + 1 \in 0..n
      BY <2>2
    <3>2. /\ p[k + 1] = A[i + (k + 1)][p[k]] /\ q[k + 1] = B[i + (k + 1)][q[k]]
          /\ p[k] \in T /\ q[k] \in T
      BY <1>1, <1>2, <3>1 DEF Trace
    <3>3. IF k < at THEN p[k] = q[k] ELSE p[k] # q[k]
      BY <2>2
    <3>4. CASE k + 1 < at
      <4>1. A[i + (k + 1)] = B[i + (k + 1)] /\ p[k] = q[k]
        <5>1. k + 1 # at /\ k < at
          BY <3>4
        <5>2. A[i + (k + 1)] = B[i + (k + 1)]
          BY <3>1, <5>1, Zenon
        <5> QED  BY <3>3, <5>1, <5>2
      <4>2. p[k + 1] = q[k + 1]
        BY <3>2, <4>1
      <4> QED  BY <3>1, <3>4, <4>2
    <3>5. CASE k + 1 = at
      <4>1. p[k] = q[k] /\ at # 0
        BY <3>3, <3>5
      <4>2. A[i + (k + 1)][p[k]] # B[i + (k + 1)][p[k]]
        BY <3>2, <3>5, <4>1
      <4>3. p[k + 1] # q[k + 1]
        BY <3>2, <4>1, <4>2
      <4> QED  BY <3>1, <3>5, <4>3
    <3>6. CASE k + 1 > at
      <4>1. p[k] # q[k]
        BY <3>3, <3>6
      <4>2. A[i + (k + 1)] = B[i + (k + 1)] /\ Injective(A[i + (k + 1)], T)
        <5>1. k + 1 # at
          BY <3>6
        <5> QED  BY <3>1, <5>1, Zenon
      <4>3. p[k + 1] # q[k + 1]
        BY <3>2, <4>1, <4>2 DEF Injective
      <4> QED  BY <3>1, <3>6, <4>3
    <3> QED  BY <3>4, <3>5, <3>6
  <2> HIDE DEF S
  <2> QED  BY <2>1, <2>2, Induction
<1>4. p[n] # q[n]
  BY <1>3
<1> QED  BY <1>1, <1>2, <1>4 DEF Trace
-----------------------------------------------------------------------------
\* The bits of a byte are all there is to it.
LEMMA SameBits ==
    ASSUME NEW a \in Byte, NEW b \in Byte,
           \A i \in 1..8 : Digit(2, a, 8, i) = Digit(2, b, 8, i)
    PROVE  a = b
<1>1. 2 \in Nat \ {0} /\ 8 \in Nat
  OBVIOUS
<1>2. a \in Nat /\ b \in Nat /\ a < Power(2, 8) /\ b < Power(2, 8)
  BY Ranges, Powers
<1>3. Value(2, DigitsOf(2, a, 8)) = a
  BY <1>1, <1>2, ValueOfDigits
<1>4. Value(2, DigitsOf(2, b, 8)) = b
  BY <1>1, <1>2, ValueOfDigits
<1>5. DigitsOf(2, a, 8) = DigitsOf(2, b, 8)
  BY DEF DigitsOf
<1> QED  BY <1>3, <1>4, <1>5

\* Nor is there more to a word than its bytes.
LEMMA SameBytes ==
    \A a, b \in Word : a \div 256 = b \div 256 /\ a % 256 = b % 256 => a = b
<1> SUFFICES ASSUME NEW a \in Word, NEW b \in Word,
                    a \div 256 = b \div 256, a % 256 = b % 256
             PROVE  a = b
  OBVIOUS
<1>1. a \in Nat /\ b \in Nat
  BY Ranges
<1> QED  BY <1>1

\* The bits of an exclusive or
XorBits(a, b) == [i \in 1..8 |-> IF Digit(2, a, 8, i) = Digit(2, b, 8, i) THEN 0 ELSE 1]

\* They are bits, and make up its value.
LEMMA XorBitsType ==
    \A a, b \in Byte : /\ XorOfBytes[a][b] = Value(2, XorBits(a, b))
                       /\ XorBits(a, b) \in [1..8 -> 0..2 - 1]
BY DEF XorOfBytes, XorBits

\* Exclusive or loses nothing of either operand, ...
LEMMA XorOfBytesInjective ==
    \A a, b, c \in Byte : /\ XorOfBytes[a][b] = XorOfBytes[a][c] => b = c
                          /\ XorOfBytes[b][a] = XorOfBytes[c][a] => b = c
<1>1. ASSUME NEW a \in Byte, NEW b \in Byte PROVE XorOfBytes[a][b] = XorOfBytes[b][a]
  <2>1. XorBits(a, b) = XorBits(b, a)
    BY DEF XorBits
  <2> QED  BY <2>1, XorBitsType
<1>2. ASSUME NEW a \in Byte, NEW b \in Byte, NEW c \in Byte,
             XorOfBytes[a][b] = XorOfBytes[a][c]
      PROVE  b = c
  <2>1. 2 \in Nat \ {0} /\ 8 \in Nat
    OBVIOUS
  <2>2. /\ XorBits(a, b) \in [1..8 -> 0..2 - 1] /\ XorBits(a, c) \in [1..8 -> 0..2 - 1]
        /\ Value(2, XorBits(a, b)) = Value(2, XorBits(a, c))
    BY <1>2, XorBitsType
  <2>3. XorBits(a, b) = XorBits(a, c)
    BY ONLY <2>1, <2>2, ValueInjective
  <2>4. ASSUME NEW i \in 1..8 PROVE Digit(2, b, 8, i) = Digit(2, c, 8, i)
    <3> DEFINE x == Digit(2, a, 8, i)
               y == Digit(2, b, 8, i)
               z == Digit(2, c, 8, i)
    <3>1. x \in 0..2 - 1 /\ y \in 0..2 - 1 /\ z \in 0..2 - 1
      <4>1. a \in Nat /\ b \in Nat /\ c \in Nat
        BY Ranges
      <4> QED  BY <2>1, <4>1, DigitRange
    <3>2. (IF x = y THEN 0 ELSE 1) = (IF x = z THEN 0 ELSE 1)
      <4>1. XorBits(a, b)[i] = XorBits(a, c)[i]
        BY <2>3
      <4> QED  BY <4>1 DEF XorBits
    <3> HIDE DEF x, y, z
    <3>3. y = z
      BY <3>1, <3>2
    <3> QED  BY <3>3 DEF y, z
  <2> QED  BY <2>4, SameBits
<1> QED  BY <1>1, <1>2

\* ... of words as of bytes.
LEMMA XorInjective ==
    \A a, b, c \in Word : /\ Xor(a, b) = Xor(a, c) => b = c
                          /\ Xor(b, a) = Xor(c, a) => b = c
<1> SUFFICES ASSUME NEW a \in Word, NEW b \in Word, NEW c \in Word
             PROVE  /\ Xor(a, b) = Xor(a, c) => b = c
                    /\ Xor(b, a) = Xor(c, a) => b = c
  OBVIOUS
<1>1. ASSUME NEW h \in Byte, NEW l \in Byte, NEW k \in Byte, NEW m \in Byte,
             256 * h + l = 256 * k + m
      PROVE  h = k /\ l = m
  <2>1. h \in Nat /\ l \in Nat /\ l < 256 /\ k \in Nat /\ m \in Nat /\ m < 256
    BY Ranges
  <2> QED  BY <1>1, <2>1
<1>2. /\ a \div 256 \in Byte /\ a % 256 \in Byte /\ b \div 256 \in Byte /\ b % 256 \in Byte
      /\ c \div 256 \in Byte /\ c % 256 \in Byte
  BY BytesOfWord
<1> DEFINE ah == a \div 256
           al == a % 256
           bh == b \div 256
           bl == b % 256
           ch == c \div 256
           cl == c % 256
<1>3. bh = ch /\ bl = cl => b = c
  BY SameBytes
<1>4. /\ Xor(a, b) = 256 * XorOfBytes[ah][bh] + XorOfBytes[al][bl]
      /\ Xor(a, c) = 256 * XorOfBytes[ah][ch] + XorOfBytes[al][cl]
      /\ Xor(b, a) = 256 * XorOfBytes[bh][ah] + XorOfBytes[bl][al]
      /\ Xor(c, a) = 256 * XorOfBytes[ch][ah] + XorOfBytes[cl][al]
  BY DEF Xor
<1> HIDE DEF ah, al, bh, bl, ch, cl
<1>5. /\ ah \in Byte /\ al \in Byte /\ bh \in Byte /\ bl \in Byte /\ ch \in Byte
      /\ cl \in Byte
  BY <1>2 DEF ah, al, bh, bl, ch, cl
<1>6. /\ XorOfBytes[ah][bh] \in Byte /\ XorOfBytes[al][bl] \in Byte
      /\ XorOfBytes[ah][ch] \in Byte /\ XorOfBytes[al][cl] \in Byte
      /\ XorOfBytes[bh][ah] \in Byte /\ XorOfBytes[bl][al] \in Byte
      /\ XorOfBytes[ch][ah] \in Byte /\ XorOfBytes[cl][al] \in Byte
  BY <1>5, XorOfBytesType
<1>7. ASSUME Xor(a, b) = Xor(a, c) PROVE b = c
  <2>1. XorOfBytes[ah][bh] = XorOfBytes[ah][ch] /\ XorOfBytes[al][bl] = XorOfBytes[al][cl]
    BY <1>1, <1>4, <1>6, <1>7
  <2> QED  BY <1>3, <1>5, <2>1, XorOfBytesInjective
<1>8. ASSUME Xor(b, a) = Xor(c, a) PROVE b = c
  <2>1. XorOfBytes[bh][ah] = XorOfBytes[ch][ah] /\ XorOfBytes[bl][al] = XorOfBytes[cl][al]
    BY <1>1, <1>4, <1>6, <1>8
  <2> QED  BY <1>3, <1>5, <2>1, XorOfBytesInjective
<1> QED  BY <1>7, <1>8

\* It is odd if one operand is.
LEMMA XorOdd ==
    ASSUME NEW a \in Word, NEW b \in Word, a % 2 = 0, b % 2 = 1
    PROVE  Xor(a, b) % 2 = 1
<1> DEFINE x == a % 256
           y == b % 256
           d == XorBits(x, y)
           h == XorOfBytes[a \div 256][b \div 256]
           l == XorOfBytes[x][y]
<1>1. /\ x \in Byte /\ y \in Byte /\ h \in Byte /\ l \in Byte
  <2>1. /\ x \in Byte /\ y \in Byte
        /\ a \div 256 \in Byte /\ b \div 256 \in Byte
    BY BytesOfWord
  <2> HIDE DEF x, y
  <2>2. l \in Byte
    BY <2>1, XorOfBytesType
  <2>3. h \in Byte
    BY <2>1, XorOfBytesType
  <2> QED  BY <2>1, <2>2, <2>3
<1>2. x \in Nat /\ y \in Nat /\ x % 2 = 0 /\ y % 2 = 1
  <2>1. a \in Nat /\ b \in Nat
    BY Ranges
  <2> QED  BY <2>1
<1>3. Xor(a, b) = 256 * h + l
  BY DEF Xor
<1>4. l = Value(2, d) /\ d \in [1..8 -> 0..2 - 1]
  BY <1>1, XorBitsType
<1> HIDE DEF x, y, h, l
<1>5. d[8] = 1
  <2>1. Power(2, 0) = 1
    <3>1. 2 \in Nat \ {0} /\ 0 \in Nat
      OBVIOUS
    <3> QED  BY <3>1, PowerStep
  <2>2. Digit(2, x, 8, 8) = (x \div 1) % 2 /\ Digit(2, y, 8, 8) = (y \div 1) % 2
    BY <2>1 DEF Digit
  <2>3. (x \div 1) % 2 = 0 /\ (y \div 1) % 2 = 1
    BY <1>2
  <2> QED  BY <2>2, <2>3 DEF XorBits
<1> HIDE DEF d
<1>6. l % 2 = 1
  <2>1. 2 \in Nat \ {0} /\ 8 \in Nat /\ d \in [1..8 -> Nat]
    BY <1>4
  <2>2. PICK f : Sums(f, 2, d, 8) /\ Value(2, d) = f[8]
    BY <2>1, ValueRecursion
  <2>3. f[8] = f[7] * 2 + d[8] /\ f[7] \in Nat
    <3>1. 8 \in 1..8 /\ 8 - 1 = 7 /\ 7 \in 0..8
      OBVIOUS
    <3> QED  BY <2>2, <3>1 DEF Sums
  <2> QED  BY <1>4, <1>5, <2>2, <2>3
<1>7. h \in Nat /\ l \in Nat
  BY <1>1, Ranges
<1> QED  BY <1>3, <1>6, <1>7

\* What is shifted out of a CRC comes back as the polynomial, so nothing is lost: not in
\* a shift, ...
LEMMA ShiftCRCInjective ==
    \A a, b \in Word : ShiftCRC(a) = ShiftCRC(b) => a = b
<1> DEFINE g == 4129
           d(x) == (2 * x) % 65536
<1>1. ASSUME NEW x \in Word, x >= 32768
      PROVE  /\ ShiftCRC(x) = Xor(d(x), g) /\ d(x) \in Word /\ g \in Word
             /\ d(x) % 2 = 0 /\ g % 2 = 1 /\ d(x) = 2 * x - 65536
  <2>1. x \in Nat /\ x < 65536
    BY Ranges
  <2>2. /\ d(x) \in Nat /\ d(x) < 65536 /\ d(x) = 2 * x - 65536
        /\ g \in Nat /\ g < 65536 /\ g % 2 = 1
    BY <1>1, <2>1
  <2>3. d(x) % 2 = 0
    <3> DEFINE y == x - 32768
    <3>1. y \in Nat /\ 2 * x - 65536 = 2 * y
      BY <1>1, <2>1
    <3>2. (2 * y) % 2 = 0
      BY <3>1
    <3> QED  BY <2>2, <3>1, <3>2
  <2>4. ShiftCRC(x) = Xor(d(x), g)
    BY <1>1 DEF ShiftCRC
  <2> HIDE DEF d, g
  <2>5. d(x) \in Word /\ g \in Word
    BY <2>2, Ranges
  <2> QED  BY <2>2, <2>3, <2>4, <2>5
<1> HIDE DEF d, g
<1>2. ASSUME NEW x \in Word, ~(x >= 32768)
      PROVE  ShiftCRC(x) = 2 * x
  BY <1>2 DEF ShiftCRC
<1>3. ASSUME NEW x \in Word, NEW y \in Word, x >= 32768, ~(y >= 32768)
      PROVE  ShiftCRC(x) # ShiftCRC(y)
  <2>1. ShiftCRC(x) % 2 = 1
    BY <1>1, <1>3, XorOdd
  <2>2. y \in Nat
    BY Ranges
  <2>3. (2 * y) % 2 = 0
    BY <2>2
  <2> QED  BY <1>2, <1>3, <2>1, <2>3
<1>4. ASSUME NEW x \in Word, NEW y \in Word, x >= 32768, y >= 32768,
             ShiftCRC(x) = ShiftCRC(y)
      PROVE  x = y
  <2>1. /\ g \in Word /\ d(x) \in Word /\ d(y) \in Word
        /\ Xor(d(x), g) = Xor(d(y), g)
    BY <1>1, <1>4
  <2>2. d(x) = d(y)
    BY <2>1, XorInjective
  <2>3. 2 * x - 65536 = 2 * y - 65536 /\ x \in Nat /\ y \in Nat
    BY <1>1, <1>4, <2>2, Ranges
  <2> QED  BY <2>3
<1>5. ASSUME NEW x \in Word, NEW y \in Word, ~(x >= 32768), ~(y >= 32768),
             ShiftCRC(x) = ShiftCRC(y)
      PROVE  x = y
  <2>1. 2 * x = 2 * y /\ x \in Nat /\ y \in Nat
    BY <1>2, <1>5, Ranges
  <2> QED  BY <2>1
<1> QED  BY <1>3, <1>4, <1>5

\* ... in eight, ...
LEMMA Shifted8Injective ==
    \A a, b \in Word : Shifted8[a] = Shifted8[b] => a = b
<1> SUFFICES ASSUME NEW a \in Word, NEW b \in Word, a # b
             PROVE  Shifted8[a] # Shifted8[b]
  OBVIOUS
<1> DEFINE pass == [bit \in 1..8 |-> [crc \in Word |-> ShiftCRC(crc)]]
           T == Word
           n == 8
<1>1. a \in T /\ b \in T /\ 0 \in Nat /\ n \in Nat /\ 0 \in 0..n
  OBVIOUS
<1>2. \A k \in 1..n : /\ pass[0 + k] \in [T -> T]
                      /\ \A v \in T : pass[0 + k][v] = ShiftCRC(v)
  BY ShiftCRCType
<1>3. Shifted8[a] = Passes(a, 0, n, pass) /\ Shifted8[b] = Passes(b, 0, n, pass)
  BY DEF Shifted8
<1>4. \A u, v \in T : ShiftCRC(u) = ShiftCRC(v) => u = v
  BY ShiftCRCInjective
<1> HIDE DEF T, pass, n
<1>5. Differ(T, a, b, 0, n, pass, pass, 0)
  BY <1>2, <1>4 DEF Differ, Injective
<1>6. Passes(a, 0, n, pass) # Passes(b, 0, n, pass)
  BY <1>1, <1>5, PassesDiffer
<1> QED  BY <1>3, <1>6

\* ... and not when a character is added, of the CRC or of the character.
LEMMA AddCharInjective ==
    /\ \A a, b \in Word, c \in Byte : AddChar(a, c) = AddChar(b, c) => a = b
    /\ \A a \in Word, c, d \in Byte : AddChar(a, c) = AddChar(a, d) => c = d
<1>1. \A c \in Byte : c * 256 \in Word
  BY BytesOfWord
<1>2. ASSUME NEW a \in Word, NEW b \in Word, NEW c \in Byte, AddChar(a, c) = AddChar(b, c)
      PROVE  a = b
  <2>1. Xor(a, c * 256) \in Word /\ Xor(b, c * 256) \in Word
    BY <1>1, XorType
  <2>2. Xor(a, c * 256) = Xor(b, c * 256)
    BY <1>2, <2>1, Shifted8Injective DEF AddChar
  <2> QED  BY <1>1, <2>2, XorInjective
<1>3. ASSUME NEW a \in Word, NEW c \in Byte, NEW d \in Byte, AddChar(a, c) = AddChar(a, d)
      PROVE  c = d
  <2>1. Xor(a, c * 256) \in Word /\ Xor(a, d * 256) \in Word
    BY <1>1, XorType
  <2>2. Xor(a, c * 256) = Xor(a, d * 256)
    BY <1>3, <2>1, Shifted8Injective DEF AddChar
  <2>3. c * 256 = d * 256
    BY <1>1, <2>2, XorInjective
  <2>4. c \in Nat /\ d \in Nat
    BY Ranges
  <2> QED  BY <2>3, <2>4
<1> QED  BY <1>2, <1>3

\* The CRC tells a character from every other one in its place, wherever it stands and
\* whatever stands around it.
THEOREM CRCDetects ==
    ASSUME NEW s \in Seq(Byte), NEW t \in Seq(Byte), Len(s) = Len(t),
           NEW at \in 1..Len(s), s[at] # t[at],
           \A i \in 1..Len(s) : i # at => s[i] = t[i]
    PROVE  CRC16(s) # CRC16(t)
<1> DEFINE n == Len(s)
           A == [i \in 1..n |-> [crc \in Word |-> AddChar(crc, s[i])]]
           B == [i \in 1..n |-> [crc \in Word |-> AddChar(crc, t[i])]]
           T == Word
<1>1. n \in Nat /\ 0 \in T /\ at \in 1..n
  BY Ranges
<1>2. \A i \in 1..n : s[i] \in Byte /\ t[i] \in Byte
  OBVIOUS
<1>3. A \in [1..n -> [T -> T]] /\ B \in [1..n -> [T -> T]]
  BY <1>2, AddCharType
<1>4. \A i \in 1..n : \A v \in T : A[i][v] = AddChar(v, s[i]) /\ B[i][v] = AddChar(v, t[i])
  OBVIOUS
<1>5. CRC16(s) = Loop(T, 0, n, A) /\ CRC16(t) = Loop(T, 0, n, B)
  BY DEF CRC16, CRCFrom
<1>6. \A k \in 1..n : k # at => A[k] = B[k]
  OBVIOUS
<1>7. \A k \in 1..n : Injective(A[k], T)
  BY <1>2, AddCharInjective DEF Injective
<1>8. \A v \in T : A[at][v] # B[at][v]
  BY <1>1, <1>2, AddCharInjective
<1> HIDE DEF T, A, B, n
<1>9. Loop(T, 0, n, A) = Passes(0, 0, n, A) /\ Loop(T, 0, n, B) = Passes(0, 0, n, B)
  BY <1>1, <1>3, LoopIsPasses
<1>10. Differ(T, 0, 0, 0, n, A, B, at)
  <2>1. \A k \in 1..n : 0 + k = k
    OBVIOUS
  <2>2. at # 0 /\ 0 + at = at
    BY <1>1
  <2> QED  BY <1>1, <1>3, <1>6, <1>7, <1>8, <2>1, <2>2 DEF Differ
<1>11. Passes(0, 0, n, A) # Passes(0, 0, n, B)
  <2>1. at \in 0..n /\ 0 \in Nat
    BY <1>1
  <2> QED  BY <1>1, <1>10, <2>1, PassesDiffer
<1> QED  BY <1>5, <1>9, <1>11
-----------------------------------------------------------------------------
\* Sum of two coefficients over GF(2)
Either(x, y) == IF x = y THEN 0 ELSE 1

\* The i-th of the sixteen bits of a word, the highest first
Bit(w, i) == IF i <= 8 THEN Digit(2, w \div 256, 8, i) ELSE Digit(2, w % 256, 8, i - 8)

\* The bits of a byte, one by one
LEMMA BitsOfByte ==
    ASSUME NEW x \in Byte
    PROVE  /\ Digit(2, x, 8, 1) = (x \div 128) % 2 /\ Digit(2, x, 8, 2) = (x \div 64) % 2
           /\ Digit(2, x, 8, 3) = (x \div 32) % 2 /\ Digit(2, x, 8, 4) = (x \div 16) % 2
           /\ Digit(2, x, 8, 5) = (x \div 8) % 2 /\ Digit(2, x, 8, 6) = (x \div 4) % 2
           /\ Digit(2, x, 8, 7) = (x \div 2) % 2 /\ Digit(2, x, 8, 8) = x % 2
<1> DEFINE p(n) == Power(2, n)
<1>1. \A n \in Nat : p(n + 1) = 2 * p(n) /\ p(0) = 1
  <2>1. 2 \in Nat \ {0}
    OBVIOUS
  <2> QED  BY <2>1, PowerStep
<1> HIDE DEF p
<1>2. /\ p(0 + 1) = 2 * p(0) /\ p(1 + 1) = 2 * p(1) /\ p(2 + 1) = 2 * p(2)
      /\ p(3 + 1) = 2 * p(3) /\ p(4 + 1) = 2 * p(4) /\ p(5 + 1) = 2 * p(5)
      /\ p(6 + 1) = 2 * p(6) /\ p(0) = 1
  BY <1>1
<1>3. /\ p(0) = 1 /\ p(1) = 2 /\ p(2) = 4 /\ p(3) = 8 /\ p(4) = 16 /\ p(5) = 32
      /\ p(6) = 64 /\ p(7) = 128
  BY <1>2
<1>4. \A i \in 1..8 : Digit(2, x, 8, i) = (x \div p(8 - i)) % 2
  BY DEF Digit, p
<1>5. /\ Digit(2, x, 8, 1) = (x \div p(7)) % 2 /\ Digit(2, x, 8, 2) = (x \div p(6)) % 2
      /\ Digit(2, x, 8, 3) = (x \div p(5)) % 2 /\ Digit(2, x, 8, 4) = (x \div p(4)) % 2
      /\ Digit(2, x, 8, 5) = (x \div p(3)) % 2 /\ Digit(2, x, 8, 6) = (x \div p(2)) % 2
      /\ Digit(2, x, 8, 7) = (x \div p(1)) % 2 /\ Digit(2, x, 8, 8) = (x \div p(0)) % 2
  <2> HIDE DEF Digit
  <2>1. /\ 8 - 1 = 7 /\ 8 - 2 = 6 /\ 8 - 3 = 5 /\ 8 - 4 = 4 /\ 8 - 5 = 3 /\ 8 - 6 = 2
        /\ 8 - 7 = 1 /\ 8 - 8 = 0
    OBVIOUS
  <2> QED  BY <1>4, <2>1
<1>6. x \div 1 = x
  <2>1. x \in Nat
    BY Ranges
  <2> QED  BY <2>1
<1> QED  BY <1>3, <1>5, <1>6

\* A number below size after a shift by one, with a bit shifted in
ShiftIn(x, bit, size) == 2 * x + bit - (IF 2 * x >= size THEN size ELSE 0)

\* The bits of a byte after it
LEMMA ByteShifted ==
    \A x \in Byte, c \in 0..1 :
        /\ ShiftIn(x, c, 256) \in Byte
        /\ \A i \in 1..8 : Digit(2, ShiftIn(x, c, 256), 8, i)
                             = IF i = 8 THEN c ELSE Digit(2, x, 8, i + 1)
        /\ Digit(2, x, 8, 1) = IF x >= 128 THEN 1 ELSE 0
<1> SUFFICES ASSUME NEW x \in Byte, NEW c \in 0..1
             PROVE  /\ ShiftIn(x, c, 256) \in Byte
                    /\ \A i \in 1..8 : Digit(2, ShiftIn(x, c, 256), 8, i)
                                         = IF i = 8 THEN c ELSE Digit(2, x, 8, i + 1)
                    /\ Digit(2, x, 8, 1) = IF x >= 128 THEN 1 ELSE 0
  OBVIOUS
<1> DEFINE y == ShiftIn(x, c, 256)
<1>1. x \in Nat /\ x < 256
  BY Ranges
<1>2. y = 2 * x + c - (IF x >= 128 THEN 256 ELSE 0) /\ y \in Nat /\ y < 256
  BY <1>1 DEF ShiftIn
<1> HIDE DEF y
<1>3. y \in Byte
  BY <1>2, Ranges
<1>4. /\ (y \div 128) % 2 = (x \div 64) % 2 /\ (y \div 64) % 2 = (x \div 32) % 2
      /\ (y \div 32) % 2 = (x \div 16) % 2 /\ (y \div 16) % 2 = (x \div 8) % 2
      /\ (y \div 8) % 2 = (x \div 4) % 2 /\ (y \div 4) % 2 = (x \div 2) % 2
      /\ (y \div 2) % 2 = x % 2 /\ y % 2 = c
  <2>1. (y \div 128) % 2 = (x \div 64) % 2 /\ (y \div 64) % 2 = (x \div 32) % 2
    BY <1>1, <1>2
  <2>2. (y \div 32) % 2 = (x \div 16) % 2 /\ (y \div 16) % 2 = (x \div 8) % 2
    BY <1>1, <1>2
  <2>3. (y \div 8) % 2 = (x \div 4) % 2 /\ (y \div 4) % 2 = (x \div 2) % 2
    BY <1>1, <1>2
  <2>4. (y \div 2) % 2 = x % 2 /\ y % 2 = c
    BY <1>1, <1>2
  <2> QED  BY <2>1, <2>2, <2>3, <2>4
<1>5. (x \div 128) % 2 = IF x >= 128 THEN 1 ELSE 0
  BY <1>1
<1> DEFINE D(v, i) == Digit(2, v, 8, i)
<1>6. /\ D(x, 1) = (x \div 128) % 2 /\ D(x, 2) = (x \div 64) % 2
      /\ D(x, 3) = (x \div 32) % 2 /\ D(x, 4) = (x \div 16) % 2
      /\ D(x, 5) = (x \div 8) % 2 /\ D(x, 6) = (x \div 4) % 2
      /\ D(x, 7) = (x \div 2) % 2 /\ D(x, 8) = x % 2
  BY BitsOfByte
<1>7. /\ D(y, 1) = (y \div 128) % 2 /\ D(y, 2) = (y \div 64) % 2
      /\ D(y, 3) = (y \div 32) % 2 /\ D(y, 4) = (y \div 16) % 2
      /\ D(y, 5) = (y \div 8) % 2 /\ D(y, 6) = (y \div 4) % 2
      /\ D(y, 7) = (y \div 2) % 2 /\ D(y, 8) = y % 2
  BY <1>3, BitsOfByte
<1> HIDE DEF D
<1>8. /\ D(y, 1) = D(x, 2) /\ D(y, 2) = D(x, 3) /\ D(y, 3) = D(x, 4) /\ D(y, 4) = D(x, 5)
      /\ D(y, 5) = D(x, 6) /\ D(y, 6) = D(x, 7) /\ D(y, 7) = D(x, 8) /\ D(y, 8) = c
  BY ONLY <1>4, <1>6, <1>7
<1>9. ASSUME NEW i \in 1..8 PROVE D(y, i) = IF i = 8 THEN c ELSE D(x, i + 1)
  <2>1. i = 1 \/ i = 2 \/ i = 3 \/ i = 4 \/ i = 5 \/ i = 6 \/ i = 7 \/ i = 8
    OBVIOUS
  <2>2. 1 + 1 = 2 /\ 2 + 1 = 3 /\ 3 + 1 = 4 /\ 4 + 1 = 5 /\ 5 + 1 = 6 /\ 6 + 1 = 7 /\ 7 + 1 = 8
    OBVIOUS
  <2> QED  BY ONLY <1>8, <2>1, <2>2
<1> QED  BY <1>3, <1>5, <1>6, <1>9 DEF D, y

\* A bit is 0 or 1, and the bits of a word are all there is to it.
LEMMA BitsOfWord ==
    /\ \A w \in Word : \A i \in 1..16 : Bit(w, i) \in 0..1
    /\ \A a, b \in Word : (\A i \in 1..16 : Bit(a, i) = Bit(b, i)) => a = b
<1>1. ASSUME NEW w \in Word, NEW i \in 1..16 PROVE Bit(w, i) \in 0..1
  <2>1. w \div 256 \in Nat /\ w % 256 \in Nat
    BY BytesOfWord, Ranges
  <2>2. 2 \in Nat \ {0} /\ 8 \in Nat /\ 0..2 - 1 = 0..1
    OBVIOUS
  <2>3. \A v \in Nat : \A k \in 1..8 : Digit(2, v, 8, k) \in 0..2 - 1
    BY <2>2, DigitRange
  <2>4. CASE i <= 8
    <3>1. i \in 1..8
      BY <2>4
    <3> QED  BY <2>1, <2>2, <2>3, <2>4, <3>1 DEF Bit
  <2>5. CASE ~(i <= 8)
    <3>1. i - 8 \in 1..8
      BY <2>5
    <3> QED  BY <2>1, <2>2, <2>3, <2>5, <3>1 DEF Bit
  <2> QED  BY <2>4, <2>5
<1>2. ASSUME NEW a \in Word, NEW b \in Word, \A i \in 1..16 : Bit(a, i) = Bit(b, i)
      PROVE  a = b
  <2>1. /\ a \div 256 \in Byte /\ b \div 256 \in Byte
        /\ a % 256 \in Byte /\ b % 256 \in Byte
    BY BytesOfWord
  <2>2. \A i \in 1..8 : Digit(2, a \div 256, 8, i) = Digit(2, b \div 256, 8, i)
    <3> SUFFICES ASSUME NEW i \in 1..8
                 PROVE  Digit(2, a \div 256, 8, i) = Digit(2, b \div 256, 8, i)
      OBVIOUS
    <3>1. i \in 1..16 /\ i <= 8
      OBVIOUS
    <3> QED  BY <1>2, <3>1 DEF Bit
  <2>3. \A i \in 1..8 : Digit(2, a % 256, 8, i) = Digit(2, b % 256, 8, i)
    <3> SUFFICES ASSUME NEW i \in 1..8
                 PROVE  Digit(2, a % 256, 8, i) = Digit(2, b % 256, 8, i)
      OBVIOUS
    <3>1. i + 8 \in 1..16 /\ ~(i + 8 <= 8) /\ (i + 8) - 8 = i
      OBVIOUS
    <3>2. Bit(a, i + 8) = Bit(b, i + 8)
      BY <1>2, <3>1
    <3> QED  BY <3>1, <3>2 DEF Bit
  <2>4. a \div 256 = b \div 256 /\ a % 256 = b % 256
    BY <2>1, <2>2, <2>3, SameBits
  <2> QED  BY <2>4, SameBytes
<1> QED  BY <1>1, <1>2

\* Exclusive or adds bit by bit.
LEMMA XorBit ==
    \A a, b \in Word : \A i \in 1..16 : Bit(Xor(a, b), i) = Either(Bit(a, i), Bit(b, i))
<1>1. ASSUME NEW a \in Byte, NEW b \in Byte, NEW i \in 1..8
      PROVE  Digit(2, XorOfBytes[a][b], 8, i)
               = Either(Digit(2, a, 8, i), Digit(2, b, 8, i))
  <2> DEFINE v == XorOfBytes[a][b]
  <2>1. v = Value(2, XorBits(a, b)) /\ XorBits(a, b) \in [1..8 -> 0..2 - 1]
    BY XorBitsType
  <2>2. v \in Nat /\ v < Power(2, 8) /\ 2 \in Nat \ {0} /\ 8 \in Nat
    BY XorOfBytesType, Ranges, Powers
  <2> HIDE DEF v
  <2>3. Value(2, DigitsOf(2, v, 8)) = v
    BY <2>2, ValueOfDigits
  <2>4. DigitsOf(2, v, 8) \in [1..8 -> 0..2 - 1]
    BY <2>2, DigitRange DEF DigitsOf
  <2>5. DigitsOf(2, v, 8) = XorBits(a, b)
    BY <2>1, <2>2, <2>3, <2>4, ValueInjective
  <2>6. DigitsOf(2, v, 8)[i] = Digit(2, v, 8, i)
    BY DEF DigitsOf
  <2>7. XorBits(a, b)[i] = Either(Digit(2, a, 8, i), Digit(2, b, 8, i))
    BY DEF XorBits, Either
  <2> QED  BY <2>5, <2>6, <2>7 DEF v
<1> SUFFICES ASSUME NEW a \in Word, NEW b \in Word, NEW i \in 1..16
             PROVE  Bit(Xor(a, b), i) = Either(Bit(a, i), Bit(b, i))
  OBVIOUS
<1> DEFINE h == XorOfBytes[a \div 256][b \div 256]
           l == XorOfBytes[a % 256][b % 256]
<1>2. a \div 256 \in Byte /\ b \div 256 \in Byte /\ a % 256 \in Byte /\ b % 256 \in Byte
  BY BytesOfWord
<1>3. h \in Byte /\ l \in Byte
  BY <1>2, XorOfBytesType
<1>4. Xor(a, b) = 256 * h + l
  BY DEF Xor
<1>5. Xor(a, b) \div 256 = h /\ Xor(a, b) % 256 = l
  <2> HIDE DEF h, l
  <2>1. h \in Nat /\ l \in Nat /\ l < 256
    BY <1>3, Ranges
  <2> QED  BY <1>4, <2>1
<1>6. CASE i <= 8
  <2>1. i \in 1..8
    BY <1>6
  <2>2. Digit(2, h, 8, i) = Either(Digit(2, a \div 256, 8, i), Digit(2, b \div 256, 8, i))
    BY <1>1, <1>2, <2>1
  <2> QED  BY <1>5, <1>6, <2>2 DEF Bit
<1>7. CASE ~(i <= 8)
  <2>1. i - 8 \in 1..8
    BY <1>7
  <2>2. Digit(2, l, 8, i - 8) = Either(Digit(2, a % 256, 8, i - 8), Digit(2, b % 256, 8, i - 8))
    BY <1>1, <1>2, <2>1
  <2> QED  BY <1>5, <1>7, <2>2 DEF Bit
<1> QED  BY <1>6, <1>7

\* Sums of four coefficients may be taken in another order.
LEMMA EitherMedial ==
    \A a, b, c, d \in 0..1 : /\ Either(a, b) \in 0..1 /\ Either(a, 0) = a
                             /\ Either(Either(a, b), Either(c, d))
                                  = Either(Either(a, c), Either(b, d))
BY DEF Either

\* Adding nothing changes nothing.
LEMMA XorZero == \A a \in Word : Xor(a, 0) = a
<1> SUFFICES ASSUME NEW a \in Word PROVE Xor(a, 0) = a
  OBVIOUS
<1>1. 0 \in Byte /\ 0 \in Word
  BY Ranges
<1>2. Xor(a, 0) \in Word
  BY <1>1, XorType
<1>3. \A i \in 1..8 : Digit(2, 0, 8, i) = 0
  <2> DEFINE D(i) == Digit(2, 0, 8, i)
  <2>1. D(1) = 0 /\ D(2) = 0 /\ D(3) = 0 /\ D(4) = 0 /\ D(5) = 0 /\ D(6) = 0 /\ D(7) = 0
        /\ D(8) = 0
    BY <1>1, BitsOfByte
  <2> HIDE DEF D
  <2>2. ASSUME NEW i \in 1..8 PROVE D(i) = 0
    <3>1. i = 1 \/ i = 2 \/ i = 3 \/ i = 4 \/ i = 5 \/ i = 6 \/ i = 7 \/ i = 8
      OBVIOUS
    <3> QED  BY <2>1, <3>1
  <2> QED  BY <2>2 DEF D
<1>4. ASSUME NEW i \in 1..16 PROVE Bit(0, i) = 0
  <2>1. 0 \div 256 = 0 /\ 0 % 256 = 0 /\ (i <= 8 => i \in 1..8) /\ (~(i <= 8) => i - 8 \in 1..8)
    OBVIOUS
  <2> QED  BY <1>3, <2>1 DEF Bit
<1>5. ASSUME NEW i \in 1..16 PROVE Bit(Xor(a, 0), i) = Bit(a, i)
  <2>1. Bit(Xor(a, 0), i) = Either(Bit(a, i), Bit(0, i))
    BY <1>1, XorBit
  <2>2. Bit(a, i) \in 0..1
    BY BitsOfWord
  <2> QED  BY <1>4, <2>1, <2>2, EitherMedial
<1> QED  BY <1>2, <1>5, BitsOfWord

\* A word shifted by one, with a bit shifted in
LEMMA WordShifted ==
    \A w \in Word, b \in 0..1 :
        /\ ShiftIn(w, b, 65536) \in Word
        /\ \A i \in 1..16 : Bit(ShiftIn(w, b, 65536), i) = IF i = 16 THEN b ELSE Bit(w, i + 1)
        /\ Bit(w, 1) = IF w >= 32768 THEN 1 ELSE 0
<1> SUFFICES ASSUME NEW w \in Word, NEW b \in 0..1
             PROVE  /\ ShiftIn(w, b, 65536) \in Word
                    /\ \A i \in 1..16 : Bit(ShiftIn(w, b, 65536), i)
                                          = IF i = 16 THEN b ELSE Bit(w, i + 1)
                    /\ Bit(w, 1) = IF w >= 32768 THEN 1 ELSE 0
  OBVIOUS
<1> DEFINE v == ShiftIn(w, b, 65536)
           h == w \div 256
           l == w % 256
           c == IF l >= 128 THEN 1 ELSE 0
           k == ShiftIn(h, c, 256)
           m == ShiftIn(l, b, 256)
<1>1. h \in Byte /\ l \in Byte
  BY BytesOfWord
<1>2. w \in Nat /\ w = 256 * h + l /\ h \in Nat /\ l \in Nat /\ h < 256 /\ l < 256
  BY Ranges
<1>3. /\ \A i \in 1..16 : Bit(w, i) = IF i <= 8 THEN Digit(2, h, 8, i) ELSE Digit(2, l, 8, i - 8)
  BY DEF Bit
<1> HIDE DEF h, l
<1>4. c \in 0..1
  OBVIOUS
<1>5. /\ m \in Byte
      /\ \A i \in 1..8 : Digit(2, m, 8, i) = IF i = 8 THEN b ELSE Digit(2, l, 8, i + 1)
      /\ Digit(2, l, 8, 1) = IF l >= 128 THEN 1 ELSE 0
  BY <1>1, ByteShifted
<1>6. /\ k \in Byte
      /\ \A i \in 1..8 : Digit(2, k, 8, i) = IF i = 8 THEN c ELSE Digit(2, h, 8, i + 1)
      /\ Digit(2, h, 8, 1) = IF h >= 128 THEN 1 ELSE 0
  <2> HIDE DEF c
  <2> QED  BY <1>1, <1>4, ByteShifted
<1>7. (w >= 32768) <=> (h >= 128)
  BY <1>2
<1>8. v = 256 * k + m
  BY <1>2, <1>7 DEF ShiftIn
<1>9. Digit(2, l, 8, 1) = c
  BY <1>5
<1> HIDE DEF k, m, c, v
<1>10. v \in Word /\ v \div 256 = k /\ v % 256 = m
  <2>1. v \in Word
    BY <1>5, <1>6, <1>8, BytesOfWord
  <2>2. k \in Nat /\ m \in Nat /\ m < 256
    BY <1>5, <1>6, Ranges
  <2> QED  BY <1>8, <2>1, <2>2
<1>11. Bit(w, 1) = IF w >= 32768 THEN 1 ELSE 0
  <2>1. 1 \in 1..16 /\ 1 <= 8
    OBVIOUS
  <2> QED  BY <1>3, <1>6, <1>7, <2>1
<1>12. ASSUME NEW i \in 1..16 PROVE Bit(v, i) = IF i = 16 THEN b ELSE Bit(w, i + 1)
  <2>1. Bit(v, i) = IF i <= 8 THEN Digit(2, k, 8, i) ELSE Digit(2, m, 8, i - 8)
    BY <1>10 DEF Bit
  <2>2. CASE i < 8
    <3>1. i \in 1..8 /\ i # 8 /\ i # 16 /\ i <= 8 /\ i + 1 \in 1..16 /\ i + 1 <= 8
      BY <2>2
    <3> QED  BY <1>3, <1>6, <2>1, <3>1
  <2>3. CASE i = 8
    <3>1. 8 \in 1..8 /\ 8 # 16 /\ 8 <= 8 /\ 8 + 1 \in 1..16 /\ ~(8 + 1 <= 8) /\ (8 + 1) - 8 = 1
      OBVIOUS
    <3>2. Bit(v, 8) = c
      BY <1>6, <2>1, <2>3, <3>1
    <3>3. Bit(w, 8 + 1) = Digit(2, l, 8, 1)
      BY <1>3, <3>1
    <3> QED  BY <1>9, <2>3, <3>1, <3>2, <3>3
  <2>4. CASE 8 < i /\ i < 16
    <3>1. /\ i - 8 \in 1..8 /\ i - 8 # 8 /\ i # 16 /\ ~(i <= 8) /\ i + 1 \in 1..16
          /\ ~(i + 1 <= 8) /\ (i - 8) + 1 = (i + 1) - 8
      BY <2>4
    <3> QED  BY <1>3, <1>5, <2>1, <3>1
  <2>5. CASE i = 16
    <3>1. 16 - 8 = 8 /\ 8 \in 1..8 /\ ~(16 <= 8)
      OBVIOUS
    <3> QED  BY <1>5, <2>1, <2>5, <3>1
  <2>6. i < 8 \/ i = 8 \/ (8 < i /\ i < 16) \/ i = 16
    OBVIOUS
  <2> QED  BY <2>2, <2>3, <2>4, <2>5, <2>6
<1> QED  BY <1>10, <1>11, <1>12 DEF v

\* The bits of what the polynomial leaves after x^16
LEMMA GeneratorBits ==
    /\ 4129 \in Word
    /\ \A i \in 1..16 : Bit(4129, i) = IF i \in {4, 11, 16} THEN 1 ELSE 0
<1>1. 4129 \in Word /\ 16 \in Byte /\ 33 \in Byte
  BY Ranges
<1>2. 4129 \div 256 = 16 /\ 4129 % 256 = 33
  OBVIOUS
<1>3. /\ (16 \div 128) % 2 = 0 /\ (16 \div 64) % 2 = 0 /\ (16 \div 32) % 2 = 0
      /\ (16 \div 16) % 2 = 1 /\ (16 \div 8) % 2 = 0 /\ (16 \div 4) % 2 = 0
      /\ (16 \div 2) % 2 = 0 /\ 16 % 2 = 0
      /\ (33 \div 128) % 2 = 0 /\ (33 \div 64) % 2 = 0 /\ (33 \div 32) % 2 = 1
      /\ (33 \div 16) % 2 = 0 /\ (33 \div 8) % 2 = 0 /\ (33 \div 4) % 2 = 0
      /\ (33 \div 2) % 2 = 0 /\ 33 % 2 = 1
  OBVIOUS
<1> DEFINE H(i) == Digit(2, 16, 8, i)
           L(i) == Digit(2, 33, 8, i)
<1>4. /\ H(1) = 0 /\ H(2) = 0 /\ H(3) = 0 /\ H(4) = 1 /\ H(5) = 0 /\ H(6) = 0 /\ H(7) = 0
      /\ H(8) = 0
  BY <1>1, <1>3, BitsOfByte
<1>5. /\ L(1) = 0 /\ L(2) = 0 /\ L(3) = 1 /\ L(4) = 0 /\ L(5) = 0 /\ L(6) = 0 /\ L(7) = 0
      /\ L(8) = 1
  BY <1>1, <1>3, BitsOfByte
<1>6. \A i \in 1..16 : Bit(4129, i) = IF i <= 8 THEN H(i) ELSE L(i - 8)
  BY <1>2 DEF Bit
<1> HIDE DEF H, L
<1>7. ASSUME NEW i \in 1..16 PROVE Bit(4129, i) = IF i \in {4, 11, 16} THEN 1 ELSE 0
  <2>1. CASE i <= 8
    <3>1. i = 1 \/ i = 2 \/ i = 3 \/ i = 4 \/ i = 5 \/ i = 6 \/ i = 7 \/ i = 8
      BY <2>1
    <3> QED  BY <1>4, <1>6, <2>1, <3>1
  <2>2. CASE ~(i <= 8)
    <3> DEFINE j == i - 8
    <3>1. j = 1 \/ j = 2 \/ j = 3 \/ j = 4 \/ j = 5 \/ j = 6 \/ j = 7 \/ j = 8
      BY <2>2
    <3>2. i \in {4, 11, 16} <=> j = 3 \/ j = 8
      BY <2>2
    <3>3. Bit(4129, i) = L(j)
      BY <1>6, <2>2
    <3> HIDE DEF j
    <3> QED  BY <1>5, <3>1, <3>2, <3>3
  <2> QED  BY <2>1, <2>2
<1> QED  BY <1>1, <1>7

\* One step of the division, bit by bit
LEMMA DivideBits ==
    ASSUME NEW w \in Word, NEW b \in 0..1
    PROVE  /\ Divide(w, b) \in Word
           /\ \A i \in 1..16 :
                Bit(Divide(w, b), i) = Either(IF i = 16 THEN b ELSE Bit(w, i + 1),
                                              IF i \in {4, 11, 16} THEN Bit(w, 1) ELSE 0)
<1> DEFINE v == ShiftIn(w, b, 65536)
           next(i) == IF i = 16 THEN b ELSE Bit(w, i + 1)
<1>1. /\ v \in Word
      /\ \A i \in 1..16 : Bit(v, i) = next(i)
      /\ Bit(w, 1) = IF w >= 32768 THEN 1 ELSE 0
  BY WordShifted
<1>2. w \in Nat /\ w < 65536
  BY Ranges
<1>3. Divide(w, b) = IF w >= 32768 THEN Xor(v, 4129) ELSE v
  <2>1. 2 * w + b >= 65536 <=> w >= 32768
    BY <1>2
  <2>2. 4096 + 32 + 1 = 4129
    OBVIOUS
  <2>3. CASE w >= 32768
    <3>1. v = (2 * w + b) - 65536
      BY <1>2, <2>3 DEF ShiftIn
    <3> QED  BY <2>1, <2>2, <2>3, <3>1 DEF Divide
  <2>4. CASE ~(w >= 32768)
    <3>1. v = 2 * w + b
      BY <1>2, <2>4 DEF ShiftIn
    <3> QED  BY <2>1, <2>4, <3>1 DEF Divide
  <2> QED  BY <2>3, <2>4
<1>4. \A i \in 1..16 : next(i) \in 0..1
  BY <1>1, BitsOfWord
<1> HIDE DEF v, next
<1>5. Divide(w, b) \in Word
  BY <1>1, <1>3, GeneratorBits, XorType
<1>6. ASSUME NEW i \in 1..16
      PROVE  Bit(Divide(w, b), i)
               = Either(next(i), IF i \in {4, 11, 16} THEN Bit(w, 1) ELSE 0)
  <2>1. CASE w >= 32768
    <3>1. Bit(Xor(v, 4129), i) = Either(Bit(v, i), Bit(4129, i))
      BY <1>1, GeneratorBits, XorBit
    <3>2. Bit(4129, i) = IF i \in {4, 11, 16} THEN Bit(w, 1) ELSE 0
      BY <1>1, <2>1, GeneratorBits
    <3> QED  BY <1>1, <1>3, <2>1, <3>1, <3>2
  <2>2. CASE ~(w >= 32768)
    <3>1. (IF i \in {4, 11, 16} THEN Bit(w, 1) ELSE 0) = 0
      BY <1>1, <2>2
    <3>2. Either(next(i), 0) = next(i)
      BY <1>4, EitherMedial
    <3> QED  BY <1>1, <1>3, <2>2, <3>1, <3>2
  <2> QED  BY <2>1, <2>2
<1> QED  BY <1>5, <1>6 DEF next

\* The division is linear.
LEMMA DivideLinear ==
    ASSUME NEW a \in Word, NEW b \in Word, NEW c \in 0..1, NEW d \in 0..1
    PROVE  Divide(Xor(a, b), Either(c, d)) = Xor(Divide(a, c), Divide(b, d))
<1> DEFINE x == Xor(a, b)
           e == Either(c, d)
           G(i) == i \in {4, 11, 16}
<1>1. x \in Word /\ e \in 0..1
  BY XorType, EitherMedial
<1>2. \A i \in 1..16 : Bit(x, i) = Either(Bit(a, i), Bit(b, i))
  BY XorBit
<1> HIDE DEF x
<1>3. /\ Divide(x, e) \in Word
      /\ \A i \in 1..16 : Bit(Divide(x, e), i)
            = Either(IF i = 16 THEN e ELSE Bit(x, i + 1), IF G(i) THEN Bit(x, 1) ELSE 0)
  <2> HIDE DEF e
  <2> QED  BY <1>1, DivideBits
<1>4. /\ Divide(a, c) \in Word
      /\ \A i \in 1..16 : Bit(Divide(a, c), i)
            = Either(IF i = 16 THEN c ELSE Bit(a, i + 1), IF G(i) THEN Bit(a, 1) ELSE 0)
  BY DivideBits
<1>5. /\ Divide(b, d) \in Word
      /\ \A i \in 1..16 : Bit(Divide(b, d), i)
            = Either(IF i = 16 THEN d ELSE Bit(b, i + 1), IF G(i) THEN Bit(b, 1) ELSE 0)
  BY DivideBits
<1> DEFINE y == Xor(Divide(a, c), Divide(b, d))
<1>6. /\ y \in Word
      /\ \A i \in 1..16 : Bit(y, i) = Either(Bit(Divide(a, c), i), Bit(Divide(b, d), i))
  BY <1>4, <1>5, XorType, XorBit
<1> HIDE DEF y
<1>7. ASSUME NEW i \in 1..16 PROVE Bit(Divide(x, e), i) = Bit(y, i)
  <2> DEFINE na == IF i = 16 THEN c ELSE Bit(a, i + 1)
             nb == IF i = 16 THEN d ELSE Bit(b, i + 1)
             nx == IF i = 16 THEN e ELSE Bit(x, i + 1)
             ga == IF G(i) THEN Bit(a, 1) ELSE 0
             gb == IF G(i) THEN Bit(b, 1) ELSE 0
             gx == IF G(i) THEN Bit(x, 1) ELSE 0
  <2>1. 1 \in 1..16 /\ (i # 16 => i + 1 \in 1..16)
    OBVIOUS
  <2>2. na \in 0..1 /\ nb \in 0..1 /\ ga \in 0..1 /\ gb \in 0..1
    BY <2>1, BitsOfWord
  <2>3. nx = Either(na, nb)
    BY <1>2, <2>1
  <2>4. gx = Either(ga, gb)
    <3>1. Either(0, 0) = 0
      BY DEF Either
    <3> QED  BY <1>2, <2>1, <3>1
  <2>5. /\ Bit(Divide(x, e), i) = Either(nx, gx)
        /\ Bit(Divide(a, c), i) = Either(na, ga) /\ Bit(Divide(b, d), i) = Either(nb, gb)
        /\ Bit(y, i) = Either(Bit(Divide(a, c), i), Bit(Divide(b, d), i))
    BY <1>3, <1>4, <1>5, <1>6
  <2> HIDE DEF na, nb, nx, ga, gb, gx
  <2>6. Either(Either(na, nb), Either(ga, gb)) = Either(Either(na, ga), Either(nb, gb))
    BY <2>2, EitherMedial
  <2> QED  BY ONLY <2>3, <2>4, <2>5, <2>6
<1>8. Divide(x, e) = y
  BY <1>3, <1>6, <1>7, BitsOfWord
<1> QED  BY <1>8 DEF x, y

\* The inner loop of nstarCRC16Xmodem divides too, with nothing shifted in.
LEMMA ShiftDivides == \A w \in Word : ShiftCRC(w) = Divide(w, 0)
<1> SUFFICES ASSUME NEW w \in Word PROVE ShiftCRC(w) = Divide(w, 0)
  OBVIOUS
<1>1. w \in Nat /\ w < 65536
  BY Ranges
<1>2. CASE w >= 32768
  <2>1. (2 * w) % 65536 = (2 * w + 0) - 65536 /\ 2 * w + 0 >= 65536 /\ 4096 + 32 + 1 = 4129
    BY <1>1, <1>2
  <2> QED  BY <1>2, <2>1 DEF ShiftCRC, Divide
<1>3. CASE ~(w >= 32768)
  <2>1. 2 * w = 2 * w + 0 /\ ~(2 * w + 0 >= 65536)
    BY <1>1, <1>3
  <2> QED  BY <1>3, <2>1 DEF ShiftCRC, Divide
<1> QED  BY <1>2, <1>3

\* Three loops whose passes keep a relation R between their values ...
Together(R, T, n, A, B, C) ==
    /\ R \subseteq T \X T \X T
    /\ \A k \in 1..n : /\ A[k] \in [T -> T] /\ B[k] \in [T -> T] /\ C[k] \in [T -> T]
                       /\ \A t \in R : <<A[k][t[1]], B[k][t[2]], C[k][t[3]]>> \in R

\* ... end with values that are in it, if they begin with such.
LEMMA PassesTogether ==
    ASSUME NEW T, NEW n \in Nat, NEW A, NEW B, NEW C, NEW R, Together(R, T, n, A, B, C),
           NEW x \in T, NEW y \in T, NEW z \in T, <<x, y, z>> \in R
    PROVE  <<Passes(x, 0, n, A), Passes(y, 0, n, B), Passes(z, 0, n, C)>> \in R
<1>1. 0 \in Nat /\ \A k \in 1..n : 0 + k = k
  OBVIOUS
<1>2. \A k \in 1..n : A[0 + k] \in [T -> T] /\ B[0 + k] \in [T -> T] /\ C[0 + k] \in [T -> T]
  BY <1>1 DEF Together
<1>3. PICK p : Trace(p, T, x, 0, n, A)
  BY <1>1, <1>2, PassesTrace
<1>4. PICK q : Trace(q, T, y, 0, n, B)
  BY <1>1, <1>2, PassesTrace
<1>5. PICK r : Trace(r, T, z, 0, n, C)
  BY <1>1, <1>2, PassesTrace
<1> DEFINE S == {k \in 0..n : <<p[k], q[k], r[k]>> \in R}
<1>6. 0 \in S
  BY <1>3, <1>4, <1>5 DEF Trace
<1>7. ASSUME NEW k \in 0..n, k # n, k \in S PROVE k + 1 \in S
  <2> DEFINE t == <<p[k], q[k], r[k]>>
  <2>1. k + 1 \in 1..n /\ (k + 1) - 1 = k /\ k + 1 \in 0..n
    BY <1>7
  <2>2. /\ p[k + 1] = A[k + 1][p[k]] /\ q[k + 1] = B[k + 1][q[k]]
        /\ r[k + 1] = C[k + 1][r[k]]
    BY <1>1, <1>3, <1>4, <1>5, <2>1 DEF Trace
  <2>3. t \in R
    BY <1>7
  <2>4. <<A[k + 1][t[1]], B[k + 1][t[2]], C[k + 1][t[3]]>> \in R
    BY <2>1, <2>3 DEF Together
  <2>5. <<p[k + 1], q[k + 1], r[k + 1]>> \in R
    BY <2>2, <2>4
  <2> QED  BY <2>1, <2>5
<1> HIDE DEF S
<1>8. \A k \in 0..n : k \in S
  BY <1>6, <1>7, Induction
<1>9. n \in S
  BY <1>8
<1> QED  BY <1>3, <1>4, <1>5, <1>9 DEF S, Trace

\* The words that add up to a third
Added == {t \in Word \X Word \X Word : t[3] = Xor(t[1], t[2])}

\* The passes over the bits of a character, ...
DividePasses(c) ==
    [k \in 1..8 |-> [rem \in Word |-> Divide(rem, Digit(2, c, 8, k))]]

\* They divide by one coefficient each, and stay among the words.
LEMMA DividePassesAre ==
    ASSUME NEW c \in Byte
    PROVE  /\ \A k \in 1..8 : Digit(2, c, 8, k) \in 0..1 /\ DividePasses(c)[k] \in [Word -> Word]
           /\ \A k \in 1..8, w \in Word :
                DividePasses(c)[k][w] = Divide(w, Digit(2, c, 8, k))
           /\ \A r : Divided8(r, c) = Passes(r, 0, 8, DividePasses(c))
<1>1. \A k \in 1..8 : Digit(2, c, 8, k) \in 0..1
  <2>1. 2 \in Nat \ {0} /\ 8 \in Nat /\ c \in Nat /\ 0..2 - 1 = 0..1
    BY Ranges
  <2> QED  BY <2>1, DigitRange
<1>2. ASSUME NEW k \in 1..8 PROVE DividePasses(c)[k] \in [Word -> Word]
  <2>1. \A w \in Word : Divide(w, Digit(2, c, 8, k)) \in Word
    BY <1>1, DivideBits
  <2> QED  BY <2>1 DEF DividePasses
<1>3. \A k \in 1..8, w \in Word : DividePasses(c)[k][w] = Divide(w, Digit(2, c, 8, k))
  BY DEF DividePasses
<1>4. \A r : Divided8(r, c) = Passes(r, 0, 8, DividePasses(c))
  BY DEF Divided8, DividePasses
<1> QED  BY <1>1, <1>2, <1>3, <1>4

\* ... and over eight zeros
ShiftPasses == [bit \in 1..8 |-> [before \in Word |-> ShiftCRC(before)]]

\* They do, too.
LEMMA ShiftPassesAre ==
    /\ \A k \in 1..8 : ShiftPasses[k] \in [Word -> Word]
    /\ \A k \in 1..8, w \in Word : ShiftPasses[k][w] = Divide(w, 0)
    /\ \A r \in Word : Shifted8[r] = Passes(r, 0, 8, ShiftPasses)
<1>1. \A k \in 1..8 : ShiftPasses[k] \in [Word -> Word]
  BY ShiftCRCType DEF ShiftPasses
<1>2. \A k \in 1..8, w \in Word : ShiftPasses[k][w] = Divide(w, 0)
  BY ShiftDivides DEF ShiftPasses
<1>3. \A r \in Word : Shifted8[r] = Passes(r, 0, 8, ShiftPasses)
  BY DEF Shifted8, ShiftPasses
<1> QED  BY <1>1, <1>2, <1>3

\* The shift of a sum is the sum of the shifts, ...
LEMMA Shifted8Linear ==
    \A a, b \in Word : Shifted8[Xor(a, b)] = Xor(Shifted8[a], Shifted8[b])
<1> SUFFICES ASSUME NEW a \in Word, NEW b \in Word
             PROVE  Shifted8[Xor(a, b)] = Xor(Shifted8[a], Shifted8[b])
  OBVIOUS
<1> DEFINE T == Word
           n == 8
           A == ShiftPasses
           x == Xor(a, b)
<1>1. n \in Nat /\ x \in T /\ <<a, b, x>> \in Added
  BY XorType DEF Added
<1>2. Together(Added, T, n, A, A, A)
  <2>1. Either(0, 0) = 0 /\ 0 \in 0..1
    BY DEF Either
  <2>2. ASSUME NEW k \in 1..8, NEW t \in Added
        PROVE  <<A[k][t[1]], A[k][t[2]], A[k][t[3]]>> \in Added
    <3> DEFINE u == t[1]
               v == t[2]
    <3>1. u \in Word /\ v \in Word /\ t[3] = Xor(u, v) /\ Xor(u, v) \in Word
      BY XorType DEF Added
    <3> HIDE DEF u, v
    <3>2. A[k][u] = Divide(u, 0) /\ A[k][v] = Divide(v, 0) /\ A[k][t[3]] = Divide(Xor(u, v), 0)
      BY <3>1, ShiftPassesAre
    <3>3. Divide(Xor(u, v), 0) = Xor(Divide(u, 0), Divide(v, 0))
      BY <2>1, <3>1, DivideLinear
    <3>4. Divide(u, 0) \in Word /\ Divide(v, 0) \in Word /\ Divide(Xor(u, v), 0) \in Word
      BY <2>1, <3>1, DivideBits
    <3> HIDE DEF A
    <3>5. <<A[k][u], A[k][v], A[k][t[3]]>> \in Added
      BY <3>2, <3>3, <3>4 DEF Added
    <3> QED  BY <3>5 DEF u, v
  <2>3. Added \subseteq T \X T \X T
    BY DEF Added
  <2> QED  BY <2>2, <2>3, ShiftPassesAre DEF Together
<1> HIDE DEF n, A, T, x
<1>3. <<Passes(a, 0, n, A), Passes(b, 0, n, A), Passes(x, 0, n, A)>> \in Added
  <2>1. a \in T /\ b \in T
    BY DEF T
  <2> QED  BY <1>1, <1>2, <2>1, PassesTogether
<1>4. Passes(x, 0, n, A) = Xor(Passes(a, 0, n, A), Passes(b, 0, n, A))
  BY <1>3 DEF Added
<1> QED  BY <1>1, <1>4, ShiftPassesAre DEF n, A, T, x

\* ... and so the bits of a character may be added in one by one, or at the end.
LEMMA Divided8Splits ==
    ASSUME NEW r \in Word, NEW c \in Byte
    PROVE  Divided8(r, c) = Xor(Shifted8[r], Divided8(0, c)) /\ Divided8(0, c) \in Word
<1> DEFINE T == Word
           n == 8
           A == ShiftPasses
           B == DividePasses(c)
<1>1. n \in Nat /\ r \in T /\ 0 \in T /\ <<r, 0, r>> \in Added
  BY XorZero, Ranges DEF Added
<1>2. Together(Added, T, n, A, B, B)
  <2>1. ASSUME NEW k \in 1..8, NEW t \in Added
        PROVE  <<A[k][t[1]], B[k][t[2]], B[k][t[3]]>> \in Added
    <3> DEFINE u == t[1]
               v == t[2]
               d == Digit(2, c, 8, k)
    <3>1. u \in Word /\ v \in Word /\ t[3] = Xor(u, v) /\ Xor(u, v) \in Word
      BY XorType DEF Added
    <3>2. d \in 0..1 /\ 0 \in 0..1
      BY DividePassesAre
    <3>3. B[k][v] = Divide(v, d) /\ B[k][t[3]] = Divide(Xor(u, v), d)
      BY <3>1, DividePassesAre
    <3>4. A[k][u] = Divide(u, 0)
      BY <3>1, ShiftPassesAre
    <3> HIDE DEF u, v, d, A, B
    <3>5. Either(0, d) = d
      BY <3>2 DEF Either
    <3>6. Divide(Xor(u, v), d) = Xor(Divide(u, 0), Divide(v, d))
      <4>1. Divide(Xor(u, v), Either(0, d)) = Xor(Divide(u, 0), Divide(v, d))
        BY <3>1, <3>2, DivideLinear
      <4> QED  BY <3>5, <4>1
    <3>7. Divide(u, 0) \in Word /\ Divide(v, d) \in Word /\ Divide(Xor(u, v), d) \in Word
      BY <3>1, <3>2, DivideBits
    <3>8. <<A[k][u], B[k][v], B[k][t[3]]>> \in Added
      BY <3>3, <3>4, <3>6, <3>7 DEF Added
    <3> QED  BY <3>8 DEF u, v
  <2>2. Added \subseteq T \X T \X T
    BY DEF Added
  <2>3. \A k \in 1..8 : A[k] \in [T -> T] /\ B[k] \in [T -> T]
    BY ShiftPassesAre, DividePassesAre
  <2> QED  BY <2>1, <2>2, <2>3 DEF Together
<1>3. /\ Divided8(r, c) = Passes(r, 0, n, B) /\ Divided8(0, c) = Passes(0, 0, n, B)
      /\ Shifted8[r] = Passes(r, 0, n, A)
  BY ShiftPassesAre, DividePassesAre
<1> HIDE DEF n, A, B, T
<1>4. <<Passes(r, 0, n, A), Passes(0, 0, n, B), Passes(r, 0, n, B)>> \in Added
  BY <1>1, <1>2, PassesTogether
<1> QED  BY <1>3, <1>4 DEF Added

\* Eight bits fit a word, so nothing is divided yet when they have been shifted in, ...
LEMMA FirstDivided8 == \A c \in Byte : Divided8(0, c) = c
<1> SUFFICES ASSUME NEW c \in Byte PROVE Divided8(0, c) = c
  OBVIOUS
<1> DEFINE T == Word
           n == 8
           B == DividePasses(c)
           b(k) == Digit(2, c, 8, k)
<1>1. n \in Nat /\ 0 \in T /\ 0 \in Nat /\ \A k \in 1..n : 0 + k = k
  BY Ranges
<1>2. \A k \in 1..8 : b(k) \in 0..1
  BY DividePassesAre
<1>3. /\ \A k \in 1..n : B[0 + k] \in [T -> T]
      /\ \A k \in 1..n, w \in T : B[0 + k][w] = Divide(w, b(k))
  <2>1. /\ \A k \in 1..n : B[k] \in [T -> T]
        /\ \A k \in 1..n, w \in T : B[k][w] = Divide(w, b(k))
    BY DividePassesAre
  <2> HIDE DEF n, T, B, b
  <2> QED  BY <1>1, <2>1
<1>4. Divided8(0, c) = Passes(0, 0, n, B)
  BY DividePassesAre
<1>5. /\ c \in Nat /\ c < 256
      /\ b(1) = (c \div 128) % 2 /\ b(2) = (c \div 64) % 2 /\ b(3) = (c \div 32) % 2
      /\ b(4) = (c \div 16) % 2 /\ b(5) = (c \div 8) % 2 /\ b(6) = (c \div 4) % 2
      /\ b(7) = (c \div 2) % 2 /\ b(8) = c % 2
  BY BitsOfByte, Ranges
<1>6. c = 128 * b(1) + 64 * b(2) + 32 * b(3) + 16 * b(4) + 8 * b(5) + 4 * b(6) + 2 * b(7) + b(8)
  <2> HIDE DEF b
  <2>1. /\ c = 2 * (c \div 2) + b(8) /\ c \div 2 = 2 * (c \div 4) + b(7)
        /\ c \div 4 = 2 * (c \div 8) + b(6) /\ c \div 8 = 2 * (c \div 16) + b(5)
    BY <1>5
  <2>2. /\ c \div 16 = 2 * (c \div 32) + b(4) /\ c \div 32 = 2 * (c \div 64) + b(3)
        /\ c \div 64 = 2 * (c \div 128) + b(2) /\ c \div 128 = b(1)
    BY <1>5
  <2> DEFINE c2 == c \div 2
             c4 == c \div 4
             c8 == c \div 8
             c16 == c \div 16
             c32 == c \div 32
             c64 == c \div 64
             c128 == c \div 128
  <2>3. /\ c2 \in Nat /\ c4 \in Nat /\ c8 \in Nat /\ c16 \in Nat /\ c32 \in Nat
        /\ c64 \in Nat /\ c128 \in Nat
    BY <1>5
  <2>4. \A k \in 1..8 : b(k) \in Nat
    BY <1>2
  <2>5. /\ b(1) \in Nat /\ b(2) \in Nat /\ b(3) \in Nat /\ b(4) \in Nat /\ b(5) \in Nat
        /\ b(6) \in Nat /\ b(7) \in Nat /\ b(8) \in Nat
    BY <2>4
  <2>6. /\ c = 2 * c2 + b(8) /\ c2 = 2 * c4 + b(7) /\ c4 = 2 * c8 + b(6)
        /\ c8 = 2 * c16 + b(5) /\ c16 = 2 * c32 + b(4) /\ c32 = 2 * c64 + b(3)
        /\ c64 = 2 * c128 + b(2) /\ c128 = b(1)
    BY <2>1, <2>2
  <2> HIDE DEF c2, c4, c8, c16, c32, c64, c128
  <2> QED  BY ONLY <2>3, <2>5, <2>6
<1> HIDE DEF n, T, B, b
<1>7. PICK p : Trace(p, T, 0, 0, n, B)
  BY <1>1, <1>3, PassesTrace
<1>8. ASSUME NEW k \in 1..8, p[k - 1] \in Nat, p[k - 1] < 128
      PROVE  p[k] = 2 * p[k - 1] + b(k)
  <2>1. k \in 1..n /\ k - 1 \in 0..n
    BY DEF n
  <2>2. p[k - 1] \in T
    BY <1>7, <2>1 DEF Trace
  <2>3. p[k] = Divide(p[k - 1], b(k))
    BY <1>3, <1>7, <2>1, <2>2 DEF Trace
  <2>4. ~(2 * p[k - 1] + b(k) >= 65536)
    BY <1>2, <1>8
  <2> QED  BY <2>3, <2>4 DEF Divide
<1>9. p[0] = 0
  BY <1>7 DEF Trace
<1>10. /\ b(1) \in 0..1 /\ b(2) \in 0..1 /\ b(3) \in 0..1 /\ b(4) \in 0..1
       /\ b(5) \in 0..1 /\ b(6) \in 0..1 /\ b(7) \in 0..1 /\ b(8) \in 0..1
  BY <1>2
<1>11. p[1] = b(1)
  <2>1. p[1] = 2 * p[1 - 1] + b(1)
    BY <1>8, <1>9
  <2> QED  BY <1>9, <1>10, <2>1
<1>12. p[2] = 2 * b(1) + b(2)
  <2>1. p[2 - 1] = b(1)
    BY <1>11
  <2>2. p[2 - 1] \in Nat /\ p[2 - 1] < 128
    BY <1>10, <2>1
  <2>3. p[2] = 2 * p[2 - 1] + b(2)
    BY <1>8, <2>2
  <2> QED  BY <1>10, <2>1, <2>3
<1>13. p[3] = 4 * b(1) + 2 * b(2) + b(3)
  <2>1. p[3 - 1] = 2 * b(1) + b(2)
    BY <1>12
  <2>2. p[3 - 1] \in Nat /\ p[3 - 1] < 128
    BY <1>10, <2>1
  <2>3. p[3] = 2 * p[3 - 1] + b(3)
    BY <1>8, <2>2
  <2> QED  BY <1>10, <2>1, <2>3
<1>14. p[4] = 8 * b(1) + 4 * b(2) + 2 * b(3) + b(4)
  <2>1. p[4 - 1] = 4 * b(1) + 2 * b(2) + b(3)
    BY <1>13
  <2>2. p[4 - 1] \in Nat /\ p[4 - 1] < 128
    BY <1>10, <2>1
  <2>3. p[4] = 2 * p[4 - 1] + b(4)
    BY <1>8, <2>2
  <2> QED  BY <1>10, <2>1, <2>3
<1>15. p[5] = 16 * b(1) + 8 * b(2) + 4 * b(3) + 2 * b(4) + b(5)
  <2>1. p[5 - 1] = 8 * b(1) + 4 * b(2) + 2 * b(3) + b(4)
    BY <1>14
  <2>2. p[5 - 1] \in Nat /\ p[5 - 1] < 128
    BY <1>10, <2>1
  <2>3. p[5] = 2 * p[5 - 1] + b(5)
    BY <1>8, <2>2
  <2> QED  BY <1>10, <2>1, <2>3
<1>16. p[6] = 32 * b(1) + 16 * b(2) + 8 * b(3) + 4 * b(4) + 2 * b(5) + b(6)
  <2>1. p[6 - 1] = 16 * b(1) + 8 * b(2) + 4 * b(3) + 2 * b(4) + b(5)
    BY <1>15
  <2>2. p[6 - 1] \in Nat /\ p[6 - 1] < 128
    BY <1>10, <2>1
  <2>3. p[6] = 2 * p[6 - 1] + b(6)
    BY <1>8, <2>2
  <2> QED  BY <1>10, <2>1, <2>3
<1>17. p[7] = 64 * b(1) + 32 * b(2) + 16 * b(3) + 8 * b(4) + 4 * b(5) + 2 * b(6) + b(7)
  <2>1. p[7 - 1] = 32 * b(1) + 16 * b(2) + 8 * b(3) + 4 * b(4) + 2 * b(5) + b(6)
    BY <1>16
  <2>2. p[7 - 1] \in Nat /\ p[7 - 1] < 128
    BY <1>10, <2>1
  <2>3. p[7] = 2 * p[7 - 1] + b(7)
    BY <1>8, <2>2
  <2> QED  BY <1>10, <2>1, <2>3
<1>18. p[8] = c
  <2>1. p[8 - 1] = 64 * b(1) + 32 * b(2) + 16 * b(3) + 8 * b(4) + 4 * b(5) + 2 * b(6) + b(7)
    BY <1>17
  <2>2. p[8 - 1] \in Nat /\ p[8 - 1] < 128
    <3> DEFINE x == 64 * b(1) + 32 * b(2) + 16 * b(3)
               y == 8 * b(4) + 4 * b(5) + 2 * b(6) + b(7)
    <3>1. x \in Nat /\ x <= 112 /\ y \in Nat /\ y <= 15
      BY <1>10
    <3>2. p[8 - 1] = x + y
      BY <1>10, <2>1
    <3> HIDE DEF x, y
    <3> QED  BY <3>1, <3>2
  <2>3. p[8] = 2 * p[8 - 1] + b(8)
    BY <1>8, <2>2
  <2> QED  BY <1>6, <1>10, <2>1, <2>3
<1> QED  BY <1>4, <1>7, <1>18 DEF Trace, n

\* ... nor when eight zeros have followed.
LEMMA FirstShifted8 == \A c \in Byte : Shifted8[c] = c * 256
<1> SUFFICES ASSUME NEW c \in Byte PROVE Shifted8[c] = c * 256
  OBVIOUS
<1> DEFINE T == Word
           n == 8
           A == ShiftPasses
<1>1. /\ n \in Nat /\ c \in T /\ 0 \in Nat /\ c \in Nat /\ c < 256
      /\ \A k \in 1..n : 0 + k = k
  BY Ranges
<1>2. /\ \A k \in 1..n : A[0 + k] \in [T -> T]
      /\ \A k \in 1..n, w \in T : A[0 + k][w] = Divide(w, 0)
  BY ShiftPassesAre
<1>3. Shifted8[c] = Passes(c, 0, n, A)
  BY <1>1, ShiftPassesAre
<1> HIDE DEF n, T, A
<1>4. PICK p : Trace(p, T, c, 0, n, A)
  BY <1>1, <1>2, PassesTrace
<1>5. ASSUME NEW k \in 1..8, p[k - 1] \in Nat, p[k - 1] < 32768
      PROVE  p[k] = 2 * p[k - 1]
  <2>1. k \in 1..n /\ k - 1 \in 0..n
    BY DEF n
  <2>2. p[k - 1] \in T
    BY <1>4, <2>1 DEF Trace
  <2>3. p[k] = Divide(p[k - 1], 0)
    BY <1>2, <1>4, <2>1, <2>2 DEF Trace
  <2>4. ~(2 * p[k - 1] + 0 >= 65536) /\ 2 * p[k - 1] + 0 = 2 * p[k - 1]
    BY <1>5
  <2> QED  BY <2>3, <2>4 DEF Divide
<1>6. p[1 - 1] = c
  BY <1>4 DEF Trace
<1>7. p[2 - 1] = 2 * c
  BY <1>1, <1>5, <1>6
<1>8. p[3 - 1] = 4 * c
  BY <1>1, <1>5, <1>7
<1>9. p[4 - 1] = 8 * c
  BY <1>1, <1>5, <1>8
<1>10. p[5 - 1] = 16 * c
  BY <1>1, <1>5, <1>9
<1>11. p[6 - 1] = 32 * c
  BY <1>1, <1>5, <1>10
<1>12. p[7 - 1] = 64 * c
  BY <1>1, <1>5, <1>11
<1>13. p[8 - 1] = 128 * c
  BY <1>1, <1>5, <1>12
<1>14. p[8] = c * 256
  BY <1>1, <1>5, <1>13
<1> QED  BY <1>3, <1>4, <1>14 DEF Trace, n

\* So the division takes a character in when it has shifted, ...
LEMMA Divided8Is == \A r \in Word, c \in Byte : Divided8(r, c) = Xor(Shifted8[r], c)
BY Divided8Splits, FirstDivided8

\* ... and the CRC, which takes it in before it shifts, is two zeros ahead of it.
LEMMA CRCAhead ==
    ASSUME NEW r \in Word, NEW c \in Byte
    PROVE  /\ Divided8(r, c) \in Word
           /\ Shifted8[Shifted8[Divided8(r, c)]] = AddChar(Shifted8[Shifted8[r]], c)
           /\ Divided8(r, 0) = Shifted8[r]
<1>1. /\ Shifted8[r] \in Word /\ Shifted8[Shifted8[r]] \in Word /\ c \in Word
      /\ 0 \in Byte
  BY Shifted8Type, Ranges
<1>2. Divided8(r, c) = Xor(Shifted8[r], c) /\ Xor(Shifted8[r], c) \in Word
  BY <1>1, Divided8Is, XorType
<1>3. Shifted8[Xor(Shifted8[r], c)] = Xor(Shifted8[Shifted8[r]], Shifted8[c])
  BY <1>1, Shifted8Linear
<1>4. Shifted8[c] = c * 256
  BY FirstShifted8
<1>5. Divided8(r, 0) = Shifted8[r]
  <2>1. Divided8(r, 0) = Xor(Shifted8[r], 0)
    BY <1>1, Divided8Is
  <2> QED  BY <1>1, <2>1, XorZero
<1> QED  BY <1>2, <1>3, <1>4, <1>5 DEF AddChar

\* The CRC of the code, table and all, is CRC16-XMODEM: the remainder that the
\* characters, followed by 16 zero bits, leave when they are divided by the polynomial.
THEOREM CRC16IsRemainder ==
    ASSUME NEW s \in Seq(Byte)
    PROVE  Remainder(s \o <<0, 0>>) = CRC16(s)
<1> DEFINE z == <<0, 0>>
           t == s \o z
           n == Len(s)
           m == Len(t)
           A == [i \in 1..m |-> [rem \in Word |-> Divided8(rem, t[i])]]
           B == [i \in 1..n |-> [crc \in Word |-> AddChar(crc, s[i])]]
           T == Word
<1>1. /\ t \in Seq(Byte) /\ m = n + 2 /\ n \in Nat /\ m \in Nat
      /\ \A i \in 1..n : t[i] = s[i] /\ s[i] \in Byte /\ t[i] \in Byte
      /\ t[n + 1] = 0 /\ t[n + 2] = 0
  <2>1. 0 \in Byte
    BY Ranges
  <2>2. z \in Seq(Byte) /\ Len(z) = 2 /\ z[1] = 0 /\ z[2] = 0
    BY <2>1
  <2> HIDE DEF z
  <2>3. /\ t \in Seq(Byte) /\ Len(t) = Len(s) + Len(z)
        /\ \A i \in 1..Len(s) : t[i] = s[i]
        /\ \A i \in 1..Len(z) : t[Len(s) + i] = z[i]
    BY <2>2, Joined
  <2> HIDE DEF t
  <2> QED  BY <2>2, <2>3
<1>2. \A i \in 1..m : t[i] \in Byte
  BY <1>1
<1>3. Remainder(t) = Loop(T, 0, m, A) /\ CRC16(s) = Loop(T, 0, n, B)
  BY DEF Remainder, CRC16, CRCFrom
<1> HIDE DEF t, m
<1>4. A \in [1..m -> [T -> T]] /\ \A i \in 1..m, r \in T : A[i][r] = Divided8(r, t[i])
  BY <1>2, CRCAhead
<1>5. B \in [1..n -> [T -> T]] /\ \A i \in 1..n, r \in T : B[i][r] = AddChar(r, s[i])
  BY <1>1, AddCharType
<1> HIDE DEF A, B, n
<1>6. 0 \in T /\ 0 \in Nat /\ \A k \in Nat : 0 + k = k
  BY Ranges
<1>7. Remainder(t) = Passes(0, 0, m, A) /\ CRC16(s) = Passes(0, 0, n, B)
  <2> HIDE DEF T
  <2>1. Loop(T, 0, m, A) = Passes(0, 0, m, A)
    BY <1>1, <1>4, <1>6, LoopIsPasses
  <2>2. Loop(T, 0, n, B) = Passes(0, 0, n, B)
    BY <1>1, <1>5, <1>6, LoopIsPasses
  <2> QED  BY <1>3, <2>1, <2>2
<1>8. PICK p : Trace(p, T, 0, 0, m, A)
  <2>1. \A k \in 1..m : A[0 + k] \in [T -> T]
    BY <1>4, <1>6
  <2> HIDE DEF T
  <2> QED  BY <1>1, <1>6, <2>1, PassesTrace
<1>9. /\ p[0] = 0 /\ \A k \in 0..m : p[k] \in T
      /\ \A k \in 1..m : p[k] = Divided8(p[k - 1], t[k])
  <2>1. \A k \in 1..m : p[k] = A[k][p[k - 1]] /\ p[k - 1] \in T
    <3>1. \A k \in 1..m : k - 1 \in 0..m /\ 0 + k = k
      BY <1>1
    <3> QED  BY <1>8, <3>1 DEF Trace
  <2> QED  BY <1>4, <1>8, <2>1 DEF Trace
<1> DEFINE q == [k \in 0..n |-> Shifted8[Shifted8[p[k]]]]
<1>10. \A k \in 0..n : k \in 0..m /\ q[k] = Shifted8[Shifted8[p[k]]] /\ q[k] \in T
  BY <1>1, <1>9, Shifted8Type
<1> HIDE DEF q
<1>11. q[0] = 0
  <2>1. 0 \in Byte /\ 0 \in 0..n
    BY <1>1, Ranges
  <2>2. Shifted8[0] = 0
    <3>1. Shifted8[0] = 0 * 256
      BY <2>1, FirstShifted8
    <3> QED  BY <3>1
  <2>3. q[0] = Shifted8[Shifted8[p[0]]] /\ p[0] = 0
    BY <1>9, <1>10, <2>1
  <2> QED  BY <2>2, <2>3
<1>12. ASSUME NEW k \in 1..n PROVE q[k] = B[0 + k][q[k - 1]]
  <2>1. k - 1 \in 0..n /\ k - 1 \in 0..m /\ k \in 0..n /\ k \in 1..m /\ 0 + k = k
    BY <1>1
  <2>2. p[k] = Divided8(p[k - 1], s[k]) /\ p[k - 1] \in T /\ s[k] \in Byte
    BY <1>1, <1>9, <2>1
  <2>3. Shifted8[Shifted8[p[k]]] = AddChar(Shifted8[Shifted8[p[k - 1]]], s[k])
    BY <2>2, CRCAhead
  <2> QED  BY <1>5, <1>10, <2>1, <2>3
<1>13. Passes(0, 0, n, B) = q[n]
  <2>1. \A k \in 1..n : B[0 + k] \in [T -> T]
    BY <1>5, <1>6
  <2>2. Follows(q, T, 0, n, B)
    BY <1>10, <1>12, <2>1 DEF Follows
  <2> HIDE DEF T
  <2>3. Passes(q[0], 0, n, B) = q[n]
    BY <1>1, <1>6, <2>2, PassesEnd
  <2> QED  BY <1>11, <2>3
<1>14. p[m] = q[n]
  <2>1. /\ n + 1 \in 1..m /\ n + 2 \in 1..m /\ (n + 1) - 1 = n /\ (n + 2) - 1 = n + 1
        /\ n \in 0..m /\ n + 1 \in 0..m /\ n \in 0..n
    BY <1>1
  <2>2. p[n + 1] = Divided8(p[n], 0) /\ p[n + 2] = Divided8(p[n + 1], 0)
    BY <1>1, <1>9, <2>1
  <2>3. p[n] \in T /\ p[n + 1] \in T
    BY <1>9, <2>1
  <2>4. Divided8(p[n], 0) = Shifted8[p[n]] /\ Divided8(p[n + 1], 0) = Shifted8[p[n + 1]]
    <3>1. 0 \in Byte
      BY Ranges
    <3> QED  BY <2>3, <3>1, CRCAhead
  <2> QED  BY <1>1, <1>10, <2>1, <2>2, <2>4
<1> QED  BY <1>7, <1>8, <1>13, <1>14 DEF Trace, t
-----------------------------------------------------------------------------
\* A hex digit is a character of its own, and its value is the nibble's.
LEMMA NibbleRoundTrip ==
    ASSUME NEW x \in 0..15
    PROVE  NibbleToHex(x) \in Byte /\ HexToNibble(NibbleToHex(x)) = x
<1>1. CASE x < 10
  <2>1. 48 + x \in Byte
    BY Ranges
  <2>2. 48 + x \in 48..57 /\ (48 + x) - 48 = x
    BY <1>1
  <2> QED  BY <1>1, <2>1, <2>2 DEF NibbleToHex, HexToNibble
<1>2. CASE ~(x < 10)
  <2>1. 65 + x - 10 \in Byte
    BY <1>2, Ranges
  <2>2. /\ 65 + x - 10 \in 65..70 /\ 65 + x - 10 \notin 48..57
        /\ (65 + x - 10) - 65 + 10 = x
    BY <1>2
  <2> QED  BY <1>2, <2>1, <2>2 DEF NibbleToHex, HexToNibble
<1> QED  BY <1>1, <1>2

\* The hex digits of a number are characters.
LEMMA HexDigitsType ==
    ASSUME NEW v \in Nat, NEW n \in Nat
    PROVE  /\ HexDigits(v, n) \in Seq(Byte) /\ Len(HexDigits(v, n)) = n
           /\ \A i \in 1..n : HexToNibble(HexDigits(v, n)[i]) = Digit(16, v, n, i)
           /\ \A i \in 1..n : Digit(16, v, n, i) \in 0..15
<1>1. ASSUME NEW i \in 1..n PROVE Digit(16, v, n, i) \in 0..15
  <2>1. 16 \in Nat \ {0}
    OBVIOUS
  <2>2. Digit(16, v, n, i) \in 0..16 - 1
    BY <2>1, DigitRange
  <2> QED  BY <2>2
<1>2. ASSUME NEW i \in 1..n
      PROVE  /\ HexDigits(v, n)[i] \in Byte
             /\ HexToNibble(HexDigits(v, n)[i]) = Digit(16, v, n, i)
  <2>1. HexDigits(v, n)[i] = NibbleToHex(Digit(16, v, n, i))
    BY DEF HexDigits
  <2> QED  BY <1>1, <2>1, NibbleRoundTrip
<1>3. HexDigits(v, n) \in [1..n -> Byte]
  <2>1. \A i \in 1..n : NibbleToHex(Digit(16, v, n, i)) \in Byte
    BY <1>1, NibbleRoundTrip
  <2> QED  BY <2>1 DEF HexDigits
<1> QED  BY <1>1, <1>2, <1>3

\* What is written as n hex digits is read again from them, if n are enough.
LEMMA HexRoundTrip ==
    ASSUME NEW v \in Nat, NEW n \in Nat, v < Power(16, n),
           NEW chars, chars = HexDigits(v, n)
    PROVE  IsHex(chars) /\ HexValue(chars) = v
<1>1. DOMAIN chars = 1..n
  BY DEF HexDigits
<1>2. /\ \A i \in 1..n : HexToNibble(chars[i]) = Digit(16, v, n, i)
      /\ \A i \in 1..n : Digit(16, v, n, i) \in 0..15
  BY HexDigitsType
<1>3. IsHex(chars)
  BY <1>1, <1>2 DEF IsHex
<1>4. [i \in DOMAIN chars |-> HexToNibble(chars[i])] = DigitsOf(16, v, n)
  BY <1>1, <1>2 DEF DigitsOf
<1>5. Value(16, DigitsOf(16, v, n)) = v
  <2>1. 16 \in Nat \ {0}
    OBVIOUS
  <2> QED  BY <2>1, ValueOfDigits
<1> QED  BY <1>3, <1>4, <1>5 DEF HexValue

\* Bytes in hex are two digits each, ...
LEMMA HexEncodeType ==
    ASSUME NEW data \in Seq(Byte)
    PROVE  /\ HexEncode(data) \in Seq(Byte) /\ Len(HexEncode(data)) = 2 * Len(data)
           /\ \A i \in 1..Len(data) :
                 /\ HexEncode(data)[2 * i - 1] = HexDigits(data[i], 2)[1]
                 /\ HexEncode(data)[2 * i] = HexDigits(data[i], 2)[2]
           /\ IsHex(HexEncode(data))
<1> DEFINE n == Len(data)
           h == HexEncode(data)
<1>1. n \in Nat /\ \A i \in 1..n : data[i] \in Nat
  BY Ranges
<1>2. ASSUME NEW j \in 1..2 * n
      PROVE  /\ h[j] = HexDigits(data[(j + 1) \div 2], 2)[2 - (j % 2)]
             /\ h[j] \in Byte /\ HexToNibble(h[j]) >= 0
  <2> DEFINE i == (j + 1) \div 2
             k == 2 - (j % 2)
  <2>1. i \in 1..n /\ k \in 1..2 /\ 2 \in Nat
    BY <1>1
  <2>2. h[j] = HexDigits(data[i], 2)[k]
    BY DEF HexEncode
  <2> HIDE DEF i, k, h
  <2>3. data[i] \in Nat
    BY <1>1, <2>1
  <2>4. /\ HexDigits(data[i], 2) \in Seq(Byte) /\ Len(HexDigits(data[i], 2)) = 2
        /\ HexToNibble(HexDigits(data[i], 2)[k]) = Digit(16, data[i], 2, k)
        /\ Digit(16, data[i], 2, k) \in 0..15
    BY <2>1, <2>3, HexDigitsType
  <2>5. HexDigits(data[i], 2)[k] \in Byte
    BY <2>1, <2>4
  <2>6. HexToNibble(HexDigits(data[i], 2)[k]) >= 0
    <3> HIDE DEF Digit
    <3> QED  BY <2>4
  <2> QED  BY <2>2, <2>5, <2>6 DEF i, k
<1>3. h \in [1..2 * n -> Byte]
  <2>1. DOMAIN h = 1..2 * n /\ h = [j \in 1..2 * n |-> h[j]]
    BY DEF HexEncode
  <2> HIDE DEF h, n
  <2> QED  BY <1>2, <2>1
<1>4. ASSUME NEW i \in 1..n
      PROVE  /\ h[2 * i - 1] = HexDigits(data[i], 2)[1]
             /\ h[2 * i] = HexDigits(data[i], 2)[2]
  <2>1. /\ 2 * i - 1 \in 1..2 * n /\ ((2 * i - 1) + 1) \div 2 = i
        /\ 2 - ((2 * i - 1) % 2) = 1
    BY <1>1
  <2>2. 2 * i \in 1..2 * n /\ (2 * i + 1) \div 2 = i /\ 2 - ((2 * i) % 2) = 2
    BY <1>1
  <2> HIDE DEF h, n
  <2> QED  BY <1>2, <2>1, <2>2
<1>5. h \in Seq(Byte) /\ Len(h) = 2 * n
  <2> HIDE DEF h
  <2> QED  BY <1>1, <1>3
<1>6. IsHex(h)
  <2> HIDE DEF h
  <2> QED  BY <1>2, <1>3 DEF IsHex
<1> QED  BY <1>4, <1>5, <1>6

\* ... and are read again from them.
LEMMA HexDecodeEncode ==
    ASSUME NEW data \in Seq(Byte)
    PROVE  HexDecode(HexEncode(data)) = data
<1> DEFINE n == Len(data)
           h == HexEncode(data)
<1>1. n \in Nat /\ \A i \in 1..n : data[i] \in Nat /\ data[i] < 256
  BY Ranges
<1>2. h \in Seq(Byte) /\ Len(h) = 2 * n /\ Len(h) \div 2 = n
  BY HexEncodeType
<1>3. ASSUME NEW i \in 1..n PROVE HexValue(SubSeq(h, 2 * i - 1, 2 * i)) = data[i]
  <2> DEFINE a == 2 * i - 1
             b == 2 * i
             t == SubSeq(h, a, b)
             u == HexDigits(data[i], 2)
  <2>1. a \in Int /\ b \in Int /\ b - a + 1 = 2 /\ a <= b /\ \A j \in a..b : j \in 1..2 * n
    BY <1>1
  <2>2. u \in Seq(Byte) /\ Len(u) = 2 /\ h[a] = u[1] /\ h[b] = u[2]
    BY <1>1, HexDigitsType, HexEncodeType
  <2>3. a + 1 - 1 = a /\ a + 2 - 1 = b
    BY <1>1
  <2> HIDE DEF a, b, h, n, u
  <2>4. \A j \in a..b : h[j] \in Byte
    BY <1>2, <2>1
  <2>5. t \in Seq(Byte) /\ Len(t) = 2 /\ \A k \in 1..2 : t[k] = h[a + k - 1]
    BY <2>1, <2>4, SubSeqProperties
  <2>6. t[1] = u[1] /\ t[2] = u[2]
    <3> HIDE DEF t
    <3>1. 1 \in 1..2 /\ 2 \in 1..2
      OBVIOUS
    <3>2. t[1] = h[a + 1 - 1] /\ t[2] = h[a + 2 - 1]
      BY <2>5, <3>1
    <3> QED  BY <2>2, <2>3, <3>2
  <2> HIDE DEF t
  <2>7. t = u
    BY <2>2, <2>5, <2>6
  <2>8. HexValue(t) = data[i]
    <3>1. data[i] \in Nat /\ data[i] < Power(16, 2) /\ 2 \in Nat /\ t = HexDigits(data[i], 2)
      BY <1>1, <2>7, Powers DEF u
    <3> QED  BY <3>1, HexRoundTrip
  <2> QED  BY <2>8 DEF t, a, b
<1>4. HexDecode(h) = [i \in 1..n |-> HexValue(SubSeq(h, 2 * i - 1, 2 * i))]
  BY <1>2 DEF HexDecode
<1> HIDE DEF h
<1>5. HexDecode(h) = [i \in 1..n |-> data[i]]
  BY <1>3, <1>4
<1> QED  BY <1>1, <1>5 DEF h
-----------------------------------------------------------------------------
\* The delimiters are characters.
LEMMA Delimiters == START \in Byte /\ END \in Byte /\ SEP \in Byte
BY Ranges DEF START, END, SEP

\* The number of characters that encode the payload, and of those behind what the
\* CRC protects
Chars(f) == 2 * Len(f.data)
Trailer(crc) == IF crc THEN 5 ELSE 1

\* What the CRC protects: the delimiter, the identifier, the size, a separator,
\* the data and another separator.
LEMMA ProtectedLayout ==
    ASSUME NEW f \in Frames
    PROVE  LET n == Chars(f)
               p == Protected(f)
           IN  /\ n \in Nat /\ p \in Seq(Byte) /\ Len(p) = 6 + n
               /\ p[1] = START /\ p[2] = f.id /\ p[5] = SEP /\ p[6 + n] = SEP
               /\ \A i \in 1..2 : p[2 + i] = HexDigits(n, 2)[i]
               /\ \A i \in 1..n : p[5 + i] = HexEncode(f.data)[i]
<1> DEFINE n == Chars(f)
           p == Protected(f)
           a == <<START, f.id>>
           b == HexDigits(n, 2)
           c == <<SEP>>
           d == HexEncode(f.data)
           ab == a \o b
           abc == ab \o c
           abcd == abc \o d
<1>1. f.id \in Byte /\ f.data \in Seq(Byte) /\ n \in Nat
  BY DEF Frames, Chars
<1>2. /\ a \in Seq(Byte) /\ Len(a) = 2 /\ a[1] = START /\ a[2] = f.id
      /\ c \in Seq(Byte) /\ Len(c) = 1 /\ c[1] = SEP
  BY <1>1, Delimiters
<1>3. b \in Seq(Byte) /\ Len(b) = 2
  <2>1. 2 \in Nat
    OBVIOUS
  <2> QED  BY <1>1, <2>1, HexDigitsType
<1>4. d \in Seq(Byte) /\ Len(d) = n
  BY <1>1, HexEncodeType DEF Chars
<1>5. p = abcd \o c
  BY DEF Protected, Chars
<1> HIDE DEF n, p, a, b, c, d
<1>6. /\ ab \in Seq(Byte) /\ Len(ab) = 4
      /\ ab[1] = START /\ ab[2] = f.id /\ ab[3] = b[1] /\ ab[4] = b[2]
  <2>1. /\ ab \in Seq(Byte) /\ Len(ab) = Len(a) + Len(b)
        /\ \A i \in 1..Len(a) : ab[i] = a[i]
        /\ \A i \in 1..Len(b) : ab[Len(a) + i] = b[i]
    BY <1>2, <1>3, Joined
  <2> HIDE DEF ab
  <2>2. 1 \in 1..2 /\ 2 \in 1..2 /\ 2 + 1 = 3 /\ 2 + 2 = 4
    OBVIOUS
  <2>3. ab[2 + 1] = b[1] /\ ab[2 + 2] = b[2]
    BY <1>2, <1>3, <2>1, <2>2
  <2> QED  BY <1>2, <1>3, <2>1, <2>2, <2>3
<1> HIDE DEF ab
<1>7. /\ abc \in Seq(Byte) /\ Len(abc) = 5 /\ \A i \in 1..4 : abc[i] = ab[i]
      /\ abc[5] = SEP
  <2>1. /\ abc \in Seq(Byte) /\ Len(abc) = Len(ab) + Len(c)
        /\ \A i \in 1..Len(ab) : abc[i] = ab[i]
        /\ \A i \in 1..Len(c) : abc[Len(ab) + i] = c[i]
    BY <1>2, <1>6, Joined
  <2> HIDE DEF abc
  <2>2. 1 \in 1..1 /\ 4 + 1 = 5
    OBVIOUS
  <2>3. abc[4 + 1] = c[1]
    BY <1>2, <1>6, <2>1, <2>2
  <2> QED  BY <1>2, <1>6, <2>1, <2>2, <2>3
<1> HIDE DEF abc
<1>8. /\ abcd \in Seq(Byte) /\ Len(abcd) = 5 + n /\ \A i \in 1..5 : abcd[i] = abc[i]
      /\ \A i \in 1..n : abcd[5 + i] = d[i]
  <2>1. /\ abcd \in Seq(Byte) /\ Len(abcd) = Len(abc) + Len(d)
        /\ \A i \in 1..Len(abc) : abcd[i] = abc[i]
        /\ \A i \in 1..Len(d) : abcd[Len(abc) + i] = d[i]
    BY <1>4, <1>7, Joined
  <2> HIDE DEF abcd
  <2> QED  BY <1>4, <1>7, <2>1
<1> HIDE DEF abcd
<1>9. /\ p \in Seq(Byte) /\ Len(p) = 6 + n /\ \A i \in 1..5 + n : p[i] = abcd[i]
      /\ p[6 + n] = SEP
  <2>1. /\ p \in Seq(Byte) /\ Len(p) = Len(abcd) + Len(c)
        /\ \A i \in 1..Len(abcd) : p[i] = abcd[i]
        /\ \A i \in 1..Len(c) : p[Len(abcd) + i] = c[i]
    <3>1. /\ abcd \o c \in Seq(Byte) /\ Len(abcd \o c) = Len(abcd) + Len(c)
          /\ \A i \in 1..Len(abcd) : (abcd \o c)[i] = abcd[i]
          /\ \A i \in 1..Len(c) : (abcd \o c)[Len(abcd) + i] = c[i]
      BY <1>2, <1>8, Joined
    <3> QED  BY <1>5, <3>1
  <2>2. 1 \in 1..1 /\ (5 + n) + 1 = 6 + n
    BY <1>1
  <2>3. p[(5 + n) + 1] = c[1]
    BY <1>2, <1>8, <2>1, <2>2
  <2> QED  BY <1>1, <1>2, <1>8, <2>1, <2>2, <2>3
<1>10. /\ p[1] = START /\ p[2] = f.id /\ p[5] = SEP
       /\ p[3] = b[1] /\ p[4] = b[2]
  <2>1. ASSUME NEW i \in 1..5 PROVE p[i] = abc[i]
    <3>1. i \in 1..5 + n
      BY <1>1
    <3> QED  BY <1>8, <1>9, <3>1
  <2>2. \A i \in 1..4 : p[i] = ab[i]
    BY <1>7, <2>1
  <2> QED  BY <1>6, <1>7, <2>1, <2>2
<1>11. \A i \in 1..n : p[5 + i] = d[i]
  <2> SUFFICES ASSUME NEW i \in 1..n PROVE p[5 + i] = d[i]
    OBVIOUS
  <2>1. 5 + i \in 1..5 + n
    BY <1>1
  <2> QED  BY <1>8, <1>9, <2>1
<1>12. \A i \in 1..2 : p[2 + i] = b[i]
  <2>1. p[2 + 1] = b[1] /\ p[2 + 2] = b[2]
    BY <1>10
  <2> QED  BY <2>1
<1> QED  BY <1>1, <1>9, <1>10, <1>11, <1>12 DEF n, p, b, d

\* A whole frame: behind what is protected come the CRC, in the build that has it,
\* and the other delimiter.
LEMMA EncodeLayout ==
    ASSUME NEW crc \in BOOLEAN, NEW f \in Frames
    PROVE  LET n == Chars(f)
               p == Protected(f)
               buf == Encode(crc, f)
           IN  /\ buf \in Seq(Byte) /\ Len(buf) = 6 + n + Trailer(crc)
               /\ \A i \in 1..6 + n : buf[i] = p[i]
               /\ buf[Len(buf)] = END
               /\ crc => \A i \in 1..4 : buf[6 + n + i] = HexDigits(CRC16(p), 4)[i]
<1> DEFINE n == Chars(f)
           p == Protected(f)
           buf == Encode(crc, f)
           h == HexDigits(CRC16(p), 4)
           e == <<END>>
           k == IF crc THEN h ELSE <<>>
           pk == p \o k
<1>1. n \in Nat /\ p \in Seq(Byte) /\ Len(p) = 6 + n
  BY ProtectedLayout
<1>2. e \in Seq(Byte) /\ Len(e) = 1 /\ e[1] = END
  BY Delimiters
<1>3. h \in Seq(Byte) /\ Len(h) = 4
  <2>1. CRC16(p) \in Nat /\ 4 \in Nat
    BY <1>1, CRCType, Ranges
  <2> QED  BY <2>1, HexDigitsType
<1>4. buf = pk \o e
  BY DEF Encode
<1> HIDE DEF n, p, buf, h, e
<1>5. k \in Seq(Byte) /\ Len(k) \in Nat /\ Len(k) = IF crc THEN 4 ELSE 0
  <2>1. CASE crc
    BY <1>3, <2>1
  <2>2. CASE ~crc
    BY <2>2
  <2> QED  BY <2>1, <2>2
<1> HIDE DEF k
<1>6. /\ pk \in Seq(Byte) /\ Len(pk) = Len(p) + Len(k)
      /\ \A i \in 1..Len(p) : pk[i] = p[i]
      /\ \A i \in 1..Len(k) : pk[Len(p) + i] = k[i]
  BY <1>1, <1>5, Joined
<1> HIDE DEF pk
<1>7. /\ buf \in Seq(Byte) /\ Len(buf) = Len(pk) + Len(e)
      /\ \A i \in 1..Len(pk) : buf[i] = pk[i]
      /\ \A i \in 1..Len(e) : buf[Len(pk) + i] = e[i]
  <2>1. /\ pk \o e \in Seq(Byte) /\ Len(pk \o e) = Len(pk) + Len(e)
        /\ \A i \in 1..Len(pk) : (pk \o e)[i] = pk[i]
        /\ \A i \in 1..Len(e) : (pk \o e)[Len(pk) + i] = e[i]
    BY <1>2, <1>6, Joined
  <2> QED  BY <1>4, <2>1
<1>8. Len(buf) = 6 + n + Trailer(crc)
  <2>1. Len(buf) = ((6 + n) + Len(k)) + 1
    BY <1>1, <1>2, <1>6, <1>7
  <2>2. CASE crc
    BY <1>1, <1>5, <2>1, <2>2 DEF Trailer
  <2>3. CASE ~crc
    BY <1>1, <1>5, <2>1, <2>3 DEF Trailer
  <2> QED  BY <2>2, <2>3
<1>9. buf[Len(buf)] = END
  <2>1. 1 \in 1..1
    OBVIOUS
  <2> QED  BY <1>2, <1>7, <2>1
<1> DEFINE l == Len(pk)
           m == Len(k)
<1>10. l = 6 + n + m /\ m \in Nat /\ (crc => m = 4)
  BY <1>1, <1>5, <1>6
<1> HIDE DEF l, m
<1>11. ASSUME NEW i \in 1..6 + n PROVE buf[i] = p[i]
  <2>1. i \in 1..Len(p) /\ i \in 1..l
    BY <1>1, <1>10
  <2> QED  BY <1>6, <1>7, <2>1 DEF l
<1>12. ASSUME crc, NEW i \in 1..4 PROVE buf[6 + n + i] = h[i]
  <2>1. i \in 1..m /\ k = h
    BY <1>10, <1>12 DEF k
  <2>2. 6 + n + i = Len(p) + i /\ Len(p) + i \in 1..l
    BY <1>1, <1>10, <1>12
  <2> QED  BY <1>6, <1>7, <2>1, <2>2 DEF l, m
<1> QED  BY <1>7, <1>8, <1>9, <1>11, <1>12 DEF n, p, buf, h

\* The size a reader finds in what begins like a frame, and where it looks for the
\* second separator
LEMMA SizeFound ==
    ASSUME NEW f \in Frames, Encodable(f), NEW buf \in Seq(Byte), Len(buf) >= 4,
           \A i \in 1..4 : buf[i] = Protected(f)[i]
    PROVE  IsHex(SubSeq(buf, 3, 4)) /\ Sep2(buf) = 6 + Chars(f)
<1> DEFINE n == Chars(f)
           p == Protected(f)
           u == HexDigits(n, 2)
<1>1. n \in Nat /\ n < 256
  BY DEF Frames, Encodable, MAX_PAYLOAD, Chars
<1>2. \A i \in 1..2 : p[2 + i] = u[i]
  BY ProtectedLayout, Zenon
<1>3. u \in Seq(Byte) /\ Len(u) = 2
  <2>1. 2 \in Nat
    OBVIOUS
  <2> QED  BY <1>1, <2>1, HexDigitsType
<1>4. IsHex(u) /\ HexValue(u) = n
  <2>1. n < Power(16, 2) /\ 2 \in Nat
    BY <1>1, Powers
  <2> QED  BY <1>1, <2>1, HexRoundTrip
<1>5. \A i \in 1..4 : buf[i] = p[i]
  OBVIOUS
<1> HIDE DEF n, p, u
<1>6. ASSUME NEW i \in 1..2 PROVE buf[3 - 1 + i] = u[i]
  <2>1. 3 - 1 + i = 2 + i /\ 2 + i \in 1..4
    OBVIOUS
  <2> QED  BY <1>2, <1>5, <2>1
<1>7. SubSeq(buf, 3, 4) = u
  <2>1. 3 \in Nat \ {0} /\ 4 \in Nat /\ 4 - 3 + 1 = Len(u) /\ 4 <= Len(buf)
    BY <1>3
  <2>2. buf \in Seq(Byte) /\ \A i \in 1..Len(u) : buf[3 - 1 + i] = u[i]
    BY <1>3, <1>6
  <2> QED  BY ONLY <1>3, <2>1, <2>2, Taken
<1> QED  BY <1>4, <1>7 DEF DataSize, Sep2, n

\* In an encoded frame it finds what nstarFrameEncode wrote.
LEMMA SizeRead ==
    ASSUME NEW crc \in BOOLEAN, NEW f \in Frames, Encodable(f)
    PROVE  LET buf == Encode(crc, f)
           IN  IsHex(SubSeq(buf, 3, 4)) /\ Sep2(buf) = 6 + Chars(f)
<1> DEFINE n == Chars(f)
           p == Protected(f)
           buf == Encode(crc, f)
<1>1. n \in Nat
  BY ProtectedLayout, Zenon
<1>2. /\ buf \in Seq(Byte) /\ Len(buf) = 6 + n + Trailer(crc)
      /\ \A i \in 1..6 + n : buf[i] = p[i]
  BY EncodeLayout, Zenon
<1> HIDE DEF n, p, buf
<1>3. Trailer(crc) \in Nat
  BY DEF Trailer
<1>4. Len(buf) >= 4 /\ \A i \in 1..4 : i \in 1..6 + n
  BY <1>1, <1>2, <1>3
<1>5. \A i \in 1..4 : buf[i] = p[i]
  BY <1>2, <1>4
<1> QED  BY <1>2, <1>4, <1>5, SizeFound DEF p, buf

\* In the build that has it, the four digits behind what is protected are its CRC, ...
LEMMA CRCLayout ==
    ASSUME NEW f \in Frames
    PROVE  LET s == 6 + Chars(f)
               p == Protected(f)
               buf == Encode(TRUE, f)
           IN  /\ s \in Nat /\ p \in Seq(Byte) /\ Len(buf) = s + 5
               /\ SubSeq(buf, 1, s) = p
               /\ IsHex(SubSeq(buf, s + 1, s + 4))
               /\ HexValue(SubSeq(buf, s + 1, s + 4)) = CRC16(p)
<1> DEFINE n == Chars(f)
           p == Protected(f)
           buf == Encode(TRUE, f)
           k == CRC16(p)
           u == HexDigits(k, 4)
           s == 6 + n
<1>2. /\ n \in Nat /\ p \in Seq(Byte) /\ Len(p) = s
  BY ProtectedLayout, Zenon
<1>3. /\ buf \in Seq(Byte) /\ Len(buf) = s + Trailer(TRUE)
      /\ \A i \in 1..s : buf[i] = p[i]
      /\ \A i \in 1..4 : buf[s + i] = u[i]
  <2>1. TRUE \in BOOLEAN
    OBVIOUS
  <2> QED  BY <2>1, EncodeLayout, Zenon
<1> HIDE DEF n, p, buf
<1>4. k \in Nat /\ k < 65536
  BY <1>2, CRCType, Ranges
<1> HIDE DEF k
<1>5. u \in Seq(Byte) /\ Len(u) = 4
  <2>1. 4 \in Nat
    OBVIOUS
  <2>2. k \in Nat
    BY <1>4
  <2> QED  BY ONLY <2>1, <2>2, HexDigitsType
<1>6. IsHex(u) /\ HexValue(u) = k
  <2>1. k < Power(16, 4) /\ 4 \in Nat
    BY <1>4, Powers
  <2> QED  BY <1>4, <2>1, HexRoundTrip
<1> HIDE DEF u
<1>7. s \in Nat /\ Len(buf) = s + 5
  BY <1>2, <1>3 DEF Trailer
<1> HIDE DEF s
<1>8. SubSeq(buf, s + 1, s + 4) = u
  <2>1. /\ s + 1 \in Nat \ {0} /\ s + 4 \in Nat /\ (s + 4) - (s + 1) + 1 = Len(u)
        /\ s + 4 <= Len(buf)
    BY <1>5, <1>7
  <2>2. \A i \in 1..Len(u) : buf[(s + 1) - 1 + i] = u[i]
    <3> SUFFICES ASSUME NEW i \in 1..Len(u) PROVE buf[(s + 1) - 1 + i] = u[i]
      OBVIOUS
    <3>1. (s + 1) - 1 + i = s + i /\ i \in 1..4
      BY <1>5, <1>7
    <3> QED  BY <1>3, <3>1
  <2> QED  BY ONLY <1>3, <1>5, <2>1, <2>2, Taken
<1>9. SubSeq(buf, 1, s) = p
  <2>1. 1 \in Nat \ {0} /\ s \in Nat /\ s - 1 + 1 = Len(p) /\ s <= Len(buf)
    BY <1>2, <1>7
  <2>2. \A i \in 1..Len(p) : buf[1 - 1 + i] = p[i]
    <3> SUFFICES ASSUME NEW i \in 1..Len(p) PROVE buf[1 - 1 + i] = p[i]
      OBVIOUS
    <3>1. 1 - 1 + i = i /\ i \in 1..s
      BY <1>2, <1>7
    <3> QED  BY <1>3, <3>1
  <2> QED  BY ONLY <1>2, <1>3, <2>1, <2>2, Taken
<1> QED  BY <1>2, <1>6, <1>7, <1>8, <1>9 DEF n, p, buf, k, s

\* ... and that is what a reader finds.
LEMMA CRCRead ==
    ASSUME NEW f \in Frames, Encodable(f)
    PROVE  LET buf == Encode(TRUE, f)
           IN  /\ IsHex(SubSeq(buf, Sep2(buf) + 1, Sep2(buf) + 4))
               /\ CRCMatches(buf)
<1> DEFINE p == Protected(f)
           buf == Encode(TRUE, f)
           s == 6 + Chars(f)
<1>1. Sep2(buf) = s
  <2>1. TRUE \in BOOLEAN
    OBVIOUS
  <2> QED  BY <2>1, SizeRead, Zenon
<1>2. /\ SubSeq(buf, 1, s) = p /\ IsHex(SubSeq(buf, s + 1, s + 4))
      /\ HexValue(SubSeq(buf, s + 1, s + 4)) = CRC16(p)
  BY CRCLayout, Zenon
<1> HIDE DEF p, buf, s
<1> QED  BY <1>1, <1>2 DEF CRCMatches, buf

\* The data a reader finds
LEMMA DataRead ==
    ASSUME NEW crc \in BOOLEAN, NEW f \in Frames, Encodable(f)
    PROVE  LET buf == Encode(crc, f)
           IN  SubSeq(buf, 6, Sep2(buf) - 1) = HexEncode(f.data)
<1> DEFINE n == Chars(f)
           p == Protected(f)
           buf == Encode(crc, f)
           u == HexEncode(f.data)
<1>1. Sep2(buf) = 6 + n
  BY SizeRead, Zenon
<1>2. n \in Nat /\ \A i \in 1..n : p[5 + i] = u[i]
  BY ProtectedLayout, Zenon
<1>3. /\ buf \in Seq(Byte) /\ Len(buf) = 6 + n + Trailer(crc)
      /\ \A i \in 1..6 + n : buf[i] = p[i]
  BY EncodeLayout, Zenon
<1>4. u \in Seq(Byte) /\ Len(u) = n
  BY HexEncodeType DEF Frames, Chars
<1> HIDE DEF n, p, buf, u
<1>5. SubSeq(buf, 6, 5 + n) = u
  <2>1. Trailer(crc) \in Nat
    BY DEF Trailer
  <2>2. /\ 6 \in Nat \ {0} /\ 5 + n \in Nat /\ (5 + n) - 6 + 1 = Len(u)
        /\ 5 + n <= Len(buf)
    BY <1>2, <1>3, <1>4, <2>1
  <2>3. \A i \in 1..Len(u) : buf[6 - 1 + i] = u[i]
    <3> SUFFICES ASSUME NEW i \in 1..Len(u) PROVE buf[6 - 1 + i] = u[i]
      OBVIOUS
    <3>1. 6 - 1 + i = 5 + i /\ i \in 1..n /\ 5 + i \in 1..6 + n
      BY <1>2, <1>4
    <3> QED  BY <1>2, <1>3, <3>1
  <2> QED  BY ONLY <1>3, <1>4, <2>2, <2>3, Taken
<1>6. (6 + n) - 1 = 5 + n
  BY <1>2
<1> QED  BY <1>1, <1>5, <1>6 DEF u, buf

\* Decoding undoes encoding: every frame nstarFrameEncode takes is what
\* nstarFrameDecode makes of its characters, in both builds.
THEOREM DecodeEncode ==
    ASSUME NEW crc \in BOOLEAN, NEW f \in Frames, Encodable(f)
    PROVE  Decode(crc, Encode(crc, f)) = Result("OK", f)
<1> DEFINE n == Chars(f)
           p == Protected(f)
           buf == Encode(crc, f)
           chars == SubSeq(buf, 6, Sep2(buf) - 1)
<1>1. /\ n \in Nat /\ p[1] = START /\ p[2] = f.id /\ p[5] = SEP /\ p[6 + n] = SEP
  BY ProtectedLayout, Zenon
<1>2. /\ Len(buf) = 6 + n + Trailer(crc) /\ buf[Len(buf)] = END
      /\ \A i \in 1..6 + n : buf[i] = p[i]
  BY EncodeLayout, Zenon
<1>3. IsHex(SubSeq(buf, 3, 4)) /\ Sep2(buf) = 6 + n
  BY SizeRead, Zenon
<1>4. crc => IsHex(SubSeq(buf, Sep2(buf) + 1, Sep2(buf) + 4)) /\ CRCMatches(buf)
  <2> SUFFICES ASSUME crc
               PROVE  IsHex(SubSeq(buf, Sep2(buf) + 1, Sep2(buf) + 4)) /\ CRCMatches(buf)
    OBVIOUS
  <2>1. buf = Encode(TRUE, f)
    <3>1. crc = TRUE
      OBVIOUS
    <3> QED  BY <3>1, Zenon
  <2> QED  BY <2>1, CRCRead, Zenon
<1>5. chars = HexEncode(f.data)
  BY DataRead, Zenon
<1>6. f.data \in Seq(Byte) /\ f = [id |-> f.id, data |-> f.data]
  BY DEF Frames
<1> HIDE DEF n, p, buf, chars
<1>7. /\ Len(chars) % 2 = 0 /\ IsHex(chars) /\ HexDecode(chars) = f.data
  <2>1. HexDecode(chars) = f.data
    BY <1>5, <1>6, HexDecodeEncode
  <2>2. Len(chars) = 2 * Len(f.data) /\ IsHex(chars)
    BY <1>5, <1>6, HexEncodeType
  <2> DEFINE m == Len(f.data)
  <2>3. m \in Nat
    BY <1>6
  <2> HIDE DEF m
  <2>4. (2 * m) % 2 = 0
    BY <2>3
  <2> QED  BY ONLY <2>1, <2>2, <2>4 DEF m
<1>8. /\ buf[1] = START /\ buf[2] = f.id /\ buf[5] = SEP /\ buf[6 + n] = SEP
  <2>1. 1 \in 1..6 + n /\ 2 \in 1..6 + n /\ 5 \in 1..6 + n /\ 6 + n \in 1..6 + n
    BY <1>1
  <2> QED  BY <1>1, <1>2, <2>1
<1>9. Framed(crc, buf)
  <2>1. CASE crc
    <3>1. Len(buf) = 6 + n + 5 /\ Len(buf) >= 11
      BY <1>1, <1>2, <2>1 DEF Trailer
    <3> QED  BY <1>2, <1>3, <1>4, <1>8, <2>1, <3>1 DEF Framed, MinLen
  <2>2. CASE ~crc
    <3>1. Len(buf) = 6 + n + 1 /\ Len(buf) >= 6
      BY <1>1, <1>2, <2>2 DEF Trailer
    <3> QED  BY <1>2, <1>3, <1>8, <2>2, <3>1 DEF Framed, MinLen
  <2> QED  BY <2>1, <2>2
<1>10. Decode(crc, buf) = Result("OK", Frame(f.id, f.data))
  BY <1>4, <1>7, <1>8, <1>9 DEF Decode, chars
<1> QED  BY <1>6, <1>10 DEF Frame, buf
-----------------------------------------------------------------------------
\* What is known of a frame that waits
Entries == [frame : Frames, from : Int, to : Int, hit : BOOLEAN]

\* The characters of a frame that is waiting, first those already read.
Sent(e) == Encode(crcEnabled, e.frame)

\* What has not been read of it is what was written, but for its k-th character.
AsWritten(e, k) ==
    \A i \in 1..Len(Sent(e)) :
        i # k /\ e.from - 1 + i >= 1 => stream[e.from - 1 + i] = Sent(e)[i]

\* It fills its place in the stream; noise has altered at most one character.
InPlace(e) ==
    /\ Encodable(e.frame) /\ e.to <= Len(stream)
    /\ e.to - e.from + 1 = Len(Sent(e))
    /\ ~e.hit => AsWritten(e, 0)
    /\ \E k \in 1..Len(Sent(e)) : AsWritten(e, k)

\* One of them ends before the other begins.
Apart(d, e) == d.to < e.from \/ e.to < d.from

\* The frames that wait lie in the stream one beside the other, each as it was written:
\* noise that hits one of them leaves the others alone.
StreamInv ==
    /\ crcEnabled \in BOOLEAN /\ stream \in Seq(Byte) /\ waiting \subseteq Entries
    /\ \A e \in waiting : InPlace(e)
    /\ \A d, e \in waiting : d # e => Apart(d, e)

\* A frame has characters.
LEMMA SentType ==
    ASSUME crcEnabled \in BOOLEAN, NEW e \in Entries
    PROVE  Sent(e) \in Seq(Byte) /\ Len(Sent(e)) \in Nat \ {0}
<1>1. e.frame \in Frames
  BY DEF Entries
<1>2. Sent(e) \in Seq(Byte) /\ Len(Sent(e)) = 6 + Chars(e.frame) + Trailer(crcEnabled)
  BY <1>1, EncodeLayout, Zenon DEF Sent
<1>3. Chars(e.frame) \in Nat
  BY <1>1, ProtectedLayout, Zenon
<1>4. Trailer(crcEnabled) \in Nat
  BY DEF Trailer
<1> QED  BY <1>2, <1>3, <1>4

\* What write() adds lies behind everything else.
LEMMA WriteStep == StreamInv /\ Write => StreamInv'
<1> SUFFICES ASSUME StreamInv, Write PROVE StreamInv'
  OBVIOUS
<1>1. PICK f \in Payloads :
         /\ Encodable(f)
         /\ stream' = stream \o Encode(crcEnabled, f)
         /\ waiting' = waiting \cup {Entry(f, Len(stream) + 1, Len(stream'))}
         /\ crcEnabled' = crcEnabled
  BY DEF Write
<1> DEFINE t == Encode(crcEnabled, f)
<1>2. /\ crcEnabled \in BOOLEAN /\ stream \in Seq(Byte) /\ waiting \subseteq Entries
      /\ Len(stream) \in Nat
      /\ \A e \in waiting : InPlace(e)
      /\ \A d, e \in waiting : d # e => Apart(d, e)
  BY DEF StreamInv
<1>3. f \in Frames /\ t \in Seq(Byte)
  <2>1. f \in Frames
    BY CharsAssumption
  <2> QED  BY <1>2, <2>1, EncodeLayout, Zenon
<1>4. /\ stream' \in Seq(Byte) /\ Len(stream') = Len(stream) + Len(t)
      /\ \A i \in 1..Len(stream) : stream'[i] = stream[i]
      /\ \A i \in 1..Len(t) : stream'[Len(stream) + i] = t[i]
  BY <1>1, <1>2, <1>3, Joined
<1>5. PICK g \in Entries :
         /\ g.frame = f /\ g.from = Len(stream) + 1
         /\ g.to = Len(stream) + Len(t) /\ g.hit = FALSE
         /\ waiting' = waiting \cup {g}
  <2> DEFINE h == Entry(f, Len(stream) + 1, Len(stream'))
  <2>1. /\ h \in Entries /\ h.frame = f /\ h.from = Len(stream) + 1
        /\ h.to = Len(stream) + Len(t) /\ h.hit = FALSE
    BY <1>2, <1>3, <1>4 DEF Entry, Entries
  <2> QED  BY <1>1, <2>1
<1>6. waiting' = waiting \cup {g}
  BY <1>5
<1>7. waiting' \subseteq Entries
  BY <1>2, <1>5, <1>6
<1>8. ASSUME NEW e \in Entries PROVE Sent(e)' = Sent(e)
  BY <1>1 DEF Sent
<1>9. InPlace(g)'
  <2>1. Sent(g)' = t
    BY <1>1, <1>5 DEF Sent
  <2>2. Encodable(g.frame) /\ g.to <= Len(stream') /\ g.to - g.from + 1 = Len(t)
    <3> HIDE DEF t
    <3> QED  BY <1>1, <1>2, <1>3, <1>4, <1>5
  <2> HIDE DEF t
  <2>3. ASSUME NEW i \in 1..Len(t) PROVE stream'[g.from - 1 + i] = t[i]
    <3>1. g.from - 1 + i = Len(stream) + i
      BY <1>2, <1>3, <1>5
    <3> QED  BY <1>4, <3>1
  <2>4. AsWritten(g, 0)' /\ AsWritten(g, 1)'
    BY <2>1, <2>3 DEF AsWritten
  <2>5. 1 \in 1..Len(t)
    <3>1. Sent(g) = t
      BY <1>5 DEF Sent, t
    <3>2. Len(Sent(g)) \in Nat \ {0}
      BY <1>2, <1>5, SentType
    <3> QED  BY <3>1, <3>2
  <2> QED  BY <2>1, <2>2, <2>4, <2>5 DEF InPlace
<1>10. ASSUME NEW e \in waiting PROVE InPlace(e)'
  <2>1. InPlace(e) /\ e \in Entries /\ Sent(e)' = Sent(e)
    BY <1>2, <1>8
  <2>2. Sent(e) \in Seq(Byte) /\ Len(Sent(e)) \in Nat \ {0}
    BY <1>2, <2>1, SentType
  <2>3. e.to \in Int /\ e.from \in Int
    BY <2>1 DEF Entries
  <2>4. Encodable(e.frame) /\ e.to <= Len(stream) /\ e.to - e.from + 1 = Len(Sent(e))
    BY <2>1 DEF InPlace
  <2> HIDE DEF t
  <2>5. e.to <= Len(stream')
    BY <1>2, <1>3, <1>4, <2>3, <2>4
  <2>6. ASSUME NEW k \in Int, AsWritten(e, k) PROVE AsWritten(e, k)'
    <3> SUFFICES ASSUME NEW i \in 1..Len(Sent(e)), i # k, e.from - 1 + i >= 1
                 PROVE  stream'[e.from - 1 + i] = Sent(e)[i]
      BY <2>1 DEF AsWritten
    <3>1. stream[e.from - 1 + i] = Sent(e)[i]
      BY <2>6 DEF AsWritten
    <3>2. e.from - 1 + i \in 1..Len(stream)
      BY <1>2, <2>2, <2>3, <2>4
    <3> QED  BY <1>4, <3>1, <3>2
  <2>7. /\ e.hit \/ AsWritten(e, 0)'
        /\ \E k \in 1..Len(Sent(e)) : AsWritten(e, k)'
    BY <2>1, <2>6 DEF InPlace
  <2> QED  BY <2>1, <2>4, <2>5, <2>7 DEF InPlace
<1>11. ASSUME NEW e \in waiting PROVE Apart(e, g) /\ Apart(g, e)
  <2>1. e.to \in Int /\ e.to <= Len(stream)
    BY <1>2 DEF InPlace, Entries
  <2> QED  BY <1>2, <1>5, <2>1 DEF Apart
<1>12. \A e \in waiting' : InPlace(e)'
  BY <1>6, <1>9, <1>10
<1>13. \A d, e \in waiting' : d # e => Apart(d, e)'
  BY <1>2, <1>6, <1>11 DEF Apart
<1> QED  BY <1>1, <1>2, <1>4, <1>7, <1>12, <1>13 DEF StreamInv

\* Noise hits one frame and leaves the characters of the others alone.
LEMMA NoiseStep == StreamInv /\ Noise => StreamInv'
<1> SUFFICES ASSUME StreamInv, Noise PROVE StreamInv'
  OBVIOUS
<1>1. PICK e \in waiting, c \in NoiseChars :
         /\ \E i \in DOMAIN stream \cap (e.from)..(e.to) :
              stream' = [stream EXCEPT ![i] = c]
         /\ ~e.hit
         /\ waiting' = (waiting \ {e}) \cup {[e EXCEPT !.hit = TRUE]}
         /\ crcEnabled' = crcEnabled
  BY DEF Noise
<1>2. PICK at \in DOMAIN stream \cap (e.from)..(e.to) :
         stream' = [stream EXCEPT ![at] = c]
  BY <1>1
<1> DEFINE g == [e EXCEPT !.hit = TRUE]
<1>3. /\ crcEnabled \in BOOLEAN /\ stream \in Seq(Byte) /\ waiting \subseteq Entries
      /\ Len(stream) \in Nat
      /\ \A d \in waiting : InPlace(d)
      /\ \A d, w \in waiting : d # w => Apart(d, w)
  BY DEF StreamInv
<1>4. c \in Byte
  BY CharsAssumption
<1>5. /\ stream' \in Seq(Byte) /\ Len(stream') = Len(stream)
      /\ \A i \in 1..Len(stream) : i # at => stream'[i] = stream[i]
  BY <1>2, <1>3, <1>4
<1>6. /\ g \in Entries /\ g.frame = e.frame /\ g.from = e.from /\ g.to = e.to
      /\ g.hit = TRUE
  BY <1>3 DEF Entries
<1>7. waiting' = (waiting \ {e}) \cup {g}
  BY <1>1
<1> HIDE DEF g
<1>8. ASSUME NEW w \in Entries PROVE Sent(w)' = Sent(w)
  BY <1>1 DEF Sent
<1>9. InPlace(g)'
  <2>1. Encodable(e.frame) /\ e.to <= Len(stream) /\ e.to - e.from + 1 = Len(Sent(e))
    BY <1>3 DEF InPlace
  <2>2. Sent(g)' = Sent(e)
    BY <1>1, <1>6 DEF Sent
  <2> DEFINE k == at - e.from + 1
  <2>3. e.to \in Int /\ e.from \in Int /\ at \in Int /\ e.from <= at /\ at <= e.to
    BY <1>3 DEF Entries
  <2>4. Sent(e) \in Seq(Byte) /\ Len(Sent(e)) \in Nat \ {0}
    BY <1>3, SentType
  <2>5. k \in 1..Len(Sent(e)) /\ k \in Int
    BY <2>1, <2>3, <2>4
  <2>6. AsWritten(e, 0)
    BY <1>1, <1>3 DEF InPlace
  <2>7. AsWritten(g, k)'
    <3> SUFFICES ASSUME NEW i \in 1..Len(Sent(e)), i # k, e.from - 1 + i >= 1
                 PROVE  stream'[e.from - 1 + i] = Sent(e)[i]
      BY <1>6, <2>2 DEF AsWritten
    <3> DEFINE j == e.from - 1 + i
    <3>1. /\ i \in Int /\ 1 <= i /\ i <= Len(Sent(e)) /\ Len(Sent(e)) \in Int
          /\ Len(stream) \in Int /\ j \in Int /\ j >= 1
      BY <1>3, <2>3, <2>4
    <3>2. j <= Len(stream)
      <4> DEFINE l == Len(Sent(e))
                 m == Len(stream)
      <4>1. e.to <= m /\ e.to - e.from + 1 = l
        BY <2>1
      <4>2. i <= l /\ i \in Int /\ l \in Int /\ m \in Int
        BY <3>1
      <4> HIDE DEF l, m
      <4>3. j <= m
        BY ONLY <2>3, <4>1, <4>2
      <4> QED  BY <4>3 DEF m
    <3>3. j # at /\ i # 0
      BY <2>3, <3>1
    <3>4. j \in 1..Len(stream)
      BY <3>1, <3>2
    <3> QED  BY <1>5, <2>6, <3>3, <3>4 DEF AsWritten
  <2> HIDE DEF k
  <2> QED  BY <1>5, <1>6, <2>1, <2>2, <2>5, <2>7 DEF InPlace
<1>10. ASSUME NEW w \in waiting, w # e PROVE InPlace(w)'
  <2>1. InPlace(w) /\ w \in Entries /\ Sent(w)' = Sent(w) /\ Apart(w, e)
    BY <1>3, <1>8, <1>10
  <2>2. Sent(w) \in Seq(Byte) /\ Len(Sent(w)) \in Nat \ {0}
    BY <1>3, <2>1, SentType
  <2>3. w.to \in Int /\ w.from \in Int /\ e.to \in Int /\ e.from \in Int /\ at \in Int
    BY <1>3 DEF Entries
  <2>4. Encodable(w.frame) /\ w.to <= Len(stream) /\ w.to - w.from + 1 = Len(Sent(w))
    BY <2>1 DEF InPlace
  <2>5. ASSUME NEW k \in Int, AsWritten(w, k) PROVE AsWritten(w, k)'
    <3> SUFFICES ASSUME NEW i \in 1..Len(Sent(w)), i # k, w.from - 1 + i >= 1
                 PROVE  stream'[w.from - 1 + i] = Sent(w)[i]
      BY <2>1 DEF AsWritten
    <3>1. stream[w.from - 1 + i] = Sent(w)[i]
      BY <2>5 DEF AsWritten
    <3>2. w.from - 1 + i \in 1..Len(stream)
      BY <1>3, <2>2, <2>3, <2>4
    <3>3. w.from - 1 + i # at
      <4> DEFINE l == Len(Sent(w))
      <4>1. /\ w.to = l + w.from - 1 /\ l \in Int /\ i \in Int /\ 1 <= i /\ i <= l
            /\ e.from <= at /\ at <= e.to
        BY <1>2, <2>2, <2>3, <2>4
      <4>2. w.to < e.from \/ e.to < w.from
        BY <2>1 DEF Apart
      <4> HIDE DEF l
      <4> QED  BY <2>3, <4>1, <4>2
    <3> QED  BY <1>5, <3>1, <3>2, <3>3
  <2>6. /\ w.hit \/ AsWritten(w, 0)'
        /\ \E k \in 1..Len(Sent(w)) : AsWritten(w, k)'
    BY <2>1, <2>5 DEF InPlace
  <2> QED  BY <1>5, <2>1, <2>4, <2>6 DEF InPlace
<1>11. ASSUME NEW w \in waiting, w # e PROVE Apart(w, g) /\ Apart(g, w)
  BY <1>3, <1>6, <1>11 DEF Apart
<1>12. \A w \in waiting' : InPlace(w)'
  BY <1>7, <1>9, <1>10
<1>13. \A d, w \in waiting' : d # w => Apart(d, w)'
  BY <1>3, <1>7, <1>11 DEF Apart
<1>14. waiting' \subseteq Entries
  BY <1>3, <1>6, <1>7
<1> QED  BY <1>1, <1>3, <1>5, <1>12, <1>13, <1>14 DEF StreamInv

\* read() moves what is left of the stream to its beginning.
LEMMA ReadStep == StreamInv /\ Read => StreamInv'
<1> SUFFICES ASSUME StreamInv, Read PROVE StreamInv'
  OBVIOUS
<1>1. PICK n \in DOMAIN stream \cap 1..FRAME_BUF_MAX :
         /\ stream' = SubSeq(stream, n + 1, Len(stream))
         /\ waiting' = {Shifted(e, n) : e \in {w \in waiting : w.to > n}}
         /\ crcEnabled' = crcEnabled
  BY DEF Read
<1>2. /\ crcEnabled \in BOOLEAN /\ stream \in Seq(Byte) /\ waiting \subseteq Entries
      /\ Len(stream) \in Nat /\ n \in 1..Len(stream)
      /\ \A d \in waiting : InPlace(d)
      /\ \A d, w \in waiting : d # w => Apart(d, w)
  BY DEF StreamInv
<1> DEFINE m == Len(stream)
<1>3. /\ stream' \in Seq(Byte) /\ Len(stream') = m - n
      /\ \A i \in 1..m - n : stream'[i] = stream[n + i]
  <2>1. \A j \in n + 1..m : stream[j] \in Byte
    BY <1>2
  <2>2. /\ stream' \in Seq(Byte) /\ Len(stream') = IF n + 1 <= m THEN m - (n + 1) + 1 ELSE 0
        /\ \A i \in 1..m - (n + 1) + 1 : stream'[i] = stream[(n + 1) + i - 1]
    <3> DEFINE a == n + 1
               u == SubSeq(stream, a, m)
    <3>1. a \in Int /\ m \in Int /\ \A j \in a..m : stream[j] \in Byte
      BY <1>2, <2>1
    <3>2. stream' = u
      BY <1>1
    <3> HIDE DEF a, m
    <3>3. /\ u \in Seq(Byte) /\ Len(u) = IF a <= m THEN m - a + 1 ELSE 0
          /\ \A i \in 1..m - a + 1 : u[i] = stream[a + i - 1]
      BY <3>1, SubSeqProperties
    <3> HIDE DEF u
    <3> QED  BY <3>2, <3>3 DEF a
  <2>3. m \in Nat /\ n \in 1..m
    BY <1>2
  <2> HIDE DEF m
  <2>4. Len(stream') = m - n
    BY <2>2, <2>3
  <2>5. ASSUME NEW i \in 1..m - n PROVE stream'[i] = stream[n + i]
    <3>1. i \in 1..m - (n + 1) + 1 /\ (n + 1) + i - 1 = n + i
      BY <2>3
    <3> QED  BY <2>2, <3>1
  <2> QED  BY <2>2, <2>4, <2>5
<1>4. ASSUME NEW e \in waiting
      PROVE  LET g == Shifted(e, n)
             IN  /\ g \in Entries /\ g.frame = e.frame /\ g.from = e.from - n
                 /\ g.to = e.to - n /\ g.hit = e.hit
  <2> DEFINE from == e.from - n
             to == e.to - n
  <2>1. e \in Entries /\ n \in Int
    BY <1>2
  <2>2. from \in Int /\ to \in Int
    BY <2>1 DEF Entries
  <2>3. Shifted(e, n) = [e EXCEPT !.from = from, !.to = to]
    BY DEF Shifted
  <2> HIDE DEF from, to
  <2>4. LET g == Shifted(e, n)
        IN  /\ g \in Entries /\ g.frame = e.frame /\ g.from = from
            /\ g.to = to /\ g.hit = e.hit
    BY <2>1, <2>2, <2>3 DEF Entries
  <2> QED  BY <2>4 DEF from, to
<1>5. ASSUME NEW e \in waiting, e.to > n PROVE InPlace(Shifted(e, n))'
  <2> DEFINE g == Shifted(e, n)
  <2>1. /\ g.frame = e.frame /\ g.from = e.from - n /\ g.to = e.to - n /\ g.hit = e.hit
    BY <1>4
  <2> HIDE DEF g
  <2>2. InPlace(e) /\ e \in Entries
    BY <1>2
  <2>3. Sent(g)' = Sent(e)
    BY <1>1, <2>1 DEF Sent
  <2>4. Sent(e) \in Seq(Byte) /\ Len(Sent(e)) \in Nat \ {0}
    BY <1>2, <2>2, SentType
  <2>5. e.to \in Int /\ e.from \in Int /\ m \in Nat /\ n \in 1..m
    BY <1>2, <2>2 DEF Entries
  <2>6. Encodable(e.frame) /\ e.to <= m /\ e.to - e.from + 1 = Len(Sent(e))
    BY <2>2 DEF InPlace
  <2> HIDE DEF m
  <2>7. g.to <= Len(stream') /\ g.to - g.from + 1 = Len(Sent(e))
    BY <1>3, <2>1, <2>5, <2>6
  <2>8. ASSUME NEW k \in Int, AsWritten(e, k) PROVE AsWritten(g, k)'
    <3> SUFFICES ASSUME NEW i \in 1..Len(Sent(e)), i # k, g.from - 1 + i >= 1
                 PROVE  stream'[g.from - 1 + i] = Sent(e)[i]
      BY <2>3 DEF AsWritten
    <3> DEFINE a == e.from
               b == e.to
               l == Len(Sent(e))
               c == g.from
    <3>1. /\ a \in Int /\ b \in Int /\ l \in Nat /\ i \in 1..l /\ m \in Nat /\ n \in 1..m
          /\ c = a - n /\ c - 1 + i >= 1 /\ b <= m /\ b - a + 1 = l
      BY <2>1, <2>4, <2>5, <2>6
    <3> HIDE DEF a, b, c, l
    <3>2. /\ a - 1 + i >= 1 /\ c - 1 + i \in 1..m - n
          /\ n + (c - 1 + i) = a - 1 + i
      BY ONLY <3>1
    <3> USE DEF a, c
    <3>3. stream[e.from - 1 + i] = Sent(e)[i]
      BY <2>8, <3>2 DEF AsWritten
    <3> QED  BY <1>3, <3>2, <3>3
  <2>9. /\ g.hit \/ AsWritten(g, 0)'
        /\ \E k \in 1..Len(Sent(e)) : AsWritten(g, k)'
    BY <2>1, <2>2, <2>8 DEF InPlace
  <2> QED  BY <2>1, <2>3, <2>6, <2>7, <2>9 DEF InPlace, g
<1>6. ASSUME NEW d \in waiting, NEW e \in waiting, Shifted(d, n) # Shifted(e, n)
      PROVE  Apart(Shifted(d, n), Shifted(e, n))
  <2>1. Apart(d, e)
    BY <1>2, <1>6
  <2>2. /\ d.to \in Int /\ d.from \in Int /\ e.to \in Int /\ e.from \in Int /\ n \in Int
    BY <1>2 DEF Entries
  <2> QED  BY <1>4, <2>1, <2>2 DEF Apart
<1>7. waiting' \subseteq Entries
  BY <1>1, <1>4
<1>8. \A e \in waiting' : InPlace(e)'
  BY <1>1, <1>5
<1>9. \A d, e \in waiting' : d # e => Apart(d, e)'
  <2>1. \A d, e \in waiting' : d # e => Apart(d, e)
    BY <1>1, <1>6
  <2> QED  BY <2>1 DEF Apart
<1> QED  BY <1>1, <1>2, <1>3, <1>7, <1>8, <1>9 DEF StreamInv

\* The frames stay in place whatever happens.
LEMMA StreamStep == StreamInv /\ [Next]_wireVars => StreamInv'
<1> SUFFICES ASSUME StreamInv, [Next]_wireVars PROVE StreamInv'
  OBVIOUS
<1>1. CASE UNCHANGED wireVars
  BY <1>1 DEF StreamInv, InPlace, AsWritten, Apart, Sent, wireVars
<1> QED  BY <1>1, WriteStep, NoiseStep, ReadStep DEF Next

\* read() decodes the frame it takes exactly, if noise has spared it.
LEMMA ReadDecodes == StreamInv /\ Read => WholeFramesRead'
<1> SUFFICES ASSUME StreamInv, Read, NEW e \in took', ~e.hit
             PROVE  got' = Result("OK", e.frame)
  BY DEF WholeFramesRead
<1>1. PICK n \in DOMAIN stream \cap 1..FRAME_BUF_MAX :
         /\ got' = Decode(crcEnabled, SubSeq(stream, 1, n))
         /\ took' = {w \in waiting : w.from = 1 /\ w.to = n}
  BY DEF Read
<1>2. e \in waiting /\ e.from = 1 /\ e.to = n
  BY <1>1
<1>3. /\ crcEnabled \in BOOLEAN /\ stream \in Seq(Byte) /\ e \in Entries
      /\ Len(stream) \in Nat /\ n \in 1..Len(stream) /\ InPlace(e)
  BY <1>2 DEF StreamInv
<1>4. Sent(e) \in Seq(Byte) /\ Len(Sent(e)) \in Nat \ {0}
  BY <1>3, SentType
<1>5. Len(Sent(e)) = n
  BY <1>2, <1>3, <1>4 DEF InPlace
<1>6. \A i \in 1..Len(Sent(e)) : stream[1 - 1 + i] = Sent(e)[i]
  <2> SUFFICES ASSUME NEW i \in 1..Len(Sent(e)) PROVE stream[1 - 1 + i] = Sent(e)[i]
    OBVIOUS
  <2>1. e.from - 1 + i = 1 - 1 + i /\ e.from - 1 + i >= 1 /\ i # 0
    BY <1>2, <1>4
  <2> QED  BY <1>3, <2>1 DEF InPlace, AsWritten
<1>7. SubSeq(stream, 1, n) = Sent(e)
  <2>1. 1 \in Nat \ {0} /\ n \in Nat /\ n - 1 + 1 = Len(Sent(e)) /\ n <= Len(stream)
    BY <1>3, <1>5
  <2> QED  BY ONLY <1>3, <1>4, <1>6, <2>1, Taken
<1>8. e.frame \in Frames /\ Encodable(e.frame)
  BY <1>3 DEF Entries, InPlace
<1> QED  BY <1>1, <1>3, <1>7, <1>8, DecodeEncode, Zenon DEF Sent

\* What the wire owes whoever reads it a frame at a time: whatever the payloads, the
\* noise and the bounds, a frame that noise spared and that read() took in one piece is
\* decoded, as the frame that was encoded.
THEOREM FramesRead == Spec => []WholeFramesRead
<1>1. Init => StreamInv /\ WholeFramesRead
  BY DEF Init, StreamInv, WholeFramesRead
<1>2. StreamInv /\ [Next]_wireVars => StreamInv'
  BY StreamStep
<1>3. StreamInv /\ WholeFramesRead /\ [Next]_wireVars => WholeFramesRead'
  <2> SUFFICES ASSUME StreamInv, WholeFramesRead, [Next]_wireVars PROVE WholeFramesRead'
    OBVIOUS
  <2>1. CASE UNCHANGED wireVars
    BY <2>1 DEF WholeFramesRead, wireVars
  <2>2. CASE Write
    BY <2>2 DEF Write, WholeFramesRead
  <2>3. CASE Noise
    BY <2>3 DEF Noise, WholeFramesRead
  <2> QED  BY <2>1, <2>2, <2>3, ReadDecodes DEF Next
<1> QED  BY <1>1, <1>2, <1>3, PTL DEF Spec
-----------------------------------------------------------------------------
\* Where a frame with n characters of data has its delimiters and separators: its
\* identifier may look like one, no other character does.
Delimited(crc, s, n) ==
    /\ n \in Nat /\ Len(s) = 6 + n + Trailer(crc)
    /\ s[1] = START /\ s[Len(s)] = END
    /\ \A i \in 3..Len(s) - 1 : /\ s[i] # START /\ s[i] # END
                                /\ s[i] = SEP <=> i = 5 \/ i = 6 + n

\* No delimiter is a hex digit, nor another delimiter.
LEMMA NotHex ==
    /\ ~(HexToNibble(START) >= 0) /\ ~(HexToNibble(SEP) >= 0) /\ ~(HexToNibble(END) >= 0)
    /\ START # SEP /\ START # END /\ SEP # END
BY DEF HexToNibble, START, SEP, END

\* Hex digits wherever there is no delimiter make a frame of this shape.
LEMMA DigitsDelimit ==
    ASSUME NEW crc \in BOOLEAN, NEW s, NEW n \in Nat, Len(s) = 6 + n + Trailer(crc),
           s[1] = START, s[5] = SEP, s[6 + n] = SEP, s[Len(s)] = END,
           \A i \in 3..Len(s) - 1 : i # 5 /\ i # 6 + n => HexToNibble(s[i]) >= 0
    PROVE  Delimited(crc, s, n)
<1>1. ASSUME NEW i \in 3..Len(s) - 1
      PROVE  s[i] # START /\ s[i] # END /\ (s[i] = SEP <=> i = 5 \/ i = 6 + n)
  <2>1. CASE i = 5 \/ i = 6 + n
    BY <2>1, NotHex
  <2>2. CASE ~(i = 5 \/ i = 6 + n)
    BY <2>2, NotHex
  <2> QED  BY <2>1, <2>2
<1> QED  BY <1>1 DEF Delimited

\* What nstarFrameEncode writes has this shape, ...
LEMMA EncodedDelimited ==
    ASSUME NEW crc \in BOOLEAN, NEW f \in Frames
    PROVE  Delimited(crc, Encode(crc, f), Chars(f))
<1> DEFINE n == Chars(f)
           p == Protected(f)
           buf == Encode(crc, f)
           w == CRC16(p)
<1>1. /\ n \in Nat /\ p \in Seq(Byte) /\ p[1] = START /\ p[5] = SEP /\ p[6 + n] = SEP
      /\ \A i \in 1..2 : p[2 + i] = HexDigits(n, 2)[i]
      /\ \A i \in 1..n : p[5 + i] = HexEncode(f.data)[i]
  BY ProtectedLayout, Zenon
<1>2. /\ Len(buf) = 6 + n + Trailer(crc) /\ buf[Len(buf)] = END
      /\ \A i \in 1..6 + n : buf[i] = p[i]
      /\ crc => \A i \in 1..4 : buf[6 + n + i] = HexDigits(w, 4)[i]
  BY EncodeLayout, Zenon
<1>3. \A i \in 1..n : HexToNibble(HexEncode(f.data)[i]) >= 0
  <2>1. f.data \in Seq(Byte)
    BY DEF Frames
  <2>2. /\ HexEncode(f.data) \in Seq(Byte) /\ Len(HexEncode(f.data)) = n
        /\ IsHex(HexEncode(f.data))
    BY <2>1, HexEncodeType DEF Chars
  <2>3. DOMAIN HexEncode(f.data) = 1..n
    BY <2>2
  <2> QED  BY <2>2, <2>3 DEF IsHex
<1> HIDE DEF n, p, buf
<1>4. w \in Nat
  BY <1>1, CRCType, Ranges
<1> HIDE DEF w
<1>5. ASSUME NEW v \in Nat, NEW m \in Nat, NEW i \in 1..m
      PROVE  HexToNibble(HexDigits(v, m)[i]) >= 0
  <2>1. HexToNibble(HexDigits(v, m)[i]) = Digit(16, v, m, i) /\ Digit(16, v, m, i) \in 0..15
    BY HexDigitsType
  <2> HIDE DEF Digit
  <2> QED  BY <2>1
<1>6. ASSUME NEW i \in 3..Len(buf) - 1, i # 5, i # 6 + n
      PROVE  HexToNibble(buf[i]) >= 0
  <2>1. CASE i \in 3..4
    <3>1. i - 2 \in 1..2 /\ 2 + (i - 2) = i /\ i \in 1..6 + n /\ 2 \in Nat
      BY <1>1, <2>1
    <3>2. HexToNibble(HexDigits(n, 2)[i - 2]) >= 0
      BY <1>1, <1>5, <3>1
    <3> QED  BY <1>1, <1>2, <3>1, <3>2
  <2>2. CASE i \in 6..5 + n
    <3>1. i - 5 \in 1..n /\ 5 + (i - 5) = i /\ i \in 1..6 + n
      BY <1>1, <2>2
    <3> QED  BY <1>1, <1>2, <1>3, <3>1
  <2>3. CASE crc /\ i \in 7 + n..10 + n
    <3>1. i - (6 + n) \in 1..4 /\ 6 + n + (i - (6 + n)) = i /\ 4 \in Nat
      <4>1. n \in Nat /\ i \in 7 + n..10 + n
        BY <1>1, <2>3
      <4> QED  BY ONLY <4>1
    <3>2. HexToNibble(HexDigits(w, 4)[i - (6 + n)]) >= 0
      BY <1>4, <1>5, <3>1
    <3> QED  BY <1>2, <2>3, <3>1, <3>2
  <2>4. i \in 3..4 \/ i \in 6..5 + n \/ (crc /\ i \in 7 + n..10 + n)
    <3>1. CASE crc
      <4>1. n \in Nat /\ Len(buf) - 1 = 10 + n
        BY <1>1, <1>2, <3>1 DEF Trailer
      <4>2. i \in 3..10 + n /\ i # 5 /\ i # 6 + n
        BY <1>6, <4>1
      <4>3. i \in 3..4 \/ i \in 6..5 + n \/ i \in 7 + n..10 + n
        BY ONLY <4>1, <4>2
      <4> QED  BY <3>1, <4>3
    <3>2. CASE ~crc
      <4>1. n \in Nat /\ Len(buf) - 1 = 6 + n
        BY <1>1, <1>2, <3>2 DEF Trailer
      <4>2. i \in 3..6 + n /\ i # 5 /\ i # 6 + n
        BY <1>6, <4>1
      <4> QED  BY <4>1, <4>2
    <3> QED  BY <3>1, <3>2
  <2> QED  BY <2>1, <2>2, <2>3, <2>4
<1>7. buf[1] = START /\ buf[5] = SEP /\ buf[6 + n] = SEP
  <2>1. 1 \in 1..6 + n /\ 5 \in 1..6 + n /\ 6 + n \in 1..6 + n
    BY <1>1
  <2> QED  BY <1>1, <1>2, <2>1
<1> QED  BY <1>1, <1>2, <1>6, <1>7, DigitsDelimit DEF buf, n

\* ... and so has whatever nstarFrameDecode accepts.
LEMMA DecodedDelimited ==
    ASSUME NEW crc \in BOOLEAN, NEW buf \in Seq(Byte), Decode(crc, buf).rc = "OK"
    PROVE  /\ Delimited(crc, buf, DataSize(buf)) /\ (crc => CRCMatches(buf))
           /\ Decode(crc, buf).frame
                = Frame(buf[2], HexDecode(SubSeq(buf, 6, Sep2(buf) - 1)))
<1> DEFINE d == DataSize(buf)
           chars == SubSeq(buf, 6, Sep2(buf) - 1)
           u == SubSeq(buf, 3, 4)
           k == SubSeq(buf, Sep2(buf) + 1, Sep2(buf) + 4)
<1>1. /\ Framed(crc, buf) /\ (crc => CRCMatches(buf)) /\ IsHex(chars)
      /\ Decode(crc, buf) = Result("OK", Frame(buf[2], HexDecode(chars)))
  BY DEF Decode, Failure, Result
<1>2. /\ Len(buf) >= MinLen(crc) /\ buf[1] = START /\ buf[Len(buf)] = END /\ IsHex(u)
      /\ buf[5] = SEP /\ Sep2(buf) + (IF crc THEN 5 ELSE 1) = Len(buf)
      /\ buf[Sep2(buf)] = SEP /\ (crc => IsHex(k))
  BY <1>1 DEF Framed
<1>3. Len(buf) \in Nat /\ Len(buf) >= 6
  <2>1. MinLen(crc) \in Nat /\ MinLen(crc) >= 6
    BY DEF MinLen
  <2> QED  BY <1>2, <2>1
<1>4. Len(u) = 2 /\ u[1] = buf[3] /\ u[2] = buf[4] /\ DOMAIN u = 1..2
  BY <1>3
<1>5. d \in Nat
  <2> DEFINE digits == [i \in DOMAIN u |-> HexToNibble(u[i])]
  <2>1. ASSUME NEW c, HexToNibble(c) >= 0 PROVE HexToNibble(c) \in 0..16 - 1
    <3>1. CASE c \in 48..57
      BY <3>1 DEF HexToNibble
    <3>2. CASE c \notin 48..57 /\ c \in 65..70
      BY <3>2 DEF HexToNibble
    <3>3. CASE c \notin 48..57 /\ c \notin 65..70 /\ c \in 97..102
      BY <3>3 DEF HexToNibble
    <3>4. CASE c \notin 48..57 /\ c \notin 65..70 /\ c \notin 97..102
      BY <2>1, <3>4 DEF HexToNibble
    <3> QED  BY <3>1, <3>2, <3>3, <3>4
  <2>2. digits \in [1..2 -> 0..16 - 1]
    BY <1>2, <1>4, <2>1 DEF IsHex
  <2>3. 16 \in Nat \ {0} /\ 2 \in Nat
    OBVIOUS
  <2> HIDE DEF digits
  <2>4. Value(16, digits) \in 0..Power(16, 2) - 1
    BY <2>2, <2>3, ValueRange
  <2>5. Value(16, digits) \in Nat
    BY <2>4, Powers
  <2> QED  BY <2>5 DEF d, DataSize, HexValue, digits
<1>6. Sep2(buf) = 6 + d
  BY DEF Sep2
<1>7. Len(buf) = 6 + d + Trailer(crc)
  BY <1>2, <1>6 DEF Trailer
<1> HIDE DEF d
<1>8. ASSUME NEW i \in 3..Len(buf) - 1, i # 5, i # 6 + d PROVE HexToNibble(buf[i]) >= 0
  <2>1. CASE i \in 3..4
    <3>1. i - 2 \in 1..2 /\ u[i - 2] = buf[i]
      BY <1>3, <2>1
    <3> HIDE DEF u
    <3> QED  BY <1>2, <1>4, <3>1 DEF IsHex
  <2>2. CASE i \in 6..5 + d
    <3>1. i - 5 \in DOMAIN chars /\ chars[i - 5] = buf[i]
      BY <1>3, <1>5, <1>6, <1>7, <2>2
    <3> HIDE DEF chars
    <3> QED  BY <1>1, <3>1 DEF IsHex
  <2>3. CASE crc /\ i \in 7 + d..10 + d
    <3>1. i - (6 + d) \in DOMAIN k /\ k[i - (6 + d)] = buf[i]
      BY <1>3, <1>5, <1>6, <1>7, <2>3 DEF Trailer
    <3> HIDE DEF k
    <3> QED  BY <1>2, <2>3, <3>1 DEF IsHex
  <2>4. i \in 3..4 \/ i \in 6..5 + d \/ (crc /\ i \in 7 + d..10 + d)
    <3>1. CASE crc
      BY <1>5, <1>7, <1>8, <3>1 DEF Trailer
    <3>2. CASE ~crc
      BY <1>5, <1>7, <1>8, <3>2 DEF Trailer
    <3> QED  BY <3>1, <3>2
  <2> QED  BY <2>1, <2>2, <2>3, <2>4
<1>9. Delimited(crc, buf, d)
  BY <1>2, <1>5, <1>6, <1>7, <1>8, DigitsDelimit
<1> QED  BY <1>1, <1>9 DEF d, Result

\* b is what stands in s from behind its first o characters on, but for the k-th of s; if
\* o is negative, b begins that many characters before s.
Over(b, s, o, k) ==
    \A i \in 1..Len(b) : i + o \in 1..Len(s) /\ i + o # k => b[i] = s[i + o]

\* What begins with a frame, has one character altered and looks like a frame again is no
\* longer and no shorter than that frame.
LEMMA SameLength ==
    ASSUME NEW crc \in BOOLEAN, NEW b, NEW f, NEW d, NEW n, NEW k \in Int,
           Delimited(crc, b, d), Delimited(crc, f, n), Over(b, f, 0, k)
    PROVE  d = n
<1> DEFINE t == Trailer(crc)
           B == Len(b)
           L == Len(f)
<1>1. /\ t \in 1..5 /\ d \in Nat /\ n \in Nat /\ B = 6 + d + t /\ L = 6 + n + t
      /\ b[1] = START /\ b[B] = END /\ f[1] = START /\ f[L] = END
      /\ \A i \in 3..B - 1 : b[i] # START /\ b[i] # END /\ (b[i] = SEP <=> i = 5 \/ i = 6 + d)
      /\ \A i \in 3..L - 1 : f[i] # START /\ f[i] # END /\ (f[i] = SEP <=> i = 5 \/ i = 6 + n)
  BY DEF Delimited, Trailer
<1>2. \A i \in 1..B : i \in 1..L /\ i # k => b[i] = f[i]
  <2>1. \A i \in 1..B : i + 0 = i
    BY <1>1
  <2> QED  BY <2>1 DEF Over
<1> HIDE DEF t, B, L
<1>3. CASE d < n
  <2>1. /\ 6 + d \in 3..B - 1 /\ 6 + d \in 3..L - 1 /\ 6 + d # 5 /\ 6 + d # 6 + n
        /\ 6 + d \in 1..B /\ 6 + d \in 1..L
    BY <1>1, <1>3
  <2>2. k = 6 + d
    BY <1>1, <1>2, <2>1
  <2>3. B \in 3..L - 1 /\ B \in 1..B /\ B \in 1..L /\ B # k
    BY <1>1, <1>3, <2>2
  <2> QED  BY <1>1, <1>2, <2>3
<1>4. CASE d > n
  <2>1. /\ 6 + n \in 3..B - 1 /\ 6 + n \in 3..L - 1 /\ 6 + n # 5 /\ 6 + n # 6 + d
        /\ 6 + n \in 1..B /\ 6 + n \in 1..L
    BY <1>1, <1>4
  <2>2. k = 6 + n
    BY <1>1, <1>2, <2>1
  <2>3. L \in 3..B - 1 /\ L \in 1..B /\ L \in 1..L /\ L # k
    BY <1>1, <1>4, <2>2
  <2> QED  BY <1>1, <1>2, <2>3
<1> QED  BY <1>1, <1>3, <1>4

\* What begins one character late does not look like a frame, even if that character or
\* another one is altered, ...
LEMMA NotOneLate ==
    ASSUME NEW crc \in BOOLEAN, NEW b, NEW f, NEW d, NEW n, NEW k \in Int, k # 2,
           Delimited(crc, b, d), Delimited(crc, f, n), Over(b, f, 1, k)
    PROVE  FALSE
<1> DEFINE t == Trailer(crc)
           B == Len(b)
           L == Len(f)
<1>1. /\ t \in 1..5 /\ d \in Nat /\ n \in Nat /\ B = 6 + d + t /\ L = 6 + n + t
      /\ f[L] = END /\ SEP # END
      /\ \A i \in 3..B - 1 : b[i] # END /\ (b[i] = SEP <=> i = 5 \/ i = 6 + d)
      /\ \A i \in 3..L - 1 : f[i] # END /\ (f[i] = SEP <=> i = 5 \/ i = 6 + n)
      /\ b[B] = END
  BY NotHex DEF Delimited, Trailer
<1>2. \A i \in 1..B : i + 1 \in 1..L /\ i + 1 # k => b[i] = f[i + 1]
  BY DEF Over
<1> HIDE DEF t, B, L
<1>3. k = 5
  <2>1. /\ 4 \in 1..B /\ 4 \in 3..B - 1 /\ 4 # 5 /\ 4 # 6 + d
        /\ 4 + 1 = 5 /\ 5 \in 1..L /\ 5 \in 3..L - 1
    BY <1>1
  <2>2. b[4] # SEP /\ f[5] = SEP
    BY <1>1, <2>1
  <2> QED  BY <1>2, <2>1, <2>2
<1>4. n = 0
  <2>1. /\ 5 \in 1..B /\ 5 \in 3..B - 1 /\ 5 + 1 = 6 /\ 6 \in 1..L /\ 6 \in 3..L - 1
        /\ 6 # 5 /\ 6 # k
    BY <1>1, <1>3
  <2>2. b[5] = SEP /\ b[5] = f[6]
    BY <1>1, <1>2, <2>1
  <2>3. 6 = 6 + n
    BY <1>1, <2>1, <2>2
  <2> QED  BY <1>1, <2>3
<1>5. /\ L - 1 \in 1..B /\ L - 1 \in 3..B - 1 /\ (L - 1) + 1 = L /\ L \in 1..L /\ L # k
  BY <1>1, <1>3, <1>4
<1> QED  BY <1>1, <1>2, <1>5

\* ... and neither does what begins with any other character of a frame, altered to '<',
\* and goes on with the characters of the next, of which one may be altered too.
LEMMA NotInside ==
    ASSUME NEW crc \in BOOLEAN, NEW b, NEW f, NEW g, NEW d, NEW n, NEW m,
           NEW o \in Int, NEW h \in Int, 1 <= o, o < Len(f),
           Delimited(crc, b, d), Delimited(crc, f, n), Over(b, f, o, 1 + o),
           Len(b) + o > Len(f) => Delimited(crc, g, m) /\ Over(b, g, o - Len(f), h)
    PROVE  FALSE
<1> DEFINE t == Trailer(crc)
           B == Len(b)
           L == Len(f)
           z == L - o
<1>1. /\ t \in 1..5 /\ d \in Nat /\ n \in Nat /\ B = 6 + d + t /\ L = 6 + n + t
      /\ f[L] = END /\ SEP # END /\ SEP # START
      /\ b[B] = END
      /\ \A i \in 3..B - 1 : /\ b[i] # START /\ b[i] # END
                             /\ b[i] = SEP <=> i = 5 \/ i = 6 + d
      /\ \A i \in 3..L - 1 : f[i] # END /\ (f[i] = SEP <=> i = 5 \/ i = 6 + n)
  BY NotHex DEF Delimited, Trailer
<1>2. /\ o \in Int /\ 1 <= o /\ o < L /\ z \in Int /\ o = L - z
      /\ \A i \in 2..B : i + o <= L => b[i] = f[i + o]
  <2>1. ASSUME NEW i \in 2..B, i + o <= L PROVE b[i] = f[i + o]
    <3>1. i \in 1..B /\ i + o \in 1..L /\ i + o # 1 + o
      BY <1>1, <2>1
    <3> QED  BY <3>1 DEF Over
  <2>2. o \in Int /\ 1 <= o /\ o < L
    OBVIOUS
  <2> HIDE DEF L
  <2> QED  BY <1>1, <2>1, <2>2
<1>3. ASSUME z <= 2
      PROVE  /\ m \in Nat /\ Len(g) = 6 + m + t /\ g[1] = START
             /\ \A i \in 3..Len(g) - 1 : /\ g[i] # START /\ g[i] # END
                                         /\ g[i] = SEP <=> i = 5 \/ i = 6 + m
             /\ \A i \in 1..B : i - z \in 1..Len(g) /\ i - z # h => b[i] = g[i - z]
  <2>1. B + o > L
    <3> HIDE DEF B, L, t
    <3> QED  BY <1>1, <1>2, <1>3
  <2>2. Delimited(crc, g, m) /\ Over(b, g, o - L, h)
    BY <2>1
  <2>3. \A i \in 1..B : i - z = i + (o - L)
    <3> HIDE DEF B, L, t
    <3> QED  BY <1>1, <1>2
  <2> HIDE DEF z
  <2> QED  BY <2>2, <2>3 DEF Delimited, Over
<1> HIDE DEF t, B, L, z
<1>4. CASE z = 1
  <2> DEFINE G == Len(g)
  <2>1. /\ m \in Nat /\ G = 6 + m + t
        /\ \A i \in 3..G - 1 : g[i] # END /\ (g[i] = SEP <=> i = 5 \/ i = 6 + m)
        /\ \A i \in 1..B : i - 1 \in 1..G /\ i - 1 # h => b[i] = g[i - 1]
    BY <1>3, <1>4
  <2> HIDE DEF G
  <2>2. h = 4
    <3>1. /\ 5 \in 1..B /\ 5 \in 3..B - 1 /\ 5 - 1 = 4 /\ 4 \in 1..G /\ 4 \in 3..G - 1
          /\ 4 # 5 /\ 4 # 6 + m
      BY <1>1, <2>1
    <3>2. b[5] = SEP /\ g[4] # SEP
      BY <1>1, <2>1, <3>1
    <3> QED  BY <2>1, <3>1, <3>2
  <2>3. d = 0
    <3>1. /\ 6 \in 1..B /\ 6 \in 3..B - 1 /\ 6 - 1 = 5 /\ 5 \in 1..G /\ 5 \in 3..G - 1
          /\ 5 # h /\ 6 # 5
      BY <1>1, <2>1, <2>2
    <3>2. b[6] = SEP
      BY <2>1, <3>1
    <3>3. 6 = 6 + d
      BY <1>1, <3>1, <3>2
    <3> QED  BY <1>1, <3>3
  <2>4. B \in 1..B /\ B - 1 \in 1..G /\ B - 1 \in 3..G - 1 /\ B - 1 # h
    BY <1>1, <2>1, <2>2, <2>3
  <2>5. g[B - 1] # END /\ b[B] = g[B - 1]
    BY <2>1, <2>4
  <2> QED  BY <1>1, <2>5
<1>5. CASE z = 2
  <2> DEFINE G == Len(g)
  <2>1. /\ m \in Nat /\ G = 6 + m + t /\ g[1] = START
        /\ \A i \in 3..G - 1 : g[i] = SEP <=> i = 5 \/ i = 6 + m
        /\ \A i \in 1..B : i - 2 \in 1..G /\ i - 2 # h => b[i] = g[i - 2]
    BY <1>3, <1>5
  <2> HIDE DEF G
  <2>2. h = 1
    <3>1. 3 \in 1..B /\ 3 \in 3..B - 1 /\ 3 - 2 = 1 /\ 1 \in 1..G
      BY <1>1, <2>1
    <3>2. b[3] # START
      BY <1>1, <3>1
    <3> QED  BY <2>1, <3>1, <3>2
  <2>3. /\ 5 \in 1..B /\ 5 \in 3..B - 1 /\ 5 - 2 = 3 /\ 3 \in 1..G /\ 3 \in 3..G - 1
        /\ 3 # h /\ 3 # 5 /\ 3 # 6 + m
    BY <1>1, <2>1, <2>2
  <2>4. b[5] = SEP /\ g[3] # SEP
    BY <1>1, <2>1, <2>3
  <2> QED  BY <2>1, <2>3, <2>4
<1>6. CASE z >= 3 /\ z <= B
  <2>1. z \in 2..B /\ z + o <= L /\ z + o = L
    BY <1>1, <1>2, <1>6
  <2>2. b[z] = END
    BY <1>1, <1>2, <2>1
  <2>3. z = B
    <3>1. z \in 3..B - 1 \/ z = B
      BY <1>1, <1>2, <1>6
    <3> QED  BY <1>1, <2>2, <3>1
  <2>4. o = n - d
    BY <1>1, <1>2, <2>3
  <2>5. /\ 5 \in 2..B /\ 5 \in 3..B - 1 /\ 5 + o <= L /\ 5 + o \in 3..L - 1
        /\ 5 + o # 5 /\ 5 + o # 6 + n
    BY <1>1, <1>2, <2>4
  <2>6. b[5] = SEP /\ f[5 + o] # SEP
    BY <1>1, <2>5
  <2> QED  BY <1>2, <2>5, <2>6
<1>7. CASE z > B
  <2>1. B \in 2..B /\ B + o <= L /\ B + o \in 3..L - 1
    BY <1>1, <1>2, <1>7
  <2>2. f[B + o] # END /\ b[B] = f[B + o]
    BY <1>1, <1>2, <2>1
  <2> QED  BY <1>1, <2>2
<1>8. z >= 1
  BY <1>1, <1>2
<1>9. z = 1 \/ z = 2 \/ (z >= 3 /\ z <= B) \/ z > B
  BY <1>1, <1>2, <1>8
<1> QED  BY <1>4, <1>5, <1>6, <1>7, <1>9

\* So what looks like a frame, in a stream of frames of which no two characters of one are
\* altered, is one of them.
LEMMA OneFrame ==
    ASSUME NEW crc \in BOOLEAN, NEW b, NEW f, NEW g, NEW d, NEW n, NEW m,
           NEW o \in Int, NEW k \in Int, NEW h \in Int, 0 <= o, o < Len(f),
           Delimited(crc, b, d), Delimited(crc, f, n), Over(b, f, o, k),
           Len(b) + o > Len(f) => Delimited(crc, g, m) /\ Over(b, g, o - Len(f), h)
    PROVE  o = 0 /\ d = n
<1>1. CASE o = 0
  BY <1>1, SameLength
<1>2. CASE o >= 1 /\ k = 1 + o
  <2>1. 1 <= o /\ Over(b, f, o, 1 + o)
    BY <1>2
  <2> QED  BY <2>1, NotInside
<1>3. CASE o >= 1 /\ k # 1 + o
  <2>1. /\ Len(b) \in Nat /\ Len(b) >= 1 /\ Len(f) \in Nat /\ b[1] = START /\ f[Len(f)] = END
        /\ \A i \in 3..Len(f) - 1 : f[i] # START
    BY DEF Delimited, Trailer
  <2>2. 1 \in 1..Len(b) /\ 1 + o \in 1..Len(f)
    BY <1>3, <2>1
  <2>3. f[1 + o] = START
    BY <1>3, <2>1, <2>2 DEF Over
  <2>4. 1 + o \notin 3..Len(f) - 1 /\ 1 + o # Len(f)
    BY <2>1, <2>3, NotHex
  <2>5. o = 1 /\ k # 2
    BY <1>3, <2>1, <2>2, <2>4
  <2> QED  BY <2>5, NotOneLate
<1> QED  BY <1>1, <1>2, <1>3
-----------------------------------------------------------------------------
\* Two sequences that agree from the m-th to the n-th character have the same piece there.
LEMMA SamePiece ==
    ASSUME NEW s \in Seq(Byte), NEW t \in Seq(Byte), NEW m \in Nat \ {0}, NEW n \in Nat,
           n <= Len(s), n <= Len(t), m <= n, \A i \in m..n : s[i] = t[i]
    PROVE  /\ SubSeq(s, m, n) = SubSeq(t, m, n)
           /\ SubSeq(s, m, n) \in Seq(Byte) /\ Len(SubSeq(s, m, n)) = n - m + 1
<1> DEFINE u == SubSeq(t, m, n)
<1>1. \A j \in m..n : t[j] \in Byte
  OBVIOUS
<1>2. m \in Int /\ n \in Int
  OBVIOUS
<1>3. u \in Seq(Byte) /\ Len(u) = n - m + 1 /\ \A i \in 1..n - m + 1 : u[i] = t[m + i - 1]
  BY <1>1, <1>2, SubSeqProperties
<1> HIDE DEF u
<1>4. \A i \in 1..Len(u) : s[m - 1 + i] = u[i]
  <2> SUFFICES ASSUME NEW i \in 1..Len(u) PROVE s[m - 1 + i] = u[i]
    OBVIOUS
  <2>1. i \in 1..n - m + 1 /\ m - 1 + i = m + i - 1 /\ m - 1 + i \in m..n
    BY <1>3
  <2> QED  BY <1>3, <2>1
<1>5. SubSeq(s, m, n) = u
  BY <1>3, <1>4, Taken
<1> QED  BY <1>3, <1>5 DEF u

\* The CRC guards identifier and data: if both sequences have the CRC that matches, and
\* they differ in one character only, then not in those. Had the character been one of
\* those the CRC protects, one of them would not match.
LEMMA CRCGuards ==
    ASSUME NEW fr \in Seq(Byte), NEW buf \in Seq(Byte), NEW s \in Nat, s >= 6, NEW k \in Int,
           Len(fr) = s + 5, Len(buf) = Len(fr), \A i \in 1..Len(fr) : i # k => buf[i] = fr[i],
           Sep2(fr) = s, Sep2(buf) = s, CRCMatches(fr), CRCMatches(buf)
    PROVE  buf[2] = fr[2] /\ SubSeq(buf, 6, s - 1) = SubSeq(fr, 6, s - 1)
<1> DEFINE L == Len(fr)
<1>1. Len(buf) = L /\ L = s + 5 /\ L \in Nat /\ \A i \in 1..L : i # k => buf[i] = fr[i]
  OBVIOUS
<1> HIDE DEF L
<1>2. CASE ~(k \in 1..L) \/ buf[k] = fr[k]
  <2>1. \A i \in 1..L : buf[i] = fr[i]
    BY <1>1, <1>2
  <2>2. buf = fr
    BY <1>1, <2>1, SeqEqual DEF L
  <2> QED  BY <2>2
<1>3. ~(k \in 1..s /\ buf[k] # fr[k])
  <2> SUFFICES ASSUME k \in 1..s, buf[k] # fr[k] PROVE FALSE
    OBVIOUS
  <2> DEFINE x == SubSeq(buf, 1, s)
             y == SubSeq(fr, 1, s)
  <2>1. /\ x \in Seq(Byte) /\ y \in Seq(Byte) /\ Len(x) = s /\ Len(y) = s
        /\ \A i \in 1..s : x[i] = buf[i] /\ y[i] = fr[i]
    OBVIOUS
  <2>2. SubSeq(buf, s + 1, s + 4) = SubSeq(fr, s + 1, s + 4)
    <3>1. /\ s + 1 \in Nat \ {0} /\ s + 4 \in Nat /\ s + 4 <= L /\ s + 1 <= s + 4
          /\ \A i \in s + 1..s + 4 : i \in 1..L /\ i # k
      BY <1>1
    <3>2. \A i \in s + 1..s + 4 : buf[i] = fr[i]
      BY <1>1, <3>1
    <3> QED  BY <1>1, <3>1, <3>2, SamePiece DEF L
  <2>3. CRC16(x) = CRC16(y)
    BY <2>2 DEF CRCMatches
  <2> HIDE DEF x, y
  <2>4. /\ k \in 1..Len(x) /\ x[k] # y[k] /\ Len(x) = Len(y)
        /\ \A i \in 1..Len(x) : i # k => x[i] = y[i]
    <3>1. \A i \in 1..s : i \in 1..L
      BY <1>1
    <3> QED  BY <1>1, <2>1, <3>1
  <2> QED  BY <2>1, <2>3, <2>4, CRCDetects
<1>4. CASE k \in s + 1..L
  <2>1. buf[2] = fr[2]
    BY <1>1, <1>4
  <2>2. SubSeq(buf, 6, s - 1) = SubSeq(fr, 6, s - 1)
    <3>1. CASE s = 6
      BY <3>1
    <3>2. CASE s # 6
      <4>1. /\ 6 \in Nat \ {0} /\ s - 1 \in Nat /\ s - 1 <= L /\ 6 <= s - 1
            /\ \A i \in 6..s - 1 : i \in 1..L /\ i # k
        BY <1>1, <1>4, <3>2
      <4>2. \A i \in 6..s - 1 : buf[i] = fr[i]
        BY <1>1, <4>1
      <4> QED  BY <1>1, <4>1, <4>2, SamePiece DEF L
    <3> QED  BY <3>1, <3>2
  <2> QED  BY <2>1, <2>2
<1>5. k \in 1..s \/ k \in s + 1..L \/ ~(k \in 1..L)
  BY <1>1
<1> QED  BY <1>2, <1>3, <1>4, <1>5

\* A frame of which at most one character, the k-th, is another
Resembles(buf, fr, k) ==
    Len(buf) = Len(fr) /\ \A i \in 1..Len(fr) : i # k => buf[i] = fr[i]

\* So the CRC build decodes what had one character altered and looks like a frame as the
\* frame it was, or not at all.
LEMMA AlteredDecoded ==
    ASSUME NEW crc \in BOOLEAN, NEW f \in Frames, Encodable(f), NEW buf \in Seq(Byte),
           NEW k \in Int, Decode(crc, buf).rc = "OK", DataSize(buf) = Chars(f),
           NEW fr, fr = Encode(crc, f), Resembles(buf, fr, k)
    PROVE  crc => Decode(crc, buf).frame = f
<1> DEFINE n == Chars(f)
           s == 6 + n
<1>1. n \in Nat /\ Protected(f)[2] = f.id
  BY ProtectedLayout, Zenon
<1>2. /\ fr \in Seq(Byte) /\ Len(fr) = s + Trailer(crc)
      /\ \A i \in 1..s : fr[i] = Protected(f)[i]
  BY EncodeLayout, Zenon
<1>3. Sep2(fr) = s /\ SubSeq(fr, 6, Sep2(fr) - 1) = HexEncode(f.data)
  BY SizeRead, DataRead, Zenon
<1>4. crc => CRCMatches(fr)
  <2>1. crc => crc = TRUE
    OBVIOUS
  <2> QED  BY <2>1, CRCRead, Zenon
<1>5. /\ Sep2(buf) = s /\ (crc => CRCMatches(buf))
      /\ Decode(crc, buf).frame = Frame(buf[2], HexDecode(SubSeq(buf, 6, Sep2(buf) - 1)))
  BY DecodedDelimited DEF Sep2
<1>6. f.data \in Seq(Byte) /\ f = [id |-> f.id, data |-> f.data]
  BY DEF Frames
<1> HIDE DEF n
<1>7. s \in Nat /\ s >= 6 /\ fr[2] = f.id
  <2>1. s \in Nat /\ s >= 6 /\ 2 \in 1..s
    BY <1>1
  <2> QED  BY <1>1, <1>2, <2>1
<1> HIDE DEF s
<1>8. crc => Len(fr) = s + 5
  BY <1>2 DEF Trailer
<1>9. crc => buf[2] = fr[2] /\ SubSeq(buf, 6, s - 1) = SubSeq(fr, 6, s - 1)
  BY <1>2, <1>3, <1>4, <1>5, <1>7, <1>8, CRCGuards DEF Resembles
<1>10. HexDecode(HexEncode(f.data)) = f.data
  BY <1>6, HexDecodeEncode
<1>11. crc => Frame(buf[2], HexDecode(SubSeq(buf, 6, Sep2(buf) - 1))) = f
  BY <1>3, <1>5, <1>6, <1>7, <1>9, <1>10 DEF Frame
<1> QED  BY <1>5, <1>11
-----------------------------------------------------------------------------
\* Every character of the stream belongs to a frame.
Covered == \A i \in 1..Len(stream) : \E e \in waiting : e.from <= i /\ i <= e.to

\* The frames that wait cover the stream, whatever is written and read.
LEMMA CoveredInv == StreamInv /\ Covered /\ [Next]_wireVars => Covered'
<1> SUFFICES ASSUME StreamInv, Covered, [Next]_wireVars PROVE Covered'
  OBVIOUS
<1>1. /\ crcEnabled \in BOOLEAN /\ stream \in Seq(Byte) /\ waiting \subseteq Entries
      /\ Len(stream) \in Nat
  BY DEF StreamInv
<1>2. CASE Write
  <2>1. PICK f \in Payloads :
           /\ stream' = stream \o Encode(crcEnabled, f)
           /\ waiting' = waiting \cup {Entry(f, Len(stream) + 1, Len(stream'))}
    BY <1>2 DEF Write
  <2>2. f \in Frames
    BY CharsAssumption
  <2>3. Encode(crcEnabled, f) \in Seq(Byte)
    BY <1>1, <2>2, EncodeLayout, Zenon
  <2>4. Len(stream') \in Nat /\ Len(stream') >= Len(stream)
    BY <1>1, <2>1, <2>3, Joined
  <2>5. ASSUME NEW i \in 1..Len(stream') PROVE \E e \in waiting' : e.from <= i /\ i <= e.to
    <3>1. CASE i \in 1..Len(stream)
      BY <2>1, <3>1 DEF Covered
    <3>2. CASE ~(i \in 1..Len(stream))
      <4> DEFINE g == Entry(f, Len(stream) + 1, Len(stream'))
      <4>1. g \in waiting' /\ g.from = Len(stream) + 1 /\ g.to = Len(stream')
        BY <2>1 DEF Entry
      <4>2. Len(stream) + 1 <= i /\ i <= Len(stream')
        BY <1>1, <2>4, <3>2
      <4> HIDE DEF g
      <4>3. g.from <= i /\ i <= g.to
        BY <4>1, <4>2
      <4> QED  BY <4>1, <4>3
    <3> QED  BY <3>1, <3>2
  <2> QED  BY <2>5 DEF Covered
<1>3. CASE Noise
  <2>1. PICK e \in waiting, c \in NoiseChars :
           /\ \E i \in DOMAIN stream \cap (e.from)..(e.to) :
                stream' = [stream EXCEPT ![i] = c]
           /\ waiting' = (waiting \ {e}) \cup {[e EXCEPT !.hit = TRUE]}
    BY <1>3 DEF Noise
  <2> DEFINE g == [e EXCEPT !.hit = TRUE]
  <2>2. g \in waiting' /\ g.from = e.from /\ g.to = e.to
    BY <1>1, <2>1 DEF Entries
  <2>3. Len(stream') = Len(stream)
    BY <1>1, <2>1
  <2>4. \A w \in waiting : w = e \/ w \in waiting'
    BY <2>1
  <2> HIDE DEF g
  <2> QED  BY <2>2, <2>3, <2>4 DEF Covered
<1>4. CASE Read
  <2>1. PICK n \in DOMAIN stream \cap 1..FRAME_BUF_MAX :
           /\ stream' = SubSeq(stream, n + 1, Len(stream))
           /\ waiting' = {Shifted(e, n) : e \in {w \in waiting : w.to > n}}
    BY <1>4 DEF Read
  <2>2. n \in 1..Len(stream) /\ Len(stream') = Len(stream) - n
    BY <1>1, <2>1
  <2>3. ASSUME NEW i \in 1..Len(stream') PROVE \E e \in waiting' : e.from <= i /\ i <= e.to
    <3>1. n + i \in 1..Len(stream)
      BY <1>1, <2>2
    <3>2. PICK e \in waiting : e.from <= n + i /\ n + i <= e.to
      BY <3>1 DEF Covered
    <3>3. e \in Entries /\ e.from \in Int /\ e.to \in Int /\ i >= 1
      BY <1>1, <2>2 DEF Entries
    <3>4. e.to > n /\ e.from - n <= i /\ i <= e.to - n
      BY <2>2, <3>2, <3>3
    <3>5. Shifted(e, n).from = e.from - n /\ Shifted(e, n).to = e.to - n
      BY <3>3 DEF Entries, Shifted
    <3>6. Shifted(e, n) \in waiting'
      BY <2>1, <3>4
    <3> QED  BY <3>4, <3>5, <3>6
  <2> QED  BY <2>3 DEF Covered
<1>5. CASE UNCHANGED wireVars
  BY <1>5 DEF Covered, wireVars
<1> QED  BY <1>2, <1>3, <1>4, <1>5 DEF Next

\* The next frame begins where one ends.
LEMMA NextBegins ==
    ASSUME StreamInv, Covered, NEW e \in waiting, e.to >= 0, e.to < Len(stream)
    PROVE  \E w \in waiting : w.from = e.to + 1
<1>1. /\ stream \in Seq(Byte) /\ Len(stream) \in Nat /\ waiting \subseteq Entries
      /\ \A v, w \in waiting : v # w => Apart(v, w)
  BY DEF StreamInv
<1>2. e.to \in Int /\ e.from \in Int
  BY <1>1 DEF Entries
<1>3. e.to + 1 \in 1..Len(stream)
  BY <1>1, <1>2
<1>4. PICK w \in waiting : w.from <= e.to + 1 /\ e.to + 1 <= w.to
  BY <1>3 DEF Covered
<1>5. w.from \in Int /\ w.to \in Int /\ e.from <= e.to
  <2>1. Sent(e) \in Seq(Byte) /\ Len(Sent(e)) \in Nat \ {0}
    BY <1>1, SentType DEF StreamInv
  <2>2. e.to - e.from + 1 = Len(Sent(e))
    BY DEF StreamInv, InPlace
  <2> QED  BY <1>1, <1>2, <2>1, <2>2 DEF Entries
<1>6. w # e
  BY <1>2, <1>4
<1>7. w.to < e.from \/ e.to < w.from
  BY <1>1, <1>6 DEF Apart
<1> QED  BY <1>2, <1>4, <1>5, <1>7

\* What read() takes stands over the frames of the stream.
LEMMA TakenOver ==
    ASSUME StreamInv, NEW n \in 1..Len(stream), NEW e \in waiting
    PROVE  \E k \in Int : Over(SubSeq(stream, 1, n), Sent(e), 1 - e.from, k)
<1> DEFINE buf == SubSeq(stream, 1, n)
<1>1. stream \in Seq(Byte) /\ Len(stream) \in Nat /\ e \in Entries /\ InPlace(e)
  BY DEF StreamInv
<1>2. buf \in Seq(Byte) /\ Len(buf) = n /\ \A i \in 1..n : buf[i] = stream[i]
  BY <1>1
<1>3. PICK k \in 1..Len(Sent(e)) : AsWritten(e, k)
  BY <1>1 DEF InPlace
<1>4. e.from \in Int /\ k \in Int
  BY <1>1 DEF Entries
<1> HIDE DEF buf
<1>5. ASSUME NEW i \in 1..n, i + (1 - e.from) \in 1..Len(Sent(e)), i + (1 - e.from) # k
      PROVE  buf[i] = Sent(e)[i + (1 - e.from)]
  <2> DEFINE j == i + (1 - e.from)
  <2>1. e.from - 1 + j = i /\ i >= 1
    BY <1>4
  <2>2. j \in 1..Len(Sent(e)) /\ j # k
    BY <1>5
  <2> HIDE DEF j
  <2>3. stream[e.from - 1 + j] = Sent(e)[j]
    BY <1>3, <2>1, <2>2 DEF AsWritten
  <2> QED  BY <1>2, <2>1, <2>3 DEF j
<1>6. Over(buf, Sent(e), 1 - e.from, k)
  BY <1>2, <1>5 DEF Over
<1> QED  BY <1>4, <1>6 DEF buf

\* What read() takes is decoded only if it is one of the frames, from its first character
\* to its last, and by the CRC build as that frame.
LEMMA ReadTakesFrame == StreamInv /\ Covered /\ Read => OnlyWholeFrames'
<1> SUFFICES ASSUME StreamInv, Covered, Read, got'.rc = "OK"
             PROVE  \E e \in took' : (e.hit => crcEnabled') => got'.frame = e.frame
  BY DEF OnlyWholeFrames
<1>1. PICK c \in DOMAIN stream \cap 1..FRAME_BUF_MAX :
         /\ got' = Decode(crcEnabled, SubSeq(stream, 1, c))
         /\ took' = {w \in waiting : w.from = 1 /\ w.to = c}
         /\ crcEnabled' = crcEnabled
  BY DEF Read
<1> DEFINE buf == SubSeq(stream, 1, c)
<1>2. /\ crcEnabled \in BOOLEAN /\ stream \in Seq(Byte) /\ waiting \subseteq Entries
      /\ Len(stream) \in Nat /\ c \in 1..Len(stream) /\ 1 \in 1..Len(stream)
      /\ \A w \in waiting : InPlace(w)
  BY DEF StreamInv
<1>3. PICK e \in waiting : e.from <= 1 /\ 1 <= e.to
  BY <1>2 DEF Covered
<1>4. /\ e \in Entries /\ e.frame \in Frames /\ Encodable(e.frame)
      /\ e.from \in Int /\ e.to \in Int /\ e.hit \in BOOLEAN
      /\ e.to - e.from + 1 = Len(Sent(e))
  BY <1>2 DEF Entries, InPlace
<1>5. buf \in Seq(Byte) /\ Len(buf) = c
  BY <1>2
<1>6. Decode(crcEnabled, buf).rc = "OK" /\ got' = Decode(crcEnabled, buf)
  BY <1>1
<1>7. PICK k \in Int : Over(buf, Sent(e), 1 - e.from, k)
  BY <1>2, TakenOver
<1> HIDE DEF buf
<1> DEFINE d == DataSize(buf)
           n == Chars(e.frame)
           L == Len(Sent(e))
           o == 1 - e.from
<1>8. Delimited(crcEnabled, buf, d)
  BY <1>2, <1>5, <1>6, DecodedDelimited
<1>9. Delimited(crcEnabled, Sent(e), n)
  BY <1>2, <1>4, EncodedDelimited DEF Sent
<1>10. L \in Nat \ {0}
  BY <1>2, <1>4, SentType
<1>11. o \in Int /\ 0 <= o /\ o < L /\ o - L = - e.to
  <2> HIDE DEF L
  <2> QED  BY <1>3, <1>4, <1>10 DEF L
<1>12. \E g, m : \E h \in Int :
          c + o > L => Delimited(crcEnabled, g, m) /\ Over(buf, g, o - L, h)
  <2>1. CASE ~(c + o > L)
    BY <2>1
  <2>2. CASE c + o > L
    <3>1. e.to >= 0 /\ e.to < Len(stream)
      <4>1. c + o > L /\ o = 1 - e.from /\ e.to - e.from + 1 = L
        BY <1>4, <2>2
      <4> HIDE DEF o, L
      <4> QED  BY <1>2, <1>3, <1>4, <1>10, <4>1
    <3>2. PICK w \in waiting : w.from = e.to + 1
      BY <1>2, <1>3, <3>1, NextBegins
    <3>3. w.frame \in Frames
      BY <1>2, <3>2 DEF Entries
    <3>4. Delimited(crcEnabled, Sent(w), Chars(w.frame))
      BY <1>2, <3>3, EncodedDelimited DEF Sent
    <3>5. PICK h \in Int : Over(buf, Sent(w), 1 - w.from, h)
      BY <1>2, <3>2, TakenOver DEF buf
    <3>6. 1 - w.from = o - L
      <4> HIDE DEF o, L
      <4> QED  BY <1>4, <1>11, <3>2
    <3> QED  BY <3>4, <3>5, <3>6
  <2> QED  BY <2>1, <2>2
<1>13. PICK g, m : \E h \in Int :
          c + o > L => Delimited(crcEnabled, g, m) /\ Over(buf, g, o - L, h)
  BY <1>12
<1>14. PICK h \in Int :
          c + o > L => Delimited(crcEnabled, g, m) /\ Over(buf, g, o - L, h)
  BY <1>13
<1>15. o = 0 /\ d = n
  <2>1. Len(buf) + o > Len(Sent(e)) =>
           Delimited(crcEnabled, g, m) /\ Over(buf, g, o - Len(Sent(e)), h)
    BY <1>5, <1>14
  <2>2. o \in Int /\ 0 <= o /\ o < Len(Sent(e)) /\ Over(buf, Sent(e), o, k)
    BY <1>7, <1>11
  <2> HIDE DEF o, d, n
  <2> QED  BY <1>2, <1>8, <1>9, <2>1, <2>2, OneFrame
<1>16. c = L /\ e.from = 1 /\ e.to = c
  <2>1. Len(buf) = 6 + d + Trailer(crcEnabled) /\ L = 6 + n + Trailer(crcEnabled)
    BY <1>8, <1>9 DEF Delimited
  <2>2. e.from = 1
    BY <1>4, <1>15
  <2> HIDE DEF d, n, L
  <2>3. c = L
    BY <1>5, <1>15, <2>1
  <2> QED  BY <1>4, <2>2, <2>3 DEF L
<1>17. e \in took'
  BY <1>1, <1>16
<1>18. ASSUME crcEnabled PROVE got'.frame = e.frame
  <2>1. \A i \in 1..Len(buf) : i # k => buf[i] = Sent(e)[i]
    <3> SUFFICES ASSUME NEW i \in 1..Len(buf), i # k PROVE buf[i] = Sent(e)[i]
      OBVIOUS
    <3>1. i + o = i /\ i \in 1..Len(Sent(e))
      BY <1>5, <1>15, <1>16
    <3> QED  BY <1>7, <3>1 DEF Over
  <2>2. Len(buf) = Len(Sent(e)) /\ d = n
    BY <1>5, <1>15, <1>16
  <2>3. Sent(e) = Encode(crcEnabled, e.frame)
    BY DEF Sent
  <2>4. crcEnabled => Decode(crcEnabled, buf).frame = e.frame
    <3>1. Resembles(buf, Sent(e), k)
      BY <2>1, <2>2 DEF Resembles
    <3>2. DataSize(buf) = Chars(e.frame)
      BY <2>2
    <3> HIDE DEF d, n, o, L
    <3> QED  BY <1>2, <1>4, <1>5, <1>6, <2>3, <3>1, <3>2, AlteredDecoded
  <2> QED  BY <1>6, <1>18, <2>4
<1>19. ASSUME ~e.hit PROVE got'.frame = e.frame
  BY <1>17, <1>19, ReadDecodes DEF WholeFramesRead, Result
<1> QED  BY <1>1, <1>4, <1>17, <1>18, <1>19

\* What the framing and the CRC promise: whatever a read() takes of the stream, part of a
\* frame, the end of one and the beginning of the next, or several, is decoded only if it is
\* one whole frame, and then as that frame, even if noise has altered a character of each:
\* for every payload, every noise, and identifiers that look like delimiters.
THEOREM OnlyFramesDecoded == Spec => []OnlyWholeFrames
<1> DEFINE Inv == StreamInv /\ Covered
<1>1. Init => Inv /\ OnlyWholeFrames
  BY DEF Init, StreamInv, Covered, OnlyWholeFrames, Nothing, Failure, Result
<1>2. Inv /\ [Next]_wireVars => Inv'
  BY StreamStep, CoveredInv
<1>3. Inv /\ OnlyWholeFrames /\ [Next]_wireVars => OnlyWholeFrames'
  <2> SUFFICES ASSUME Inv, OnlyWholeFrames, [Next]_wireVars PROVE OnlyWholeFrames'
    OBVIOUS
  <2>1. CASE UNCHANGED wireVars
    BY <2>1 DEF OnlyWholeFrames, wireVars
  <2>2. CASE Write \/ Noise
    BY <2>2 DEF Write, Noise, OnlyWholeFrames, Nothing, Failure, Result
  <2>3. CASE Read
    BY <2>3, ReadTakesFrame
  <2> QED  BY <2>1, <2>2, <2>3 DEF Next
<1> QED  BY <1>1, <1>2, <1>3, PTL DEF Spec

\* A frame that is alone in the stream, and not altered, ends with the remainder.
LEMMA AloneIsRemainder == StreamInv /\ Covered => CRCIsRemainder
<1> SUFFICES ASSUME StreamInv, Covered, NEW e \in waiting,
                    waiting = {e}, e.from = 1, ~e.hit, crcEnabled
             PROVE  Remainder(SubSeq(stream, 1, Len(stream) - 5) \o <<0, 0>>)
                      = HexValue(SubSeq(stream, Len(stream) - 4, Len(stream) - 1))
  BY DEF CRCIsRemainder
<1> DEFINE f == e.frame
           s == 6 + Chars(f)
           p == Protected(f)
           buf == Encode(TRUE, f)
<1>1. /\ stream \in Seq(Byte) /\ Len(stream) \in Nat /\ e \in Entries /\ InPlace(e)
      /\ crcEnabled \in BOOLEAN
  BY DEF StreamInv
<1>2. Sent(e) = buf /\ f \in Frames
  <2>1. crcEnabled = TRUE
    BY <1>1
  <2> QED  BY <1>1, <2>1 DEF Sent, Entries
<1>3. /\ s \in Nat /\ p \in Seq(Byte) /\ Len(buf) = s + 5
      /\ SubSeq(buf, 1, s) = p
      /\ HexValue(SubSeq(buf, s + 1, s + 4)) = CRC16(p)
  BY <1>2, CRCLayout, Zenon
<1>4. buf \in Seq(Byte) /\ Len(buf) \in Nat \ {0}
  BY <1>1, <1>2, SentType
<1> HIDE DEF s, p, buf, f
<1>5. e.to = Len(buf) /\ e.to <= Len(stream)
  <2>1. e.to - e.from + 1 = Len(buf) /\ e.to <= Len(stream) /\ e.to \in Int
    BY <1>1, <1>2 DEF InPlace, Entries
  <2> QED  BY <1>4, <2>1
<1>6. Len(stream) <= e.to
  <2>1. CASE Len(stream) >= 1
    <3>1. Len(stream) \in 1..Len(stream)
      BY <1>1, <2>1
    <3>2. PICK w \in waiting : w.from <= Len(stream) /\ Len(stream) <= w.to
      BY <3>1 DEF Covered
    <3> QED  BY <3>2
  <2>2. CASE ~(Len(stream) >= 1)
    BY <1>1, <1>4, <1>5, <2>2
  <2> QED  BY <2>1, <2>2
<1>7. Len(stream) = Len(buf)
  BY <1>1, <1>4, <1>5, <1>6
<1>8. \A i \in 1..Len(buf) : stream[i] = buf[i]
  <2> SUFFICES ASSUME NEW i \in 1..Len(buf) PROVE stream[i] = buf[i]
    OBVIOUS
  <2>1. AsWritten(e, 0)
    BY <1>1 DEF InPlace
  <2>2. i # 0 /\ e.from - 1 + i = i /\ i >= 1
    BY <1>4
  <2> QED  BY <1>2, <2>1, <2>2 DEF AsWritten
<1>9. stream = buf
  BY <1>1, <1>4, <1>7, <1>8, SeqEqual
<1>10. Len(stream) - 5 = s /\ Len(stream) - 4 = s + 1 /\ Len(stream) - 1 = s + 4
  BY <1>3, <1>7
<1>11. Remainder(p \o <<0, 0>>) = CRC16(p)
  BY <1>3, CRC16IsRemainder
<1> QED  BY <1>3, <1>9, <1>10, <1>11

\* The CRC on the wire is that remainder of everything before it, of any frame.
THEOREM CRCsAreRemainders == Spec => []CRCIsRemainder
<1> DEFINE Inv == StreamInv /\ Covered
<1>1. Init => Inv
  BY DEF Init, StreamInv, Covered
<1>2. Inv /\ [Next]_wireVars => Inv'
  BY StreamStep, CoveredInv
<1>3. Inv => CRCIsRemainder
  BY AloneIsRemainder
<1> QED  BY <1>1, <1>2, <1>3, PTL DEF Spec
=============================================================================
