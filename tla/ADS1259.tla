------------------------------ MODULE ADS1259 ------------------------------
(***************************************************************************)
(* The gyro's converter as ADS1259::read sees it: four bytes, the big-     *)
(* endian two's complement of a 24-bit conversion and a checksum.          *)
(***************************************************************************)
EXTENDS Integers

Byte == 0..255
Words == [0..3 -> Byte]

\* A 24-bit number and its sign bit.
Span == 256 * 256 * 256
Half == 128 * 256 * 256

\* The conversions a 24-bit converter makes.
Conversions == (-Half)..(Half - 1)

\* The bytes of a 24-bit number, and the number they make.
High(u) == u \div (256 * 256)
Middle(u) == (u \div 256) % 256
Low(u) == u % 256
Joined(a, b, c) == a * (256 * 256) + b * 256 + c

Checksum(a, b, c) == (a + b + c + 155) % 128

\* What the converter transmits for conversion v.
Transmitted(v) ==
    LET u == v % Span
    IN  [k \in 0..3 |-> IF k = 0 THEN High(u)
                        ELSE IF k = 1 THEN Middle(u)
                        ELSE IF k = 2 THEN Low(u)
                        ELSE Checksum(High(u), Middle(u), Low(u))]

\* int8_t(data[0]) >> 7
Sign(b) == IF b >= 128 THEN -1 ELSE 0

\* Mutation: without sign extension.
ReadingUnsigned(d) == Joined(d[0], d[1], d[2])

Reading(d) == Sign(d[0]) * Span + Joined(d[0], d[1], d[2])

\* The return value of read.
Accepted(d) == Checksum(d[0], d[1], d[2]) = d[3]
============================================================================
