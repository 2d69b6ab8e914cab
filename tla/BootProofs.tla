----------------------------- MODULE BootProofs ----------------------------
(***************************************************************************)
(* The calibration and the boot, for every number of readings, length of a *)
(* diagnostic line, size of the queue and set of throttles: the words of   *)
(* the converter are decoded exactly and disturbed ones rejected, the bias *)
(* lies among the values the gyro gave at rest, it is measured with motors *)
(* that are configured and given no pulse, and modes stand.                *)
(***************************************************************************)
EXTENDS Boot, TLAPS

----------------------------------------------------------------------------
(* The converter                                                           *)

\* The extent of the conversions.
LEMMA Extent ==
    /\ Span \in Nat /\ Half \in Nat
    /\ \A v \in Conversions : v \in Int /\ -Half <= v /\ v < Half
<1>1. Span \in Nat /\ Half \in Nat
  BY SMT DEF Span, Half
<1>2. \A v \in Conversions : v \in Int /\ -Half <= v /\ v < Half
  BY <1>1, SMT DEF Conversions
<1> QED BY <1>1, <1>2

\* The 24-bit pattern of a conversion.
LEMMA Pattern ==
    ASSUME NEW v \in Conversions
    PROVE  /\ v % Span \in Int /\ 0 <= v % Span /\ v % Span < Span
           /\ v % Span = IF v >= 0 THEN v ELSE v + Span
<1>1. v \in Int /\ -Half <= v /\ v < Half
  BY Extent
<1> QED BY <1>1, SMT DEF Span, Half

\* Three bytes are a 24-bit pattern, the first of which holds its top bit.
LEMMA Digits ==
    ASSUME NEW u \in Int, 0 <= u, u < Span
    PROVE  /\ High(u) \in Byte /\ Middle(u) \in Byte /\ Low(u) \in Byte
           /\ Joined(High(u), Middle(u), Low(u)) = u
           /\ High(u) >= 128 <=> u >= Half
<1>1. High(u) \in Byte
  BY SMT DEF Span, High, Byte
<1>2. Middle(u) \in Byte /\ Low(u) \in Byte
  BY SMT DEF Span, Middle, Low, Byte
<1>3. Joined(High(u), Middle(u), Low(u)) = u
  BY SMT DEF Span, Joined, High, Middle, Low
<1>4. High(u) >= 128 <=> u >= Half
  BY SMT DEF Span, Half, High
<1> QED BY <1>1, <1>2, <1>3, <1>4

\* The checksum is a byte of its own.
LEMMA ChecksumType ==
    ASSUME NEW x \in Int, NEW y \in Int, NEW z \in Int
    PROVE  Checksum(x, y, z) \in Byte
BY SMT DEF Checksum, Byte

\* Bytes are numbers.
LEMMA ByteInt == \A x \in Byte : x \in Int
BY SMT DEF Byte

\* The four bytes that carry a conversion.
LEMMA Bytes ==
    ASSUME NEW v \in Conversions
    PROVE  LET d == Transmitted(v)
               u == v % Span
           IN  /\ d \in Words
               /\ d[0] = High(u) /\ d[1] = Middle(u) /\ d[2] = Low(u)
               /\ d[3] = Checksum(d[0], d[1], d[2])
<1> DEFINE u == v % Span
           c == Checksum(High(u), Middle(u), Low(u))
<1>1. u \in Int /\ 0 <= u /\ u < Span
  BY Pattern
<1>2. Transmitted(v) = [k \in 0..3 |-> IF k = 0 THEN High(u) ELSE IF k = 1 THEN Middle(u)
                                       ELSE IF k = 2 THEN Low(u) ELSE c]
  BY Zenon DEF Transmitted
<1> HIDE DEF u
<1>3. High(u) \in Byte /\ Middle(u) \in Byte /\ Low(u) \in Byte
  BY <1>1, Digits
<1>4. c \in Byte
  BY <1>3, ByteInt, ChecksumType
<1> HIDE DEF c
<1>5. /\ Transmitted(v)[0] = High(u) /\ Transmitted(v)[1] = Middle(u)
      /\ Transmitted(v)[2] = Low(u) /\ Transmitted(v)[3] = c
  BY <1>2, SMT
<1>6. Transmitted(v) \in Words
  BY <1>2, <1>3, <1>4, SMT DEF Words
<1> QED BY <1>5, <1>6, Zenon DEF u, c

\* ADS1259::read returns the conversion that was made, with its sign.
LEMMA Decodes ==
    ASSUME NEW v \in Conversions
    PROVE  Accepted(Transmitted(v)) /\ Reading(Transmitted(v)) = v
<1> DEFINE d == Transmitted(v)
           u == v % Span
<1>1. d[0] = High(u) /\ d[1] = Middle(u) /\ d[2] = Low(u)
  BY Bytes, Zenon
<1>2. Accepted(d)
  BY Bytes, Zenon DEF Accepted
<1>3. /\ u \in Int /\ 0 <= u /\ u < Span /\ u = IF v >= 0 THEN v ELSE v + Span
      /\ v \in Int /\ -Half <= v /\ v < Half
  BY Pattern, Extent
<1> HIDE DEF d, u
<1>4. Joined(High(u), Middle(u), Low(u)) = u /\ (High(u) >= 128 <=> u >= Half)
  BY <1>3, Digits
<1>5. Joined(d[0], d[1], d[2]) = u /\ (d[0] >= 128 <=> u >= Half)
  BY <1>1, <1>4, Zenon
<1>6. u >= Half <=> v < 0
  BY <1>3, SMT DEF Span, Half
<1>7. Sign(d[0]) = IF v < 0 THEN -1 ELSE 0
  BY <1>5, <1>6 DEF Sign
<1>8. Reading(d) = v
  BY <1>3, <1>5, <1>7, Extent DEF Reading
<1> QED BY <1>2, <1>8 DEF d

----------------------------------------------------------------------------
(* What the checksum finds                                                 *)

\* The part of a byte that the checksum looks at.
Seven(x) == x % 128

\* A disturbance that is no multiple of 128 shows in that part.
LEMMA Shifted ==
    ASSUME NEW x \in Byte, NEW e \in Errors
    PROVE  Shift(x, e) \in Int /\ Seven(Shift(x, e)) # Seven(x)
<1>1. e \in 1..255 /\ e % 128 # 0
  BY ErrorAssumption
<1>2. Seven(Shift(x, e)) # Seven(x)
  BY <1>1, SMT DEF Seven, Shift, Byte
<1>3. Shift(x, e) \in Int
  BY <1>1, SMT DEF Shift, Byte
<1> QED BY <1>2, <1>3

\* Two bytes that differ in it have different checksums.
LEMMA ChecksumTells ==
    ASSUME NEW x \in Int, NEW y \in Int, NEW p \in Int, NEW q \in Int,
           Seven(x) # Seven(y)
    PROVE  /\ Checksum(x, p, q) # Checksum(y, p, q)
           /\ Checksum(p, x, q) # Checksum(p, y, q)
           /\ Checksum(p, q, x) # Checksum(p, q, y)
<1>1. Checksum(x, p, q) # Checksum(y, p, q)
  BY SMT DEF Checksum, Seven
<1>2. Checksum(p, x, q) # Checksum(p, y, q)
  BY SMT DEF Checksum, Seven
<1>3. Checksum(p, q, x) # Checksum(p, q, y)
  BY SMT DEF Checksum, Seven
<1> QED BY <1>1, <1>2, <1>3

\* A byte that was disturbed by anything but its top bit shows in the checksum.
LEMMA DisturbedRejected ==
    ASSUME NEW v \in Conversions, NEW k \in 0..3, NEW e \in Errors
    PROVE  ~Accepted(Disturbed(v, k, e))
<1> DEFINE d == Transmitted(v)
           w == Shift(d[k], e)
           b == [d EXCEPT ![k] = w]
<1>1. d \in Words /\ Checksum(d[0], d[1], d[2]) = d[3]
  BY Bytes
<1>2. Disturbed(v, k, e) = b
  BY Zenon DEF Disturbed
<1> SUFFICES ~Accepted(b)
  BY <1>2
<1> HIDE DEF d
<1>3. \A m \in 0..3 : d[m] \in Byte /\ d[m] \in Int
  BY <1>1, ByteInt DEF Words
<1>4. w \in Int /\ Seven(w) # Seven(d[k])
  BY <1>3, Shifted, Zenon
<1>5. d[0] \in Int /\ d[1] \in Int /\ d[2] \in Int
  BY <1>3
<1> HIDE DEF w
<1>6. b[k] = w /\ \A m \in 0..3 : m # k => b[m] = d[m]
  BY <1>1, SMT DEF Words
<1> HIDE DEF b
<1>7. CASE k = 3
  <2>1. b[0] = d[0] /\ b[1] = d[1] /\ b[2] = d[2]
    BY <1>6, <1>7, SMT
  <2>2. b[3] # d[3]
    BY <1>4, <1>6, <1>7
  <2> QED BY <1>1, <2>1, <2>2, Zenon DEF Accepted
<1>8. CASE k # 3
  <2>1. b[3] = d[3]
    BY <1>6, <1>8, SMT
  <2>2. Checksum(b[0], b[1], b[2]) # Checksum(d[0], d[1], d[2])
    <3>1. CASE k = 0
      <4>1. b[0] = w /\ b[1] = d[1] /\ b[2] = d[2]
        BY <1>6, <3>1, SMT
      <4>2. Seven(w) # Seven(d[0])
        BY <1>4, <3>1
      <4> QED BY <1>4, <1>5, <4>1, <4>2, ChecksumTells, ZenonT(60)
    <3>2. CASE k = 1
      <4>1. b[0] = d[0] /\ b[1] = w /\ b[2] = d[2]
        BY <1>6, <3>2, SMT
      <4>2. Seven(w) # Seven(d[1])
        BY <1>4, <3>2
      <4> QED BY <1>4, <1>5, <4>1, <4>2, ChecksumTells, ZenonT(60)
    <3>3. CASE k = 2
      <4>1. b[0] = d[0] /\ b[1] = d[1] /\ b[2] = w
        BY <1>6, <3>3, SMT
      <4>2. Seven(w) # Seven(d[2])
        BY <1>4, <3>3
      <4> QED BY <1>4, <1>5, <4>1, <4>2, ChecksumTells, ZenonT(60)
    <3> QED BY <1>8, <3>1, <3>2, <3>3, SMT
  <2> QED BY <1>1, <2>1, <2>2, Zenon DEF Accepted
<1> QED BY <1>7, <1>8

\* A bus that nobody drives delivers no reading.
LEMMA DeadRejected == \A d \in Dead : ~Accepted(d)
BY SMT DEF Dead, Accepted, Checksum

\* What the checksum lets through is the conversion.
LEMMA AcceptedIsConversion ==
    ASSUME NEW v \in Conversions, NEW d \in Received(v), Accepted(d)
    PROVE  Reading(d) = v
<1>1. CASE d = Transmitted(v)
  BY <1>1, Decodes
<1>2. CASE d \in {Disturbed(v, k, e) : k \in 0..3, e \in Errors}
  <2>1. PICK k \in 0..3, e \in Errors : d = Disturbed(v, k, e)
    BY <1>2
  <2> QED BY <2>1, DisturbedRejected
<1>3. CASE d \in Dead
  BY <1>3, DeadRejected, Zenon
<1> QED BY <1>1, <1>2, <1>3 DEF Received
----------------------------------------------------------------------------
(* The average                                                             *)

\* Division that truncates toward zero stays between integer bounds.
LEMMA TruncatedBetween ==
    ASSUME NEW a \in Int, NEW n \in Nat, n > 0, NEW l \in Int, NEW h \in Int,
           n * l <= a, a <= n * h
    PROVE  Truncated(a, n) \in Int /\ l <= Truncated(a, n) /\ Truncated(a, n) <= h
<1>1. ASSUME NEW x \in Int
      PROVE  /\ (x \div n) \in Int
             /\ n * (x \div n) <= x /\ x < n * (x \div n) + n
  BY SMT
<1>2. CASE a >= 0
  <2> DEFINE q == a \div n
  <2>1. Truncated(a, n) = q
    BY <1>2 DEF Truncated
  <2>2. q \in Int /\ n * q <= a /\ a < n * q + n
    BY <1>1
  <2> HIDE DEF q
  <2>3. l <= q
    BY <2>2, SMT
  <2>4. q <= h
    BY <2>2, SMT
  <2> QED BY <2>1, <2>2, <2>3, <2>4
<1>3. CASE ~(a >= 0)
  <2> DEFINE q == (-a) \div n
  <2>1. Truncated(a, n) = -q
    BY <1>3 DEF Truncated
  <2>2. q \in Int /\ n * q <= -a /\ -a < n * q + n
    BY <1>1
  <2> HIDE DEF q
  <2>3. l <= -q
    <3>1. n * q <= n * (-l)
      BY <2>2, SMT
    <3>2. q <= -l
      BY <2>2, <3>1, SMT
    <3> QED BY <2>2, <3>2
  <2>4. -q <= h
    <3>1. n * (-h) < n * q + n
      BY <2>2, SMT
    <3>2. -h <= q
      BY <2>2, <3>1, SMT
    <3> QED BY <2>2, <3>2
  <2> QED BY <2>1, <2>2, <2>3, <2>4
<1> QED BY <1>2, <1>3

\* One more reading between the new extremes.
LEMMA SumGrows ==
    ASSUME NEW n \in Nat, NEW s \in Int, NEW l \in Int, NEW h \in Int, NEW v \in Int,
           NEW m \in Int, NEW g \in Int, n * l <= s, s <= n * h,
           n = 0 \/ (m <= l /\ h <= g), m <= v, v <= g
    PROVE  /\ n * m <= s /\ s <= n * g
           /\ (n + 1) * m <= s + v /\ s + v <= (n + 1) * g
<1>1. n * m <= n * l /\ n * h <= n * g
  <2>1. CASE n = 0
    BY <2>1
  <2>2. CASE m <= l /\ h <= g
    BY <2>2, SMT
  <2> QED BY <2>1, <2>2
<1>2. (n + 1) * m = n * m + m /\ (n + 1) * g = n * g + g
  BY SMT
<1>3. n * m \in Int /\ n * l \in Int /\ n * h \in Int /\ n * g \in Int
  BY SMT
<1>4. n * m <= s /\ s <= n * g
  BY <1>1, <1>3, SMT
<1>5. n * m + m <= s + v /\ s + v <= n * g + g
  BY <1>3, <1>4, SMT
<1> QED BY <1>2, <1>4, <1>5

----------------------------------------------------------------------------
(* The calibration                                                         *)

\* The invariant holds before the first reading.
LEMMA InitInv == Init => Inv
<1> SUFFICES ASSUME Init PROVE Inv
  OBVIOUS
<1>1. 0 \in Conversions
  <2>1. Half \in Nat /\ Half > 0
    BY SMT DEF Half
  <2> QED BY <2>1, SMT DEF Conversions
<1>2. /\ i = 0 /\ numReadings = 0 /\ sumReadings = 0 /\ gyroBias = 0
      /\ low = 0 /\ high = 0
  BY DEF Init
<1>3. calibrated \in BOOLEAN /\ ~calibrated /\ sleep = "awake"
  BY Zenon DEF Init
<1>4. TypeOK
  BY <1>1, <1>2, <1>3, CountAssumption DEF TypeOK
<1>5. SumBetween /\ BiasWithinMeasured
  BY <1>2, <1>3, CountAssumption DEF SumBetween, BiasWithinMeasured
<1> QED BY <1>4, <1>5 DEF Inv

\* A reading, good or rejected, settled or not.
LEMMA ReadInv ==
    ASSUME Inv, Read
    PROVE  Inv'
<1>1. /\ i \in Nat /\ i < Readings /\ i' = i + 1 /\ ~calibrated
      /\ calibrated' = calibrated /\ gyroBias' = gyroBias
  BY CountAssumption DEF Inv, TypeOK, SumBetween, Read
<1>2. /\ numReadings \in 0..i /\ numReadings \in Nat /\ sumReadings \in Int
      /\ low \in Conversions /\ high \in Conversions /\ low \in Int /\ high \in Int
      /\ gyroBias \in Int
  BY <1>1, Extent DEF Inv, TypeOK
<1>3. /\ i <= Settle => numReadings = 0 /\ sumReadings = 0
      /\ i > Settle => low <= high
      /\ numReadings * low <= sumReadings /\ sumReadings <= numReadings * high
  BY DEF Inv, SumBetween
<1>4. PICK v \in IF Settled THEN Rest ELSE Transient : \E d \in Received(v) :
         /\ IF Counts(d)
            THEN /\ numReadings' = numReadings + 1
                 /\ sumReadings' = sumReadings + Reading(d)
            ELSE UNCHANGED <<numReadings, sumReadings>>
         /\ low' = IF Settled /\ (i = Settle \/ v < low) THEN v ELSE low
         /\ high' = IF Settled /\ (i = Settle \/ v > high) THEN v ELSE high
  BY Zenon DEF Read
<1>5. PICK d \in Received(v) :
         /\ IF Counts(d)
            THEN /\ numReadings' = numReadings + 1
                 /\ sumReadings' = sumReadings + Reading(d)
            ELSE UNCHANGED <<numReadings, sumReadings>>
         /\ low' = IF Settled /\ (i = Settle \/ v < low) THEN v ELSE low
         /\ high' = IF Settled /\ (i = Settle \/ v > high) THEN v ELSE high
  BY <1>4, Zenon
<1>6. v \in Conversions /\ v \in Int
  BY ConversionAssumption, Extent
<1>7. BiasWithinMeasured' /\ (calibrated' => i' = Readings) /\ calibrated' \in BOOLEAN
  BY <1>1 DEF BiasWithinMeasured, Inv, TypeOK
<1>10. sleep' \in {"awake", "timed", "forever"}
  BY DEF Read, Sleep
<1>8. CASE ~Settled
  <2>1. /\ numReadings' = 0 /\ sumReadings' = 0 /\ low' = low /\ high' = high
        /\ i < Settle /\ i' <= Settle
    BY <1>1, <1>2, <1>3, <1>5, <1>8, CountAssumption DEF Settled, Counts
  <2> QED BY <1>1, <1>2, <1>7, <1>10, <2>1, CountAssumption DEF Inv, TypeOK, SumBetween
<1>9. CASE Settled
  <2>1. /\ low' \in Int /\ high' \in Int /\ low' \in Conversions /\ high' \in Conversions
        /\ low' <= v /\ v <= high'
    BY <1>2, <1>5, <1>6, <1>9
  <2>2. numReadings = 0 \/ (low' <= low /\ high <= high')
    BY <1>1, <1>2, <1>3, <1>5, <1>6, <1>9, CountAssumption DEF Settled
  <2>3. /\ numReadings * low' <= sumReadings /\ sumReadings <= numReadings * high'
        /\ (numReadings + 1) * low' <= sumReadings + v
        /\ sumReadings + v <= (numReadings + 1) * high'
    BY <1>2, <1>3, <1>6, <2>1, <2>2, SumGrows
  <2>4. i' > Settle /\ low' <= high'
    BY <1>1, <1>6, <1>9, <2>1, CountAssumption DEF Settled
  <2>5. /\ numReadings' \in 0..i' /\ sumReadings' \in Int
        /\ numReadings' * low' <= sumReadings' /\ sumReadings' <= numReadings' * high'
    <3>1. CASE Counts(d)
      <4>1. Reading(d) = v
        BY <1>6, <3>1, AcceptedIsConversion DEF Counts
      <4>2. numReadings' = numReadings + 1 /\ sumReadings' = sumReadings + v
        BY <1>5, <3>1, <4>1
      <4>3. numReadings' * low' <= sumReadings' /\ sumReadings' <= numReadings' * high'
        BY <2>3, <4>2
      <4> QED BY <1>1, <1>2, <1>6, <4>2, <4>3
    <3>2. CASE ~Counts(d)
      <4>1. numReadings' = numReadings /\ sumReadings' = sumReadings
        BY <1>5, <3>2
      <4>2. numReadings' * low' <= sumReadings' /\ sumReadings' <= numReadings' * high'
        BY <2>3, <4>1
      <4> QED BY <1>1, <1>2, <4>1, <4>2
    <3> QED BY <3>1, <3>2
  <2>6. TypeOK'
    BY <1>1, <1>2, <1>7, <1>10, <2>1, <2>5, CountAssumption DEF TypeOK
  <2>7. SumBetween'
    BY <1>1, <1>7, <2>4, <2>5, CountAssumption DEF SumBetween
  <2> QED BY <1>7, <2>6, <2>7 DEF Inv
<1> QED BY <1>8, <1>9

\* The end of a sleep changes nothing else.
LEMMA WakeInv ==
    ASSUME Inv, Wake
    PROVE  Inv'
BY DEF Wake, Inv, TypeOK, SumBetween, BiasWithinMeasured

\* The division at the end.
LEMMA FinishInv ==
    ASSUME Inv, Finish
    PROVE  Inv'
<1>1. /\ i' = i /\ i = Readings /\ numReadings' = numReadings /\ sumReadings' = sumReadings
      /\ low' = low /\ high' = high /\ sleep' = sleep /\ calibrated' = TRUE
  BY DEF Finish
<1>2. PICK q \in Average : gyroBias' = q + 1100
  BY DEF Finish
<1>3. /\ numReadings \in Nat /\ sumReadings \in Int /\ low \in Int /\ high \in Int
      /\ numReadings * low <= sumReadings /\ sumReadings <= numReadings * high
  BY <1>1, Extent, CountAssumption DEF Inv, TypeOK, SumBetween
<1>4. q \in Int /\ (numReadings > 0 => low <= q /\ q <= high)
  <2>1. CASE numReadings = 0
    BY <2>1, UndefinedAssumption DEF Average
  <2>2. CASE numReadings # 0
    <3>1. q = Truncated(sumReadings, numReadings)
      BY <2>2 DEF Average
    <3>2. numReadings > 0
      BY <1>3, <2>2
    <3> QED BY <1>3, <3>1, <3>2, TruncatedBetween
  <2> QED BY <2>1, <2>2
<1>5. TypeOK'
  BY <1>1, <1>2, <1>4 DEF Inv, TypeOK
<1>6. SumBetween'
  BY <1>1 DEF Inv, SumBetween
<1>7. BiasWithinMeasured'
  BY <1>1, <1>2, <1>3, <1>4 DEF BiasWithinMeasured
<1> QED BY <1>5, <1>6, <1>7 DEF Inv

\* The sum lies between that many times the extremes in every reachable state.
LEMMA Invariance == Spec => []Inv
<1>1. Init => Inv
  BY InitInv
<1>2. Inv /\ [Next]_vars => Inv'
  <2> SUFFICES ASSUME Inv, [Next]_vars PROVE Inv'
    OBVIOUS
  <2>1. CASE Read
    BY <2>1, ReadInv
  <2>2. CASE Finish
    BY <2>2, FinishInv
  <2>3. CASE Wake
    BY <2>3, WakeInv
  <2>4. CASE UNCHANGED vars
    BY <2>4 DEF vars, Inv, TypeOK, SumBetween, BiasWithinMeasured
  <2> QED BY <2>1, <2>2, <2>3, <2>4 DEF Next
<1> QED BY <1>1, <1>2, PTL DEF Spec

\* Whatever the number of readings, the values the gyro gives and the
\* disturbances of the bus, the bias of initGyroBias is between the extremes of
\* what the gyro gave at rest, once the offset of 1100 is taken off again.
THEOREM BiasCorrect == Spec => []BiasWithinMeasured
<1>1. Inv => BiasWithinMeasured
  BY DEF Inv
<1> QED BY <1>1, Invariance, PTL

\* ADS1259::read returns the converter's value or rejects the word, for each of
\* the 2^24 conversions and every disturbance of one byte that is no multiple
\* of 128, and on a dead bus.
THEOREM ReadCorrect ==
    ASSUME NEW v \in Conversions
    PROVE  /\ Accepted(Transmitted(v))
           /\ \A d \in Received(v) : Accepted(d) => Reading(d) = v
<1>1. Accepted(Transmitted(v))
  BY Decodes
<1>2. \A d \in Received(v) : Accepted(d) => Reading(d) = v
  BY AcceptedIsConversion
<1> QED BY <1>1, <1>2

----------------------------------------------------------------------------
(* The boot                                                                *)

\* Boot begins with nothing configured.
LEMMA BootInitInv == BootInit => BootInv
<1> SUFFICES ASSUME BootInit PROVE BootInv
  OBVIOUS
<1>1. Inv
  BY InitInv DEF BootInit
<1>2. BootTypeOK
  BY DEF BootInit, BootTypeOK, Motors, Registers
<1>3. BootOrder
  BY DEF BootInit, BootOrder, Done, Motors, Registers
<1> QED BY <1>1, <1>2, <1>3 DEF BootInv

\* A register is written and its line of diagnostics begins.
LEMMA WriteRegInv == BootInv /\ WriteReg => BootTypeOK' /\ BootOrder'
<1> SUFFICES ASSUME BootInv, WriteReg PROVE BootTypeOK' /\ BootOrder'
  OBVIOUS
<1> USE DEF BootInv, WriteReg
<1>1. BootTypeOK'
  BY DEF BootTypeOK
<1>2. BootOrder'
  BY DEF BootTypeOK, BootOrder, Done, Motors, Registers
<1> QED BY <1>1, <1>2

\* A byte of the line is put.
LEMMA PutDiagInv == BootInv /\ PutDiag => BootTypeOK' /\ BootOrder'
<1> SUFFICES ASSUME BootInv, PutDiag PROVE BootTypeOK' /\ BootOrder'
  OBVIOUS
<1>1. /\ phase = "diagnose" /\ phase' \in {"diagnose", "sleep"}
      /\ UNCHANGED <<motor, addr, register, width, ioRuns, throttle, commanded>>
  BY DEF PutDiag
<1>2. BootTypeOK'
  BY <1>1 DEF BootInv, BootTypeOK
<1>3. BootOrder'
  BY <1>1 DEF BootInv, BootTypeOK, BootOrder, Done
<1> QED BY <1>2, <1>3

\* The next register, the next motor, or the end of the constructors.
LEMMA WakeUpInv == BootInv /\ WakeUp => BootTypeOK' /\ BootOrder'
<1> SUFFICES ASSUME BootInv, WakeUp PROVE BootTypeOK' /\ BootOrder'
  OBVIOUS
<1>1. /\ phase = "sleep" /\ ~ioRuns
      /\ UNCHANGED <<register, ioRuns, throttle, commanded>>
  BY DEF BootInv, BootTypeOK, WakeUp
<1>2. CASE addr < 7
  <2>1. addr' = addr + 1 /\ phase' = "write" /\ motor' = motor /\ width' = width
    BY <1>2 DEF WakeUp
  <2>2. BootTypeOK'
    BY <1>1, <1>2, <2>1 DEF BootInv, BootTypeOK, Registers
  <2>3. BootOrder'
    BY <1>1, <1>2, <2>1 DEF BootInv, BootTypeOK, BootOrder, Done, Motors, Registers
  <2> QED BY <2>2, <2>3
<1>3. CASE ~(addr < 7)
  <2>1. /\ addr = 7 /\ width' = [width EXCEPT ![motor] = 0]
        /\ IF motor = 1 THEN motor' = 2 /\ addr' = 0 /\ phase' = "write"
           ELSE motor = 2 /\ phase' = "start" /\ UNCHANGED <<motor, addr>>
    BY <1>3 DEF WakeUp, BootInv, BootTypeOK, Registers, Motors
  <2>2. BootTypeOK'
    BY <1>1, <2>1 DEF BootInv, BootTypeOK, Registers, Motors
  <2>3. BootOrder'
    BY <1>1, <2>1 DEF BootInv, BootTypeOK, BootOrder, Done, Motors, Registers
  <2> QED BY <2>2, <2>3
<1> QED BY <1>2, <1>3

\* The IO thread starts; every register has been written.
LEMMA StartIOInv == BootInv /\ StartIO => BootTypeOK' /\ BootOrder'
<1> SUFFICES ASSUME BootInv, StartIO PROVE BootTypeOK' /\ BootOrder'
  OBVIOUS
<1> USE DEF BootInv, StartIO, BootTypeOK
<1>1. BootTypeOK'
  OBVIOUS
<1>2. BootOrder'
  BY DEF BootOrder, Done, Motors, Registers
<1> QED BY <1>1, <1>2

\* A reading, or the end of the calibration.
LEMMA CalibrateInv == BootInv /\ Calibrate => BootInv'
<1> SUFFICES ASSUME BootInv, Calibrate PROVE BootInv'
  OBVIOUS
<1>1. /\ phase = "calibrate" /\ phase' \in {"calibrate", "loop"} /\ Next
      /\ UNCHANGED <<motor, addr, register, width, ioRuns, throttle, commanded>>
  BY DEF Calibrate
<1>2. Inv'
  BY <1>1, ReadInv, WakeInv, FinishInv DEF BootInv, Next
<1>3. BootTypeOK'
  BY <1>1 DEF BootInv, BootTypeOK
<1>4. BootOrder'
  BY <1>1 DEF BootInv, BootTypeOK, BootOrder, Done
<1> QED BY <1>2, <1>3, <1>4 DEF BootInv

\* The control loop and the IO thread change what they are allowed to.
LEMMA RunningInv ==
    BootInv /\ (Cycle \/ StoreThrottle \/ \E m \in Motors : SetMode(m)) => BootTypeOK' /\ BootOrder'
<1> SUFFICES ASSUME BootInv, Cycle \/ StoreThrottle \/ \E m \in Motors : SetMode(m)
             PROVE  BootTypeOK' /\ BootOrder'
  OBVIOUS
<1>1. CASE Cycle
  <2>1. BootTypeOK'
    BY <1>1 DEF BootInv, BootTypeOK, Cycle
  <2>2. BootOrder'
    BY <1>1 DEF BootInv, BootTypeOK, BootOrder, Done, Cycle
  <2> QED BY <2>1, <2>2
<1>2. CASE StoreThrottle
  <2>1. BootTypeOK'
    BY <1>2, BootAssumption DEF BootInv, BootTypeOK, StoreThrottle
  <2>2. BootOrder'
    BY <1>2 DEF BootInv, BootTypeOK, BootOrder, Done, StoreThrottle
  <2> QED BY <2>1, <2>2
<1>3. CASE \E m \in Motors : SetMode(m)
  <2>1. PICK m \in Motors : SetMode(m)
    BY <1>3
  <2>2. PICK mode \in {"config", "running"} :
            /\ register' = [register EXCEPT ![m][7] = mode]
            /\ commanded' = [commanded EXCEPT ![m] = mode]
    BY <2>1 DEF SetMode
  <2>3. BootTypeOK'
    BY <2>1, <2>2 DEF BootInv, BootTypeOK, SetMode, Registers
  <2>4. BootOrder'
    BY <2>1, <2>2 DEF BootInv, BootTypeOK, BootOrder, Done, SetMode, Registers
  <2> QED BY <2>3, <2>4
<1> QED BY <1>1, <1>2, <1>3

\* Every step of the boot keeps what has been configured.
LEMMA BootStepInv == BootInv /\ [BootNext]_<<vars, bootVars>> => BootInv'
<1> SUFFICES ASSUME BootInv, [BootNext]_<<vars, bootVars>> PROVE BootInv'
  OBVIOUS
<1>1. CASE Calibrate
  BY <1>1, CalibrateInv
<1>2. ASSUME UNCHANGED vars, BootTypeOK', BootOrder' PROVE BootInv'
  BY <1>2 DEF BootInv, vars, Inv, TypeOK, SumBetween, BiasWithinMeasured
<1>3. CASE WriteReg
  BY <1>2, <1>3, WriteRegInv DEF WriteReg, vars
<1>4. CASE PutDiag
  BY <1>2, <1>4, PutDiagInv DEF PutDiag, vars
<1>5. CASE WakeUp
  BY <1>2, <1>5, WakeUpInv DEF WakeUp, vars
<1>6. CASE StartIO
  BY <1>2, <1>6, StartIOInv DEF StartIO, vars
<1>7. CASE Cycle \/ StoreThrottle \/ \E m \in Motors : SetMode(m)
  <2>1. UNCHANGED vars
    BY <1>7 DEF Cycle, StoreThrottle, SetMode, vars
  <2> QED BY <1>2, <1>7, <2>1, RunningInv
<1>8. CASE Send \/ UNCHANGED <<vars, bootVars>>
  <2>1. UNCHANGED <<vars, phase, motor, addr, register, width, ioRuns, throttle, commanded>>
    BY <1>8 DEF Send, bootVars
  <2>2. BootTypeOK' /\ BootOrder'
    BY <2>1 DEF BootInv, BootTypeOK, BootOrder, Done
  <2> QED BY <1>2, <2>1, <2>2
<1> QED BY <1>1, <1>3, <1>4, <1>5, <1>6, <1>7, <1>8 DEF BootNext, Main

LEMMA BootInvariance == BootSpec => []BootInv
<1> QED BY BootInitInv, BootStepInv, PTL DEF BootSpec

\* For every length of the boot the motors are configured and without a pulse
\* while the gyro is calibrated.
THEOREM AtRestWhileCalibrating == BootSpec => []CalibratesAtRest
<1>1. BootInv => CalibratesAtRest
  BY DEF BootInv, BootTypeOK, BootOrder, Done, CalibratesAtRest, Motors, Registers
<1> QED BY <1>1, BootInvariance, PTL

\* No mode that the IO thread commands is undone by the boot.
THEOREM ModesStand == BootSpec => []ModeStands
<1>1. BootInv => ModeStands
  BY DEF BootInv, BootTypeOK, BootOrder, ModeStands
<1> QED BY <1>1, BootInvariance, PTL

\* The bias that the calibration leaves, less the offset of 1100, lies between
\* the extremes of what the gyro gave at rest, also when the IO thread and the
\* peer run meanwhile.
THEOREM BootBiasCorrect == BootSpec => []BiasWithinMeasured
<1>1. BootInv => BiasWithinMeasured
  BY DEF BootInv, Inv
<1> QED BY <1>1, BootInvariance, PTL
============================================================================
