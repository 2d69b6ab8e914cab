---------------------------- MODULE Calibration ----------------------------
(***************************************************************************)
(* Tortilla::initGyroBias: the average of the readings that come with a    *)
(* good checksum once the gyro has settled, over a bus that can corrupt a  *)
(* byte or be dead.  The readings are a tick apart, by chThdSleepUntil.    *)
(***************************************************************************)
EXTENDS ADS1259

CONSTANTS Readings,   \* how many times the converter is read (6000)
          Settle,     \* the first so many readings are not used (1000)
          Rest,       \* what the converter converts while the robot rests
          Transient,  \* what it converts before the gyro has settled
          Errors,     \* what a disturbance adds to a byte
          ReadTicks,  \* the ticks that can pass from when a reading is due to its end
          Undefined   \* what a division by zero can leave in gyroBias

ASSUME CountAssumption == Readings \in Nat /\ Settle \in Nat /\ Settle < Readings
ASSUME ConversionAssumption == Rest \subseteq Conversions /\ Transient \subseteq Conversions
ASSUME ErrorAssumption == Errors \subseteq {e \in 1..255 : e % 128 # 0}
ASSUME TicksAssumption == ReadTicks \subseteq Nat /\ ReadTicks # {}
ASSUME UndefinedAssumption == Undefined \subseteq Int /\ Undefined # {}

VARIABLES i,            \* readings made
          numReadings, sumReadings,
          sleep,        \* "awake", or how the thread sleeps
          calibrated,   \* initGyroBias has returned
          gyroBias,
          low, high     \* history: the extremes of what was converted after Settle

vars == <<i, numReadings, sumReadings, sleep, calibrated, gyroBias, low, high>>

\* The word that arrives for conversion v: intact, with one byte disturbed, or
\* from a bus that nobody drives (all zeros or all ones).
Shift(b, e) == (b + e) % 256
Disturbed(v, k, e) == [Transmitted(v) EXCEPT ![k] = Shift(@, e)]
Dead == {[k \in 0..3 |-> 0], [k \in 0..3 |-> 255]}
Received(v) ==
    {Transmitted(v)}
    \cup {Disturbed(v, k, e) : k \in 0..3, e \in Errors}
    \cup Dead

\* The division of C, which truncates toward zero.
Truncated(a, n) == IF a >= 0 THEN a \div n ELSE -((-a) \div n)

----------------------------------------------------------------------------
Init ==
    /\ i = 0
    /\ numReadings = 0 /\ sumReadings = 0 /\ sleep = "awake"
    /\ calibrated = FALSE /\ gyroBias = 0
    /\ low = 0 /\ high = 0

Settled == i >= Settle

\* adc.read(adcReading) && i >= 1000
Counts(d) == Accepted(d) /\ Settled

\* ticks += MS2ST(1), one tick, and chThdSleepUntil(ticks) when the reading has
\* taken n ticks: the thread sleeps 1 - n ticks in unsigned arithmetic.  None is
\* no sleep; -1 is TIME_INFINITE, a sleep without a timer; any other negative
\* number is one of nearly the counter's range, which ends.
Sleep(n) == IF n = 1 THEN "awake" ELSE IF n = 2 THEN "forever" ELSE "timed"

Read ==
    /\ sleep = "awake" /\ i < Readings
    /\ \E v \in IF Settled THEN Rest ELSE Transient : \E d \in Received(v) :
         /\ IF Counts(d)
            THEN /\ numReadings' = numReadings + 1
                 /\ sumReadings' = sumReadings + Reading(d)
            ELSE UNCHANGED <<numReadings, sumReadings>>
         /\ low' = IF Settled /\ (i = Settle \/ v < low) THEN v ELSE low
         /\ high' = IF Settled /\ (i = Settle \/ v > high) THEN v ELSE high
    /\ i' = i + 1
    /\ \E n \in ReadTicks : sleep' = Sleep(n)
    /\ UNCHANGED <<calibrated, gyroBias>>

\* The timer of the sleep.
Wake ==
    /\ sleep = "timed" /\ sleep' = "awake"
    /\ UNCHANGED <<i, numReadings, sumReadings, calibrated, gyroBias, low, high>>

\* The average, which no reading at all leaves undefined.
Average == IF numReadings = 0 THEN Undefined ELSE {Truncated(sumReadings, numReadings)}

Finish ==
    /\ sleep = "awake" /\ i = Readings /\ ~calibrated
    /\ \E q \in Average : gyroBias' = q + 1100
    /\ calibrated' = TRUE
    /\ UNCHANGED <<i, numReadings, sumReadings, sleep, low, high>>

Next == Read \/ Wake \/ Finish

Spec == Init /\ [][Next]_vars

----------------------------------------------------------------------------
TypeOK ==
    /\ i \in 0..Readings
    /\ numReadings \in 0..i
    /\ sumReadings \in Int
    /\ sleep \in {"awake", "timed", "forever"}
    /\ calibrated \in BOOLEAN
    /\ gyroBias \in Int
    /\ low \in Conversions /\ high \in Conversions

\* With at least one good reading the bias is a value between the least and
\* the greatest that the gyro really gave at rest, plus the offset of line 71:
\* no disturbance of the bus, transient, sign or rounding moves it outside
\* (initGyroBias 57-72, ADS1259::read 58-70).
BiasWithinMeasured ==
    calibrated /\ numReadings > 0 => gyroBias - 1100 \in low..high

\* Why: before the end the sum lies between as many times the extremes as there
\* are readings in it.
SumBetween ==
    /\ calibrated => i = Readings
    /\ i <= Settle => numReadings = 0 /\ sumReadings = 0
    /\ i > Settle => low <= high
    /\ numReadings * low <= sumReadings /\ sumReadings <= numReadings * high

Inv == TypeOK /\ SumBetween /\ BiasWithinMeasured
============================================================================
