------------------------------ MODULE Steering -----------------------------
(***************************************************************************)
(* What one cycle of Tortilla::fastLoop() computes from the heading and    *)
(* the command in force: the two motor pulse widths and the two heading    *)
(* lights.                                                                 *)
(*                                                                         *)
(* Angles are hundredths of a degree, rates are hundredths of a degree per *)
(* cycle, joyMag counts 1/500 of full deflection (the code's scaling by    *)
(* 1.0 / 500.0), so every threshold of the code is an integer comparison.  *)
(***************************************************************************)
EXTENDS Integers

CONSTANT PWM_PERIOD  \* the timer period: a pulse this wide is always on

ASSUME PeriodAssumption == PWM_PERIOD \in Nat /\ PWM_PERIOD >= 30

Turn   == 36000
Angles == 0..(Turn - 1)
Deflections == 0..500

\* |remainderf(a, M_TWOPI)|: the distance of an angle from zero.
Away(a) == LET r == a % Turn IN IF r > Turn \div 2 THEN Turn - r ELSE r

\* The correction for the time a pulse takes to bite; its sign follows the
\* direction of the spin.
ThetaOffset(reversed, rate, trim) == (IF reversed THEN -1 ELSE 1) * rate * trim

JoyRel(joyAngle, theta, offset) == joyAngle - theta + offset

\* |a| < max(0.05 rad, joyMag * 6 degrees)
InSlip(a, joyMag) == Away(a) < 287 \/ 5 * Away(a) < 6 * joyMag

\* The braked side of a translation pulse: max(1, throttle / 30).
Braked(throttle) == IF throttle \div 30 > 1 THEN throttle \div 30 ELSE 1

\* Mutation: pulses whether or not the stick is off centre.
SpeedsAlways(throttle, joyMag, rel) ==
    IF InSlip(rel, joyMag) THEN <<PWM_PERIOD, Braked(throttle)>>
    ELSE IF InSlip(rel + Turn \div 2, joyMag) THEN <<Braked(throttle), PWM_PERIOD>>
    ELSE <<throttle, throttle>>

\* The widths of motors 1 and 2: the throttle, or a translation pulse when
\* the stick is off centre and the heading lines up with it.
Speeds(throttle, joyMag, rel) ==
    IF joyMag # 0 /\ InSlip(rel, joyMag)
    THEN <<PWM_PERIOD, Braked(throttle)>>
    ELSE IF joyMag # 0 /\ InSlip(rel + Turn \div 2, joyMag)
    THEN <<Braked(throttle), PWM_PERIOD>>
    ELSE <<throttle, throttle>>

\* The blue light marks heading zero.
Blue(theta) == Away(theta) < 3000

\* The yellow light marks the direction of the stick, or with the stick
\* centred the two remaining thirds of the turn.
Yellow(theta, joyAngle, joyMag) ==
    IF joyMag = 0
    THEN ~Blue(theta) /\ Away(3 * theta) < 9000
    ELSE LET a == Away(joyAngle - theta) IN a < 1146 \/ a < 12 * joyMag
============================================================================
