------------------------------ MODULE Commands -----------------------------
(***************************************************************************)
(* The commands of the radio link and what each of them means for the      *)
(* drive of the robot: the fields of class Tortilla that ioLoop() writes   *)
(* and the mode register of the two A4960 motor drivers.                   *)
(*                                                                         *)
(* An event is what one received byte amounts to: the byte completes a     *)
(* frame with one of the opcodes, or it is "noise" (a byte inside a frame  *)
(* or between frames).  How bytes make frames is module CommandParser.     *)
(***************************************************************************)
EXTENDS Steering  \* the units of angles and deflection, PWM_PERIOD

CONSTANTS Moves,       \* the (spin, joyAngle, joyMag) that 'm' frames carry
          GyroTrims,   \* the values that 'g' frames carry
          TransTrims   \* the values that 't' frames carry

\* The widest spin comes from a short frame over an uninitialized buffer:
\* 255 * 100 + 255 * 10 + 255 - 500.
Spins == -500..27805

ASSUME MovesAssumption ==
    Moves \subseteq [spin : Spins, joyAngle : Angles, joyMag : Deflections]
ASSUME TrimsAssumption == GyroTrims \subseteq Int /\ TransTrims \subseteq Int

Noise == [op |-> "noise"]   \* a byte that completes no frame
Stop  == [op |-> "s"]       \* IO_CMD_STOP
Other == [op |-> "other"]   \* a frame with an opcode ioLoop does not know

MoveCommands  == {[op |-> "m", move |-> mv] : mv \in Moves}    \* IO_CMD_MOV
GyroCommands  == {[op |-> "g", gyro |-> v] : v \in GyroTrims}  \* IO_MOD_GYRO_BIAS
TransCommands == {[op |-> "t", trans |-> v] : v \in TransTrims} \* IO_MOD_TRANS_BIAS

Frames == MoveCommands \cup GyroCommands \cup TransCommands \cup {Stop, Other}
Events == Frames \cup {Noise}

----------------------------------------------------------------------------
Motors == {1, 2}

\* The bits of configuration register 7 that setMode() changes.
Modes == [run : BOOLEAN, dir : BOOLEAN]
ModeOf(enable, reverse) == [run |-> enable, dir |-> reverse]

\* The same mode in both motor drivers.
Both(md) == [m \in Motors |-> md]

Magnitude(spin) == IF spin < 0 THEN -spin ELSE spin

\* Mutation: spin beyond full scale is not cut off.
SpeedUncapped(spin) == IF spin < 0 THEN Magnitude(spin) - 1 ELSE spin

\* min(|spin| - reversed, 499): -1 is a zero that remembers the direction.
Speed(spin) ==
    LET s == IF spin < 0 THEN Magnitude(spin) - 1 ELSE spin
    IN  IF s < 499 THEN s ELSE 499

Throttle(spin) == (PWM_PERIOD * Speed(spin)) \div 499

MoveMode(spin) == ModeOf(spin \notin {0, -1}, spin < 0)

\* 's' calls setMode(true): running, forward.
StopMode == ModeOf(TRUE, FALSE)

----------------------------------------------------------------------------
Drive == [throttle        : 0..PWM_PERIOD,
          reversed        : BOOLEAN,
          mode            : [Motors -> Modes],
          joyAngle        : Angles,
          joyMag          : Deflections,
          gyroTrim        : Int,
          translationTrim : Int]

\* The drive when the IO thread starts: the constructor of Tortilla and the
\* A4960 configuration (forward, coast).
InitialDrive ==
    [throttle |-> 0, reversed |-> FALSE,
     mode |-> Both(ModeOf(FALSE, FALSE)),
     joyAngle |-> 0, joyMag |-> 0, gyroTrim |-> 0, translationTrim |-> 0]

\* 'm': the whole drive but the trims follows the stick.
MoveEffect(d, mv) ==
    [d EXCEPT !.throttle = Throttle(mv.spin),
              !.reversed = mv.spin < 0,
              !.mode     = Both(MoveMode(mv.spin)),
              !.joyAngle = mv.joyAngle,
              !.joyMag   = mv.joyMag]

\* 's': zero throttle, both motors left running forward; reversed and the
\* stick keep their values.
StopEffect(d) ==
    [d EXCEPT !.throttle = 0,
              !.mode     = Both(StopMode)]

\* What a received byte does to the drive.
Effect(d, e) ==
    CASE e.op = "m" -> MoveEffect(d, e.move)
      [] e.op = "s" -> StopEffect(d)
      [] e.op = "g" -> [d EXCEPT !.gyroTrim = e.gyro]
      [] e.op = "t" -> [d EXCEPT !.translationTrim = e.trans]
      [] OTHER      -> d
============================================================================
