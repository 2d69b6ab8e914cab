--------------------------- MODULE TortillaProofs --------------------------
(***************************************************************************)
(* Proofs, for every value of the constants, that the IO thread and the    *)
(* control thread keep the invariants of Tortilla and that the IO thread   *)
(* implements AtomicControl.                                               *)
(***************************************************************************)
EXTENDS Tortilla, TLAPS

----------------------------------------------------------------------------
(* Arithmetic.                                                             *)

\* Throttle stays within the timer period for every 16-bit spin a frame can
\* carry (the computation of throttle in ioLoop, case IO_CMD_MOV).
LEMMA ThrottleRange ==
    ASSUME NEW spin \in Spins
    PROVE  Throttle(spin) \in 0..PWM_PERIOD
<1> DEFINE s == Speed(spin)
           x == PWM_PERIOD * s
<1>1. s \in 0..499 \/ spin = 0
  BY DEF Spins, Speed, Magnitude
<1>2. s \in 0..499
  BY <1>1 DEF Spins, Speed, Magnitude
<1>3. x \in Nat /\ x <= PWM_PERIOD * 499
  <2> HIDE DEF s
  <2>1. \A p \in Nat, a \in 0..499 : p * a \in Nat /\ p * a <= p * 499
    OBVIOUS
  <2> QED BY <1>2, <2>1, PeriodAssumption
<1>4. x \div 499 \in 0..PWM_PERIOD
  <2> HIDE DEF x
  <2> QED BY <1>3, PeriodAssumption
<1> QED BY <1>4 DEF Throttle

\* Only a spin that also sets the RUN bit gives a throttle.
LEMMA ThrottleRuns ==
    ASSUME NEW spin \in {0, -1}
    PROVE  Throttle(spin) = 0
<1>1. Speed(spin) = 0
  BY DEF Speed, Magnitude
<1>2. PWM_PERIOD * 0 = 0 /\ 0 \div 499 = 0
  BY PeriodAssumption
<1> QED BY <1>1, <1>2 DEF Throttle

\* Every pulse width the control cycle computes fits the timer.
LEMMA SpeedsRange ==
    ASSUME NEW t \in 0..PWM_PERIOD, NEW j, NEW rel
    PROVE  Speeds(t, j, rel) \in [Motors -> 0..PWM_PERIOD]
<1>1. Braked(t) \in 0..PWM_PERIOD
  BY PeriodAssumption DEF Braked
<1>2. PWM_PERIOD \in 0..PWM_PERIOD
  BY PeriodAssumption
<1>3. \A a, b \in 0..PWM_PERIOD : <<a, b>> \in [Motors -> 0..PWM_PERIOD]
  BY DEF Motors
<1> HIDE DEF Motors
<1>4. CASE j # 0 /\ InSlip(rel, j)
  BY <1>1, <1>2, <1>3, <1>4 DEF Speeds
<1>5. CASE ~(j # 0 /\ InSlip(rel, j)) /\ j # 0 /\ InSlip(rel + Turn \div 2, j)
  BY <1>1, <1>2, <1>3, <1>5 DEF Speeds
<1>6. CASE /\ ~(j # 0 /\ InSlip(rel, j))
           /\ ~(j # 0 /\ InSlip(rel + Turn \div 2, j))
  BY <1>3, <1>6 DEF Speeds
<1> QED BY <1>4, <1>5, <1>6

\* The yellow light is on or off.
LEMMA YellowType ==
    ASSUME NEW a \in Int, NEW b \in Int, NEW c \in Int
    PROVE  Yellow(a, b, c) \in BOOLEAN
<1>1. \A x \in Int : Away(x) \in Int
  BY DEF Away, Turn
<1>2. Away(3 * a) \in Int /\ Away(b - a) \in Int
  BY <1>1
<1>3. CASE c = 0
  BY <1>2, <1>3 DEF Yellow, Blue
<1>4. CASE c # 0
  BY <1>2, <1>4 DEF Yellow
<1> QED BY <1>3, <1>4

\* The spins of a frame are integers.
LEMMA SpinsInt == Spins \subseteq Int
BY DEF Spins

----------------------------------------------------------------------------
(* Facts about commands and events.                                        *)

\* A mode register value is a mode.
LEMMA ModeOfType == \A r, d \in BOOLEAN : ModeOf(r, d) \in Modes
BY DEF ModeOf, Modes

\* The mode a move sets is a mode.
LEMMA MoveModeType ==
    ASSUME NEW spin \in Spins
    PROVE  MoveMode(spin) \in Modes
BY SMTT(30) DEF Spins, MoveMode, ModeOf, Modes

\* What a move command carries.
LEMMA MoveFields ==
    ASSUME NEW c \in MoveCommands
    PROVE  /\ c.op = "m"
           /\ c.move.spin \in Spins
           /\ c.move.joyAngle \in Angles
           /\ c.move.joyMag \in Deflections
           /\ c # Stop
<1>1. PICK mv \in Moves : c = [op |-> "m", move |-> mv]
  BY DEF MoveCommands
<1>2. mv \in [spin : Spins, joyAngle : Angles, joyMag : Deflections]
  BY MovesAssumption
<1>3. c.op = "m" /\ c.move = mv
  BY <1>1
<1>4. c # Stop
  BY <1>3 DEF Stop
<1> QED BY <1>2, <1>3, <1>4

\* Only move commands have opcode 'm', and events are told apart by opcode.
LEMMA EventKinds ==
    ASSUME NEW e \in Events
    PROVE  /\ e.op = "m" => e \in MoveCommands
           /\ e.op = "g" => e.gyro \in Int
           /\ e.op = "t" => e.trans \in Int
           /\ e.op = "s" <=> e = Stop
           /\ e.op = "noise" <=> e = Noise
           /\ e.op \in {"m", "g", "t", "s", "other", "noise"}
<1>1. CASE e \in MoveCommands
  BY <1>1 DEF MoveCommands, Stop, Noise
<1>2. CASE e \in GyroCommands
  BY <1>2, TrimsAssumption DEF GyroCommands, Stop, Noise
<1>3. CASE e \in TransCommands
  BY <1>3, TrimsAssumption DEF TransCommands, Stop, Noise
<1>4. CASE e \in {Stop, Other, Noise}
  BY <1>4 DEF Stop, Other, Noise
<1> QED BY <1>1, <1>2, <1>3, <1>4 DEF Events, Frames

\* The mode a command under execution sets is a mode.
LEMMA CommandModeType ==
    ASSUME command \in MoveCommands \/ command = Stop
    PROVE  CommandMode \in Modes
<1>1. CASE command = Stop
  BY <1>1, ModeOfType DEF CommandMode, StopMode
<1>2. CASE command \in MoveCommands
  BY <1>2, MoveFields, MoveModeType DEF CommandMode
<1> QED BY <1>1, <1>2

\* The oldest event of a queue, and the rest.
LEMMA QueueHead ==
    ASSUME inq \in Seq(Events), inq # <<>>
    PROVE  /\ Head(inq) \in Events
           /\ Tail(inq) \in Seq(Events)
           /\ Len(Tail(inq)) = Len(inq) - 1
OBVIOUS

----------------------------------------------------------------------------
(* The invariant.                                                          *)

\* The state in which main() leaves the firmware satisfies the invariant.
LEMMA InitInv == Init => Inv
<1> SUFFICES ASSUME Init PROVE Inv
  OBVIOUS
<1> USE DEF Init
<1>1. TypeOK
  <2>1. mode \in [Motors -> Modes]
    BY ModeOfType DEF Both
  <2>2. \A w \in 0..PWM_PERIOD : <<w, w>> \in [Motors -> 0..PWM_PERIOD]
    BY DEF Motors
  <2>3. width \in [Motors -> 0..PWM_PERIOD]
    BY <2>2, PeriodAssumption
  <2>4. inq \in Seq(Events) /\ Len(inq) <= InCap
    BY InCapAssumption
  <2>5. joyAngle \in Angles /\ joyMag \in Deflections
    BY DEF Angles, Turn, Deflections
  <2>6. command \in MoveCommands \cup {Stop, [op |-> Idle]}
    OBVIOUS
  <2>7. reversed \in BOOLEAN /\ blue \in BOOLEAN /\ yellow \in BOOLEAN
    OBVIOUS
  <2>8. reply \in Nat /\ todo \subseteq MoveStores /\ throttle \in 0..PWM_PERIOD
    BY PeriodAssumption
  <2>9. timeout_counter \in 0..(IO_FREQ - 1) /\ silence \in 0..IO_FREQ
    BY FreqAssumption
  <2> HIDE DEF Init
  <2> QED BY <2>1, <2>3, <2>4, <2>5, <2>6, <2>7, <2>8, <2>9,
             HeadingAssumption, RateAssumption DEF TypeOK, Init
<1>2. ProgramOrder
  BY DEF ProgramOrder
<1>3. PartlyDone /\ Settled /\ StopSettled
  BY DEF PartlyDone, Settled, StopSettled, Motors, Both
<1>4. SilenceCounted
  BY FreqAssumption DEF SilenceCounted
<1> QED BY <1>1, <1>2, <1>3, <1>4 DEF Inv

\* The steps of the interrupt and of the control thread leave the IO thread
\* and the object alone.
Outside == (\E e \in Events : ByteArrives(e)) \/ Transmit \/ FinishCalibration \/ ControlCycle

LEMMA OutsideLeaves ==
    ASSUME Outside \/ UNCHANGED vars
    PROVE  UNCHANGED <<ioPc, command, reply, todo, timeout_counter, throttle, reversed,
                       joyAngle, joyMag, mode, gyroTrim, translationTrim, silence>>
BY DEF Outside, ByteArrives, Transmit, FinishCalibration, ControlCycle, vars,
       object, trims, control

\* Every step keeps the types; ProgramOrder says that a store finds the
\* command it belongs to.
LEMMA TypeStep == TypeOK /\ ProgramOrder /\ [Next]_vars => TypeOK'
<1> SUFFICES ASSUME TypeOK, ProgramOrder, [Next]_vars PROVE TypeOK'
  OBVIOUS
<1> USE DEF TypeOK, object, trims, control
<1>1. ASSUME NEW e \in Events, ByteArrives(e) PROVE TypeOK'
  <2>1. inq' \in Seq(Events) /\ Len(inq') <= InCap
    BY <1>1, InCapAssumption DEF ByteArrives
  <2> QED BY <1>1, <2>1 DEF ByteArrives
<1>2. CASE Transmit
  BY <1>2, OutCapAssumption DEF Transmit
<1>3. CASE TimerExpires
  BY <1>3 DEF TimerExpires
<1>4. CASE OnTimeout
  BY <1>4, FreqAssumption, PeriodAssumption DEF OnTimeout
<1>5. CASE ReadByte
  <2>1. TakeByte
    BY <1>5 DEF ReadByte, ReadNoise, ReadMove, ReadStop, ReadTrim
  <2>2. inq' \in Seq(Events) /\ Len(inq') <= InCap /\ Head(inq) \in Events
    BY <2>1, QueueHead, InCapAssumption DEF TakeByte
  <2>3. timeout_counter' \in 0..(IO_FREQ - 1) /\ silence' \in 0..IO_FREQ
    BY <2>1, FreqAssumption DEF TakeByte
  <2>4. CASE ReadNoise
    BY <2>2, <2>3, <2>4 DEF ReadNoise
  <2>5. CASE ReadMove
    BY <2>2, <2>3, <2>5, EventKinds, ReplyAssumption DEF ReadMove
  <2>6. CASE ReadStop
    BY <2>2, <2>3, <2>6, PeriodAssumption DEF ReadStop, ModeStores, MoveStores
  <2>7. CASE ReadTrim
    <3>1. gyroTrim' \in Int /\ translationTrim' \in Int
      BY <2>2, <2>7, EventKinds DEF ReadTrim
    <3> QED BY <2>2, <2>3, <2>7, <3>1, ReplyAssumption DEF ReadTrim
  <2> QED BY <1>5, <2>4, <2>5, <2>6, <2>7 DEF ReadByte
<1>6. CASE PutByte
  BY <1>6, OutCapAssumption DEF PutByte, ProgramOrder
<1>7. CASE Store
  <2>1. \A s : Done(s) => /\ todo' \subseteq MoveStores
                          /\ reply' \in Nat
                          /\ ioPc' \in {"apply", "rpm"}
                          /\ command' \in MoveCommands \cup {Stop, [op |-> Idle]}
                          /\ ioPc = "apply" /\ s \in todo
                          /\ UNCHANGED <<inq, oq, timeout_counter, gyroTrim,
                                        translationTrim, ctl, theta, currentRate,
                                        width, blue, yellow, silence>>
    BY ReplyAssumption DEF Done
  <2> HIDE DEF object, trims, control
  <2>2. CASE StoreReversed
    <3>1. reversed' \in BOOLEAN
      <4> HIDE DEF TypeOK
      <4>1. reversed' = (command.move.spin < 0)
        BY <2>2 DEF StoreReversed
      <4>2. ioPc = "apply" /\ "reversed" \in todo
        BY <2>2 DEF StoreReversed, Done
      <4>3. command \in MoveCommands
        BY <4>2 DEF ProgramOrder, ModeStores
      <4>4. command.move.spin \in Int
        BY <4>3, MoveFields, SpinsInt
      <4> QED BY <4>1, <4>4
    <3> QED BY <2>1, <2>2, <3>1 DEF StoreReversed
  <2>3. ASSUME NEW m \in Motors, SetMode(m) PROVE TypeOK'
    <3>1. CommandMode \in Modes
      BY <2>1, <2>3, CommandModeType DEF SetMode, ProgramOrder
    <3>2. mode' \in [Motors -> Modes]
      BY <2>3, <3>1 DEF SetMode
    <3> QED BY <2>1, <2>3, <3>2 DEF SetMode
  <2>4. ASSUME ModesSet, ioPc = "apply", todo # {} PROVE command \in MoveCommands
    BY <2>4 DEF ModesSet, ProgramOrder, StickStores, ModeStores
  <2>5. CASE StoreThrottle
    <3>1. throttle' \in 0..PWM_PERIOD
      BY <2>1, <2>4, <2>5, MoveFields, ThrottleRange DEF StoreThrottle
    <3> QED BY <2>1, <2>5, <3>1 DEF StoreThrottle
  <2>6. CASE StoreJoyAngle
    <3>1. joyAngle' \in Angles
      BY <2>1, <2>4, <2>6, MoveFields DEF StoreJoyAngle
    <3> QED BY <2>1, <2>6, <3>1 DEF StoreJoyAngle
  <2>7. CASE StoreJoyMag
    <3>1. joyMag' \in Deflections
      BY <2>1, <2>4, <2>7, MoveFields DEF StoreJoyMag
    <3> QED BY <2>1, <2>7, <3>1 DEF StoreJoyMag
  <2> QED BY <1>7, <2>2, <2>3, <2>5, <2>6, <2>7 DEF Store, Motors
<1>8. CASE FinishCalibration
  BY <1>8 DEF FinishCalibration
<1>9. CASE ControlCycle
  <2>1. width' \in [Motors -> 0..PWM_PERIOD]
    BY <1>9, SpeedsRange DEF ControlCycle
  <2>2. theta' \in Headings /\ currentRate' \in Rates
    BY <1>9 DEF ControlCycle, Sample
  <2>3. blue' \in BOOLEAN
    BY <1>9 DEF ControlCycle, Blue
  <2>4. yellow' \in BOOLEAN
    <3>1. theta' \in Int /\ joyAngle \in Int /\ joyMag \in Int
      BY <2>2, HeadingAssumption DEF Angles, Deflections
    <3> QED BY <1>9, <3>1, YellowType DEF ControlCycle
  <2> QED BY <1>9, <2>1, <2>2, <2>3, <2>4 DEF ControlCycle
<1>10. CASE UNCHANGED vars
  BY <1>10 DEF vars
<1> QED BY <1>1, <1>2, <1>3, <1>4, <1>5, <1>6, <1>7, <1>8, <1>9, <1>10
        DEF Next, IOStep

\* What every store does to the IO thread.
LEMMA DoneFacts ==
    ASSUME NEW s, Done(s)
    PROVE  /\ ioPc = "apply" /\ s \in todo /\ todo' = todo \ {s}
           /\ todo' = {} => ioPc' = "rpm" /\ reply' > 0
           /\ todo' # {} => ioPc' = "apply" /\ UNCHANGED <<reply, command>>
           /\ UNCHANGED silence
<1>1. \A r \in RpmReply : r > 0
  BY ReplyAssumption
<1> QED BY <1>1 DEF Done

\* Every step keeps the IO thread's place and its outstanding stores in the
\* order of the program text.
LEMMA OrderStep == TypeOK /\ ProgramOrder /\ [Next]_vars => ProgramOrder'
<1> SUFFICES ASSUME TypeOK, ProgramOrder, [Next]_vars PROVE ProgramOrder'
  OBVIOUS
<1> USE DEF ProgramOrder
<1>1. CASE Outside \/ UNCHANGED vars
  BY <1>1, OutsideLeaves
<1>2. CASE TimerExpires
  BY <1>2 DEF TimerExpires
<1>3. CASE OnTimeout
  BY <1>3 DEF OnTimeout
<1>4. CASE ReadNoise
  BY <1>4 DEF ReadNoise, TakeByte
<1>5. CASE ReadMove
  <2>1. command' \in MoveCommands
    BY <1>5, QueueHead, EventKinds DEF ReadMove, TakeByte, TypeOK
  <2>2. reply' > 0
    BY <1>5, ReplyAssumption DEF ReadMove
  <2> QED BY <1>5, <2>1, <2>2 DEF ReadMove, MoveStores, ModeStores, StickStores
<1>6. CASE ReadStop
  <2>1. Stop \notin MoveCommands
    BY MoveFields
  <2> QED BY <1>6, <2>1 DEF ReadStop, TakeByte, ModeStores, MoveStores
<1>7. CASE ReadTrim
  BY <1>7, ReplyAssumption DEF ReadTrim, TakeByte
<1>8. CASE PutByte
  BY <1>8 DEF PutByte, TypeOK, MoveStores
<1>9. ASSUME NEW s \in todo, Done(s),
             s = "reversed" => todo = MoveStores,
             s # "reversed" => "reversed" \notin todo,
             s = "mode2" => "mode1" \notin todo,
             s \in StickStores => ModesSet
      PROVE  ProgramOrder'
  <2>1. CASE todo' = {}
    BY <1>9, <2>1, DoneFacts
  <2>2. CASE todo' # {}
    BY <1>9, <2>2, DoneFacts DEF MoveStores, ModeStores, StickStores, ModesSet
  <2> QED BY <2>1, <2>2
<1>10. CASE Store
  <2> USE <1>9
  <2>1. CASE StoreReversed
    BY <2>1 DEF StoreReversed, Done, StickStores
  <2>2. CASE SetMode(1)
    BY <2>2 DEF SetMode, Done, ModeStore, StickStores
  <2>3. CASE SetMode(2)
    BY <2>3 DEF SetMode, Done, ModeStore, StickStores
  <2>4. CASE StoreThrottle
    BY <2>4 DEF StoreThrottle, Done, ModesSet, StickStores
  <2>5. CASE StoreJoyAngle
    BY <2>5 DEF StoreJoyAngle, Done, ModesSet, StickStores
  <2>6. CASE StoreJoyMag
    BY <2>6 DEF StoreJoyMag, Done, ModesSet, StickStores
  <2> QED BY <1>10, <2>1, <2>2, <2>3, <2>4, <2>5, <2>6 DEF Store
<1> QED BY <1>1, <1>2, <1>3, <1>4, <1>5, <1>6, <1>7, <1>8, <1>10
        DEF Next, IOStep, ReadByte, Outside

\* When both setMode calls are done the motor drivers carry the mode of the
\* move command, which is a running one if the command gives a throttle.
LEMMA ModesReady ==
    ASSUME TypeOK, ProgramOrder, PartlyDone, ModesSet, ioPc = "apply", todo # {}
    PROVE  /\ command \in MoveCommands /\ command # Stop
           /\ mode[1] = mode[2]
           /\ \A m \in Motors : mode[m] = CommandMode
           /\ Throttle(command.move.spin) > 0
                 => mode = Both(ModeOf(TRUE, reversed))
<1>1. command \in MoveCommands /\ command # Stop
  BY MoveFields DEF ProgramOrder, ModesSet, StickStores, ModeStores
<1>2. "reversed" \notin todo /\ \A m \in Motors : ModeStore[m] \notin todo
  BY DEF ModesSet, StickStores, ModeStore, Motors
<1>3. \A m \in Motors : mode[m] = MoveMode(command.move.spin)
  BY <1>1, <1>2 DEF PartlyDone, CommandMode
<1>4. mode = Both(MoveMode(command.move.spin))
  BY <1>3 DEF TypeOK, Both
<1>5. Throttle(command.move.spin) > 0 => command.move.spin \notin {0, -1}
  BY ThrottleRuns
<1>6. reversed = (command.move.spin < 0)
  BY <1>1, <1>2 DEF PartlyDone
<1>7. Throttle(command.move.spin) > 0
         => mode = Both(ModeOf(TRUE, reversed))
  BY <1>4, <1>5, <1>6 DEF MoveMode
<1> QED BY <1>1, <1>3, <1>7 DEF Motors, CommandMode

\* The values the stores leave behind.
Values == PartlyDone /\ Settled /\ StopSettled

\* Every step keeps the relation between the object, the motor drivers and the
\* command under execution.
LEMMA ValuesStep ==
    TypeOK /\ ProgramOrder /\ Values /\ [Next]_vars => Values'
<1> SUFFICES ASSUME TypeOK, ProgramOrder, Values, [Next]_vars PROVE Values'
  OBVIOUS
<1> USE DEF Values, PartlyDone, Settled, StopSettled, CommandMode
<1>1. CASE Outside \/ UNCHANGED vars
  BY <1>1, OutsideLeaves
<1>2. CASE TimerExpires
  BY <1>2 DEF TimerExpires, ProgramOrder, object
<1>3. CASE OnTimeout
  <2>1. todo = {} /\ todo' = {} /\ ioPc = "expired" /\ ioPc' = "wait"
    BY <1>3 DEF OnTimeout, ProgramOrder
  <2>2. (throttle' = 0 \/ throttle' = throttle) /\ UNCHANGED <<mode, reversed>>
    BY <1>3 DEF OnTimeout
  <2>3. throttle' > 0 => throttle' = throttle
    BY <2>2
  <2> QED BY <2>1, <2>2, <2>3
<1>4. CASE ReadNoise
  BY <1>4 DEF ReadNoise, TakeByte, object
<1>5. CASE ReadMove
  BY <1>5 DEF ReadMove, TakeByte, object
<1>6. CASE ReadStop
  <2>1. Stop \notin MoveCommands
    BY MoveFields
  <2> QED BY <1>6, <2>1 DEF ReadStop, TakeByte, ModeStores, ModeStore, Motors
<1>7. CASE ReadTrim
  BY <1>7 DEF ReadTrim, TakeByte, object, ProgramOrder
<1>8. CASE PutByte
  <2>1. UNCHANGED <<command, todo, throttle, reversed, mode>>
    BY <1>8 DEF PutByte, object
  <2>2. CASE ioPc' = "apply"
    <3>1. ioPc = "theta" /\ todo = MoveStores /\ command \in MoveCommands /\ command # Stop
      BY <1>8, <2>2, MoveFields DEF PutByte, ProgramOrder
    <3>2. \A m \in Motors : ModeStore[m] \in MoveStores
      BY DEF Motors, ModeStore, MoveStores, ModeStores
    <3> QED BY <2>1, <2>2, <3>1, <3>2 DEF MoveStores, StickStores
  <2>3. CASE ioPc' # "apply"
    BY <1>8, <2>1, <2>3 DEF PutByte
  <2> QED BY <2>2, <2>3
<1>9. CASE StoreReversed
  <2>1. todo = MoveStores /\ todo' = todo \ {"reversed"} /\ command \in MoveCommands
    BY <1>9, DoneFacts DEF StoreReversed, ProgramOrder, ModeStores
  <2>2. command # Stop /\ todo' # {} /\ "mode1" \in todo /\ "mode1" \in todo' /\ "reversed" \notin todo'
        /\ "throttle" \in todo' /\ \A m \in Motors : ModeStore[m] \in todo'
    BY <2>1, MoveFields DEF MoveStores, ModeStores, StickStores, ModeStore, Motors
  <2>3. ioPc' = "apply" /\ command' = command
    BY <1>9, <2>2, DoneFacts DEF StoreReversed
  <2> QED BY <1>9, <2>2, <2>3 DEF StoreReversed
<1>10. ASSUME NEW n \in Motors, SetMode(n) PROVE Values'
  <2>1. /\ ioPc = "apply" /\ ModeStore[n] \in todo /\ todo' = todo \ {ModeStore[n]}
        /\ "reversed" \notin todo /\ (n = 2 => "mode1" \notin todo)
        /\ mode' = [mode EXCEPT ![n] = CommandMode]
        /\ UNCHANGED <<throttle, reversed>>
    BY <1>10, DoneFacts DEF SetMode
  <2>2. mode'[n] = CommandMode /\ \A m \in Motors \ {n} : mode'[m] = mode[m]
    BY <2>1 DEF TypeOK
  <2>3. CASE todo' # {}
    <3>1. ioPc' = "apply" /\ command' = command
      BY <1>10, <2>3, DoneFacts DEF SetMode
    <3>2. "mode1" \in todo' => n = 2 /\ "mode1" \in todo
      BY <2>1 DEF ModeStore, Motors
    <3>3. \A m \in Motors : ModeStore[m] \notin todo' => mode'[m] = CommandMode
      <4> HIDE DEF CommandMode
      <4> TAKE m \in Motors
      <4>1. CASE m = n
        BY <2>2, <4>1
      <4>2. CASE m # n
        <5>1. ModeStore[m] # ModeStore[n]
          BY <4>2 DEF ModeStore, Motors
        <5> QED BY <2>1, <2>2, <4>2, <5>1
      <4> QED BY <4>1, <4>2
    <3>4. CommandMode' = CommandMode
      BY <3>1
    <3>5. PartlyDone'
      <4> HIDE DEF CommandMode
      <4>1. "throttle" \notin todo' => "throttle" \notin todo
        BY <2>1 DEF ModeStore, Motors
      <4> QED BY <2>1, <3>1, <3>3, <3>4, <4>1
    <3> QED BY <2>1, <3>1, <3>2, <3>5 DEF ModeStore, Motors
  <2>4. CASE todo' = {}
    <3>1. n = 2
      BY <2>1, <2>4 DEF ProgramOrder, ModeStore, Motors
    <3>2. command = Stop
      BY <2>1, <2>4, <3>1 DEF ProgramOrder, ModeStore, StickStores
    <3>3. throttle = 0 /\ mode[1] = CommandMode
      BY <2>1, <3>1, <3>2 DEF ModeStore, Motors
    <3>4. ioPc' = "rpm"
      BY <1>10, <2>4, DoneFacts DEF SetMode
    <3> HIDE DEF CommandMode
    <3> QED BY <2>1, <2>2, <2>4, <3>1, <3>3, <3>4 DEF Motors
  <2> QED BY <2>3, <2>4
<1>11. ASSUME NEW s, ModesSet, Done(s), UNCHANGED <<reversed, mode>>,
              s = "throttle" => throttle' = Throttle(command.move.spin),
              s # "throttle" => throttle' = throttle
       PROVE  Values'
  <2>1. /\ command \in MoveCommands /\ command # Stop
        /\ mode[1] = mode[2]
        /\ \A m \in Motors : mode[m] = CommandMode
        /\ Throttle(command.move.spin) > 0
              => mode = Both(ModeOf(TRUE, reversed))
    BY <1>11, ModesReady, DoneFacts
  <2>2. "reversed" \notin todo /\ "mode1" \notin todo /\ todo' = todo \ {s}
    BY <1>11, DoneFacts DEF ModesSet, StickStores
  <2>3. "throttle" \notin todo' => throttle' = Throttle(command.move.spin)
    BY <1>11, <2>1, <2>2, DoneFacts
  <2>4. CASE todo' = {}
    BY <1>11, <2>1, <2>2, <2>3, <2>4, DoneFacts
  <2>5. CASE todo' # {}
    <3>1. ioPc = "apply" /\ ioPc' = "apply" /\ command' = command
      BY <1>11, <2>5, DoneFacts
    <3>2. reversed = (command.move.spin < 0)
      BY <2>1, <2>2, <3>1
    <3> QED BY <1>11, <2>1, <2>2, <2>3, <3>1, <3>2
  <2> QED BY <2>4, <2>5
<1>12. CASE StoreThrottle \/ StoreJoyAngle \/ StoreJoyMag
  BY <1>11, <1>12 DEF StoreThrottle, StoreJoyAngle, StoreJoyMag
<1> QED BY <1>1, <1>2, <1>3, <1>4, <1>5, <1>6, <1>7, <1>8, <1>9, <1>10, <1>12
        DEF Next, IOStep, ReadByte, Outside, Store, Motors

\* Every step keeps timeout_counter and the length of the silence together.
LEMMA SilenceStep ==
    TypeOK /\ ProgramOrder /\ PartlyDone /\ SilenceCounted /\ [Next]_vars => SilenceCounted'
<1> SUFFICES ASSUME TypeOK, ProgramOrder, PartlyDone, SilenceCounted, [Next]_vars
             PROVE  SilenceCounted'
  OBVIOUS
<1> USE FreqAssumption DEF SilenceCounted
<1>1. CASE Outside \/ UNCHANGED vars
  BY <1>1, OutsideLeaves
<1>2. CASE TimerExpires
  BY <1>2 DEF TimerExpires, object
<1>3. CASE OnTimeout
  BY <1>3 DEF OnTimeout, TypeOK
<1>4. CASE ReadByte
  <2>1. timeout_counter' = 0 /\ silence' = 0
    BY <1>4 DEF ReadByte, ReadNoise, ReadMove, ReadStop, ReadTrim, TakeByte
  <2> QED BY <2>1
<1>5. CASE PutByte
  BY <1>5 DEF PutByte, object
<1>6. CASE Store
  <2>1. silence = 0 /\ UNCHANGED <<silence, timeout_counter>>
    BY <1>6 DEF Store, StoreReversed, SetMode, StoreThrottle, StoreJoyAngle,
                StoreJoyMag, Done
  <2> QED BY <2>1
<1> QED BY <1>1, <1>2, <1>3, <1>4, <1>5, <1>6 DEF Next, IOStep, Outside

\* The invariant is inductive.
LEMMA NextInv == Inv /\ [Next]_vars => Inv'
BY TypeStep, OrderStep, ValuesStep, SilenceStep DEF Inv, Values

\* Inv is an invariant.
THEOREM Invariance == Spec => []Inv
<1>1. Init => Inv
  BY InitInv
<1>2. Inv /\ [Next]_vars => Inv'
  BY NextInv
<1> QED BY <1>1, <1>2, PTL DEF Spec

\* Every variable keeps its type: in particular throttle and both pulse widths
\* fit the timer whatever the frames carry.
THEOREM TypeCorrect == Spec => []TypeOK
BY Invariance, PTL DEF Inv

\* Away from the stores of a command, a spinning robot has both motor drivers
\* running in the direction of reversed.
THEOREM SpinsCorrectly == Spec => []SpinsAsCommanded
<1>1. Inv => SpinsAsCommanded
  BY DEF Inv, Settled, SpinsAsCommanded
<1> QED BY <1>1, Invariance, PTL

\* The two motor drivers differ only between the two setMode calls.
THEOREM MotorsAgree == Spec => []DivergeOnlyBetweenWrites
<1>1. Inv => DivergeOnlyBetweenWrites
  <2> SUFFICES ASSUME Inv, mode[1] # mode[2]
               PROVE  "mode1" \notin todo /\ "mode2" \in todo
    BY DEF DivergeOnlyBetweenWrites
  <2>1. ioPc = "apply" /\ "mode1" \notin todo
    BY DEF Inv, Settled, StopSettled
  <2>2. "mode2" \in todo
    BY <2>1 DEF Inv, PartlyDone, ModeStore, Motors
  <2> QED BY <2>1, <2>2
<1> QED BY <1>1, Invariance, PTL

\* However long the radio is silent, the throttle stays at zero once the
\* failsafe has acted.
THEOREM Failsafe == Spec => []FailsafeHolds
<1>1. Inv => FailsafeHolds
  BY DEF Inv, SilenceCounted, FailsafeHolds
<1> QED BY <1>1, Invariance, PTL

\* The throttle goes up only when both motor drivers already run in the
\* direction of reversed.
THEOREM SpeedLast == Spec => SpeedRaisedLast
<1>1. ASSUME Inv, [Next]_vars, throttle' > throttle
      PROVE  mode = Both(ModeOf(TRUE, reversed))
  <2>1. throttle \in Nat
    BY <1>1 DEF Inv, TypeOK
  <2>2. CASE StoreThrottle
    <3>1. ioPc = "apply" /\ todo # {} /\ ModesSet /\ throttle' = Throttle(command.move.spin)
      BY <2>2, DoneFacts DEF StoreThrottle
    <3>2. Throttle(command.move.spin) > 0
      <4>1. command.move.spin \in Spins
        BY <1>1, <3>1, ModesReady, MoveFields DEF Inv
      <4> QED BY <1>1, <2>1, <3>1, <4>1, ThrottleRange, PeriodAssumption
    <3> QED BY <1>1, <3>1, <3>2, ModesReady DEF Inv
  <2>3. CASE ~StoreThrottle
    <3>1. throttle' = 0 \/ throttle' = throttle
      BY <1>1, <2>3, OutsideLeaves
         DEF Next, IOStep, Outside, TimerExpires, OnTimeout, ReadByte, ReadNoise, ReadMove,
             ReadStop, ReadTrim, PutByte, Store, StoreReversed, SetMode, StoreJoyAngle,
             StoreJoyMag, object
    <3> QED BY <1>1, <2>1, <3>1
  <2> QED BY <2>2, <2>3
<1>2. Inv /\ [Next]_vars
         => [throttle' > throttle
                => mode = Both(ModeOf(TRUE, reversed))]_vars
  BY <1>1
<1> QED BY <1>2, Invariance, PTL DEF Spec, SpeedRaisedLast

----------------------------------------------------------------------------
(* The IO thread implements AtomicControl.                                 *)

\* The mapped drive stands still when object and IO thread do.
LEMMA CommittedStill ==
    ASSUME UNCHANGED <<command, todo, throttle, reversed, joyAngle, joyMag, mode,
                       gyroTrim, translationTrim>>
    PROVE  Committed' = Committed
BY DEF Committed, After, CommandMode

\* With nothing outstanding the mapped drive is the object.
LEMMA CommittedIdle ==
    ASSUME todo = {}
    PROVE  Committed = [throttle |-> throttle, reversed |-> reversed,
                        mode |-> [m \in Motors |-> mode[m]],
                        joyAngle |-> joyAngle, joyMag |-> joyMag,
                        gyroTrim |-> gyroTrim, translationTrim |-> translationTrim]
BY DEF Committed, After

\* A store moves a value from the outstanding ones into the object, where the
\* mapped drive has it already.
LEMMA CommittedStore ==
    TypeOK /\ ProgramOrder /\ Store => Committed' = Committed
<1> SUFFICES ASSUME TypeOK, ProgramOrder, Store PROVE Committed' = Committed
  OBVIOUS
<1>1. ASSUME NEW s, Done(s), NEW t, t # s
      PROVE  (t \in todo' <=> t \in todo) /\ (t \in todo' => command' = command)
  BY <1>1, DoneFacts
<1>2. ASSUME NEW s, Done(s) PROVE s \in todo /\ s \notin todo' /\ UNCHANGED trims
  BY <1>2, DoneFacts DEF Done
<1> DEFINE T == After("throttle", Throttle(command.move.spin), throttle)
           R == After("reversed", command.move.spin < 0, reversed)
           A == After("joyAngle", command.move.joyAngle, joyAngle)
           J == After("joyMag", command.move.joyMag, joyMag)
           M(m) == After(ModeStore[m], CommandMode, mode[m])
<1>3. SUFFICES T' = T /\ R' = R /\ A' = A /\ J' = J /\ (\A m \in Motors : M(m)' = M(m))
               /\ UNCHANGED trims
  BY DEF Committed, trims
<1> USE DEF After
<1>4. ASSUME NEW s, Done(s)
      PROVE  /\ throttle' = (IF s = "throttle" THEN Throttle(command.move.spin) ELSE throttle)
                   => T' = T
             /\ reversed' = (IF s = "reversed" THEN command.move.spin < 0 ELSE reversed)
                   => R' = R
             /\ joyAngle' = (IF s = "joyAngle" THEN command.move.joyAngle ELSE joyAngle)
                   => A' = A
             /\ joyMag' = (IF s = "joyMag" THEN command.move.joyMag ELSE joyMag)
                   => J' = J
  <2>1. CASE s = "throttle"
    BY <1>1, <1>2, <1>4, <2>1
  <2>2. CASE s = "reversed"
    BY <1>1, <1>2, <1>4, <2>2
  <2>3. CASE s = "joyAngle"
    BY <1>1, <1>2, <1>4, <2>3
  <2>4. CASE s = "joyMag"
    BY <1>1, <1>2, <1>4, <2>4
  <2>5. CASE s \notin {"throttle", "reversed", "joyAngle", "joyMag"}
    BY <1>1, <1>4, <2>5
  <2> QED BY <2>1, <2>2, <2>3, <2>4, <2>5
<1>5. ASSUME NEW s, Done(s), s \notin ModeStores, mode' = mode, NEW m \in Motors
      PROVE  M(m)' = M(m)
  <2>1. ModeStore[m] # s
    BY <1>5 DEF ModeStore, ModeStores, Motors
  <2> QED BY <1>1, <1>5, <2>1 DEF CommandMode
<1>6. ASSUME NEW n \in Motors, SetMode(n), NEW m \in Motors
      PROVE  M(m)' = M(m)
  <2>1. Done(ModeStore[n]) /\ mode' = [mode EXCEPT ![n] = CommandMode]
    BY <1>6 DEF SetMode
  <2>2. CASE m = n
    <3> HIDE DEF CommandMode
    <3>1. ModeStore[n] \in todo /\ ModeStore[n] \notin todo'
      BY <1>2, <2>1
    <3>2. mode'[n] = CommandMode
      BY <2>1 DEF TypeOK
    <3> QED BY <2>2, <3>1, <3>2
  <2>3. CASE m # n
    <3>1. ModeStore[m] # ModeStore[n]
      BY <2>3 DEF ModeStore, Motors
    <3>2. mode'[m] = mode[m]
      BY <2>1, <2>3 DEF TypeOK
    <3> QED BY <1>1, <2>1, <3>1, <3>2 DEF CommandMode
  <2> QED BY <2>2, <2>3
<1>7. CASE StoreReversed
  BY <1>2, <1>4, <1>5, <1>7 DEF StoreReversed, ModeStores
<1>8. CASE SetMode(1) \/ SetMode(2)
  <2> PICK n \in Motors : SetMode(n)
    BY <1>8 DEF Motors
  <2>1. Done(ModeStore[n]) /\ ModeStore[n] \in ModeStores
        /\ UNCHANGED <<throttle, reversed, joyAngle, joyMag>>
    BY DEF SetMode, ModeStore, ModeStores, Motors
  <2> QED BY <1>2, <1>4, <1>6, <2>1 DEF ModeStores
<1>9. CASE StoreThrottle
  BY <1>2, <1>4, <1>5, <1>9 DEF StoreThrottle, ModeStores
<1>10. CASE StoreJoyAngle
  BY <1>2, <1>4, <1>5, <1>10 DEF StoreJoyAngle, ModeStores
<1>11. CASE StoreJoyMag
  BY <1>2, <1>4, <1>5, <1>11 DEF StoreJoyMag, ModeStores
<1> QED BY <1>7, <1>8, <1>9, <1>10, <1>11 DEF Store

\* Initial states are initial states of the abstract specification.
LEMMA AtomicInit == Init => Atomic!Init
<1> SUFFICES ASSUME Init PROVE Atomic!Init
  OBVIOUS
<1>1. Committed = Atomic!InitialDrive
  BY CommittedIdle DEF Init, Atomic!InitialDrive, Atomic!ModeOf, ModeOf, Atomic!Both, Both, Atomic!Motors, Motors
<1> QED BY <1>1 DEF Init, Atomic!Init

\* The two copies of module Commands agree.
LEMMA SameEffects ==
    ASSUME NEW d, NEW e \in Events
    PROVE  /\ Atomic!Effect(d, e) = Effect(d, e)
           /\ e \in Atomic!Events
<1>1. Atomic!MoveEffect(d, e.move) = MoveEffect(d, e.move)
  BY DEF Atomic!MoveEffect, MoveEffect, Atomic!Throttle, Throttle, Atomic!Speed, Speed,
         Atomic!Magnitude, Magnitude, Atomic!MoveMode, MoveMode, Atomic!ModeOf, ModeOf, Atomic!Both, Both,
         Atomic!Motors, Motors
<1>2. Atomic!StopEffect(d) = StopEffect(d)
  BY DEF Atomic!StopEffect, StopEffect, Atomic!StopMode, StopMode, Atomic!ModeOf, ModeOf, Atomic!Both, Both, Atomic!Motors, Motors
<1>3. Atomic!Events = Events
  BY DEF Atomic!Events, Events, Atomic!Frames, Frames, Atomic!MoveCommands, MoveCommands,
         Atomic!GyroCommands, GyroCommands, Atomic!TransCommands, TransCommands,
         Atomic!Stop, Stop, Atomic!Other, Other, Atomic!Noise, Noise
<1> QED BY <1>1, <1>2, <1>3 DEF Atomic!Effect, Effect

\* MoveEffect and StopEffect field by field.
LEMMA MoveRecord ==
    ASSUME NEW t, NEW r, NEW f, NEW a, NEW j, NEW g, NEW h, NEW mv
    PROVE  MoveEffect([throttle |-> t, reversed |-> r, mode |-> f, joyAngle |-> a,
                       joyMag |-> j, gyroTrim |-> g, translationTrim |-> h], mv)
           = [throttle |-> Throttle(mv.spin), reversed |-> mv.spin < 0,
              mode |-> Both(MoveMode(mv.spin)),
              joyAngle |-> mv.joyAngle, joyMag |-> mv.joyMag,
              gyroTrim |-> g, translationTrim |-> h]
<1> DEFINE F == Both(MoveMode(mv.spin))
           T == Throttle(mv.spin)
           R == mv.spin < 0
           D == [throttle |-> t, reversed |-> r, mode |-> f, joyAngle |-> a,
                 joyMag |-> j, gyroTrim |-> g, translationTrim |-> h]
<1>1. MoveEffect(D, mv) = [[[[[D EXCEPT !.throttle = T] EXCEPT !.reversed = R]
                               EXCEPT !.mode = F] EXCEPT !.joyAngle = mv.joyAngle]
                               EXCEPT !.joyMag = mv.joyMag]
  BY Zenon DEF MoveEffect
<1> HIDE DEF F, T, R
<1>2. [D EXCEPT !.throttle = T]
         = [throttle |-> T, reversed |-> r, mode |-> f, joyAngle |-> a,
            joyMag |-> j, gyroTrim |-> g, translationTrim |-> h]
  OBVIOUS
<1>3. [[throttle |-> T, reversed |-> r, mode |-> f, joyAngle |-> a, joyMag |-> j,
        gyroTrim |-> g, translationTrim |-> h] EXCEPT !.reversed = R]
         = [throttle |-> T, reversed |-> R, mode |-> f, joyAngle |-> a,
            joyMag |-> j, gyroTrim |-> g, translationTrim |-> h]
  OBVIOUS
<1>4. [[throttle |-> T, reversed |-> R, mode |-> f, joyAngle |-> a, joyMag |-> j,
        gyroTrim |-> g, translationTrim |-> h] EXCEPT !.mode = F]
         = [throttle |-> T, reversed |-> R, mode |-> F, joyAngle |-> a,
            joyMag |-> j, gyroTrim |-> g, translationTrim |-> h]
  OBVIOUS
<1>5. [[throttle |-> T, reversed |-> R, mode |-> F, joyAngle |-> a, joyMag |-> j,
        gyroTrim |-> g, translationTrim |-> h] EXCEPT !.joyAngle = mv.joyAngle]
         = [throttle |-> T, reversed |-> R, mode |-> F, joyAngle |-> mv.joyAngle,
            joyMag |-> j, gyroTrim |-> g, translationTrim |-> h]
  OBVIOUS
<1>6. [[throttle |-> T, reversed |-> R, mode |-> F, joyAngle |-> mv.joyAngle, joyMag |-> j,
        gyroTrim |-> g, translationTrim |-> h] EXCEPT !.joyMag = mv.joyMag]
         = [throttle |-> T, reversed |-> R, mode |-> F, joyAngle |-> mv.joyAngle,
            joyMag |-> mv.joyMag, gyroTrim |-> g, translationTrim |-> h]
  OBVIOUS
<1> QED BY <1>1, <1>2, <1>3, <1>4, <1>5, <1>6, ZenonT(60) DEF F, T, R

\* What STOP makes of the mapped drive, field by field.
LEMMA StopRecord ==
    ASSUME NEW t, NEW r, NEW f, NEW a, NEW j, NEW g, NEW h
    PROVE  StopEffect([throttle |-> t, reversed |-> r, mode |-> f, joyAngle |-> a,
                       joyMag |-> j, gyroTrim |-> g, translationTrim |-> h])
           = [throttle |-> 0, reversed |-> r,
              mode |-> Both(StopMode), joyAngle |-> a,
              joyMag |-> j, gyroTrim |-> g, translationTrim |-> h]
<1> DEFINE F == Both(StopMode)
           D == [throttle |-> t, reversed |-> r, mode |-> f, joyAngle |-> a,
                 joyMag |-> j, gyroTrim |-> g, translationTrim |-> h]
<1>1. StopEffect(D) = [[D EXCEPT !.throttle = 0] EXCEPT !.mode = F]
  BY Zenon DEF StopEffect
<1> HIDE DEF F
<1>2. [D EXCEPT !.throttle = 0]
         = [throttle |-> 0, reversed |-> r, mode |-> f, joyAngle |-> a,
            joyMag |-> j, gyroTrim |-> g, translationTrim |-> h]
  OBVIOUS
<1>3. [[throttle |-> 0, reversed |-> r, mode |-> f, joyAngle |-> a, joyMag |-> j,
        gyroTrim |-> g, translationTrim |-> h] EXCEPT !.mode = F]
         = [throttle |-> 0, reversed |-> r, mode |-> F, joyAngle |-> a,
            joyMag |-> j, gyroTrim |-> g, translationTrim |-> h]
  OBVIOUS
<1> QED BY <1>1, <1>2, <1>3, Zenon DEF F

\* Taking a byte from the queue is the moment its effect happens.
LEMMA ReadExecutes == Inv /\ ReadByte => Atomic!Execute
<1> SUFFICES ASSUME Inv, ReadByte PROVE Atomic!Execute
  OBVIOUS
<1> DEFINE e == Head(inq)
<1>1. TakeByte /\ todo = {} /\ e \in Events
  BY QueueHead DEF Inv, TypeOK, ProgramOrder, ReadByte, ReadNoise, ReadMove, ReadStop,
                   ReadTrim, TakeByte
<1>2. SUFFICES Committed' = Effect(Committed, e)
  BY <1>1, SameEffects DEF Atomic!Execute, TakeByte
<1>3. mode = [m \in Motors |-> mode[m]]
  BY DEF Inv, TypeOK
<1> HIDE DEF e
<1>4. CASE ReadNoise
  <2>1. Effect(Committed, e) = Committed
    BY <1>4 DEF Effect, ReadNoise, Noise, e
  <2>2. Committed' = Committed
    BY <1>4, CommittedStill DEF ReadNoise, object, trims
  <2> QED BY <2>1, <2>2
<1>5. CASE ReadMove
  <2>1. Effect(Committed, e) = MoveEffect(Committed, e.move)
    BY <1>5 DEF Effect, ReadMove, e
  <2>2. command' = e /\ todo' = MoveStores /\ UNCHANGED trims
    BY <1>5 DEF ReadMove, e
  <2>3. e \in MoveCommands /\ e # Stop
    BY <1>1, <1>5, EventKinds, MoveFields DEF ReadMove, e
  <2>4. \A m \in Motors : ModeStore[m] \in MoveStores
    BY DEF Motors, ModeStore, MoveStores, ModeStores
  <2>5. Committed' = [throttle |-> Throttle(e.move.spin), reversed |-> e.move.spin < 0,
                      mode |-> Both(MoveMode(e.move.spin)),
                      joyAngle |-> e.move.joyAngle, joyMag |-> e.move.joyMag,
                      gyroTrim |-> gyroTrim, translationTrim |-> translationTrim]
    BY <2>2, <2>3, <2>4 DEF Committed, After, CommandMode, Both, MoveStores, StickStores, trims
  <2> QED BY <1>1, <2>1, <2>5, MoveRecord, CommittedIdle
<1>6. CASE ReadStop
  <2>1. e = Stop /\ Effect(Committed, e) = StopEffect(Committed)
    BY <1>6 DEF Effect, ReadStop, Stop, e
  <2>2. command' = Stop /\ todo' = ModeStores /\ throttle' = 0
        /\ UNCHANGED <<reversed, joyAngle, joyMag, trims>>
    BY <1>6 DEF ReadStop
  <2>3. \A m \in Motors : ModeStore[m] \in ModeStores
    BY DEF Motors, ModeStore, ModeStores
  <2>4. Committed' = [throttle |-> 0, reversed |-> reversed,
                      mode |-> Both(StopMode),
                      joyAngle |-> joyAngle, joyMag |-> joyMag,
                      gyroTrim |-> gyroTrim, translationTrim |-> translationTrim]
    BY <2>2, <2>3 DEF Committed, After, CommandMode, Both, ModeStores, trims
  <2>5. StopEffect(Committed) = [throttle |-> 0, reversed |-> reversed,
                      mode |-> Both(StopMode),
                      joyAngle |-> joyAngle, joyMag |-> joyMag,
                      gyroTrim |-> gyroTrim, translationTrim |-> translationTrim]
    <3>1. PICK f : Committed = [throttle |-> throttle, reversed |-> reversed, mode |-> f,
                                joyAngle |-> joyAngle, joyMag |-> joyMag,
                                gyroTrim |-> gyroTrim, translationTrim |-> translationTrim]
      BY <1>1, CommittedIdle
    <3>2. \A t, r, a, j, g, h :
             StopEffect([throttle |-> t, reversed |-> r, mode |-> f, joyAngle |-> a,
                         joyMag |-> j, gyroTrim |-> g, translationTrim |-> h])
             = [throttle |-> 0, reversed |-> r, mode |-> Both(StopMode), joyAngle |-> a,
                joyMag |-> j, gyroTrim |-> g, translationTrim |-> h]
      BY StopRecord
    <3> QED BY <3>1, <3>2
  <2> QED BY <2>1, <2>4, <2>5
<1>7. CASE ReadTrim
  <2>1. todo' = {} /\ UNCHANGED <<throttle, reversed, joyAngle, joyMag, mode>>
    BY <1>1, <1>7 DEF ReadTrim, object
  <2>2. Committed' = [throttle |-> throttle, reversed |-> reversed,
                      mode |-> [m \in Motors |-> mode[m]],
                      joyAngle |-> joyAngle, joyMag |-> joyMag,
                      gyroTrim |-> gyroTrim', translationTrim |-> translationTrim']
    BY <2>1 DEF Committed, After
  <2> QED BY <1>1, <1>7, <2>2, CommittedIdle DEF Effect, ReadTrim, e
<1> QED BY <1>4, <1>5, <1>6, <1>7 DEF ReadByte

\* An expired wait is the abstract one: the counter and the silence trip
\* together, and a counter that trips again finds the throttle at zero.
LEMMA TimeoutExpires == Inv /\ OnTimeout => Atomic!Expire
<1> SUFFICES ASSUME Inv, OnTimeout PROVE Atomic!Expire
  OBVIOUS
<1>1. /\ todo = {} /\ todo' = {}
      /\ UNCHANGED <<inq, reversed, joyAngle, joyMag, mode, gyroTrim, translationTrim>>
  BY DEF Inv, ProgramOrder, OnTimeout, trims
<1>2. silence' = IF silence < IO_FREQ THEN silence + 1 ELSE silence
  BY DEF OnTimeout
<1>3. throttle' = IF silence' = IO_FREQ THEN 0 ELSE throttle
  BY FreqAssumption DEF Inv, SilenceCounted, TypeOK, OnTimeout
<1>4. Committed' = [throttle |-> throttle', reversed |-> reversed,
                    mode |-> [m \in Motors |-> mode[m]],
                    joyAngle |-> joyAngle, joyMag |-> joyMag,
                    gyroTrim |-> gyroTrim, translationTrim |-> translationTrim]
  BY <1>1 DEF Committed, After
<1>5. Committed' = IF silence' = IO_FREQ THEN [Committed EXCEPT !.throttle = 0]
                   ELSE Committed
  BY <1>1, <1>3, <1>4, CommittedIdle
<1> QED BY <1>1, <1>2, <1>5 DEF Atomic!Expire

\* Every step of the firmware is a step of the abstract specification or
\* leaves what it sees unchanged.
LEMMA AtomicStep == Inv /\ [Next]_vars => [Atomic!Next]_(Atomic!avars)
<1> SUFFICES ASSUME Inv, [Next]_vars PROVE [Atomic!Next]_(Atomic!avars)
  OBVIOUS
<1> USE DEF Atomic!avars
<1>1. ASSUME NEW e \in Events, ByteArrives(e) PROVE Atomic!Next
  <2>1. Committed' = Committed
    BY <1>1, CommittedStill DEF ByteArrives, object, trims
  <2>2. Atomic!Receive(e)
    BY <1>1, <2>1 DEF ByteArrives, Atomic!Receive
  <2> QED BY <2>2, SameEffects DEF Atomic!Next
<1>2. CASE ReadByte
  BY <1>2, ReadExecutes DEF Atomic!Next
<1>3. CASE OnTimeout
  BY <1>3, TimeoutExpires DEF Atomic!Next
<1>4. CASE Store
  <2>1. UNCHANGED <<inq, silence>>
    BY <1>4 DEF Store, StoreReversed, SetMode, StoreThrottle, StoreJoyAngle, StoreJoyMag, Done
  <2> QED BY <1>4, <2>1, CommittedStore DEF Inv
<1>5. CASE Transmit \/ TimerExpires \/ PutByte \/ FinishCalibration \/ ControlCycle
           \/ UNCHANGED vars
  <2>1. UNCHANGED <<inq, silence, command, todo, throttle, reversed, joyAngle, joyMag,
                    mode, gyroTrim, translationTrim>>
    BY <1>5 DEF Transmit, TimerExpires, PutByte, FinishCalibration, ControlCycle, vars,
                object, trims
  <2> QED BY <2>1, CommittedStill
<1> QED BY <1>1, <1>2, <1>3, <1>4, <1>5 DEF Next, IOStep

\* The interleaved IO thread implements AtomicControl: whatever the control
\* thread, the interrupts and a full output queue do in between, commands take
\* effect whole, once, in the order of arrival.
THEOREM Refinement == Spec => ImplementsAtomicControl
<1>1. Init => Atomic!Init
  BY AtomicInit
<1>2. Inv /\ [Next]_vars => [Atomic!Next]_(Atomic!avars)
  BY AtomicStep
<1> QED BY <1>1, <1>2, Invariance, PTL DEF Spec, ImplementsAtomicControl, Atomic!Spec
============================================================================
