------------------------------ MODULE Tortilla -----------------------------
(***************************************************************************)
(* The firmware at run time: the IO thread, Tortilla::ioLoop(), which      *)
(* executes the commands of the radio link, and the control thread,        *)
(* Tortilla::fastLoop(), which turns heading and throttle into pulses      *)
(* every millisecond.  They share the fields of the Tortilla object with   *)
(* no lock.                                                                *)
(*                                                                         *)
(* The control thread (NORMALPRIO) preempts the IO thread (LOWPRIO) and is *)
(* never preempted by it, so a control cycle, from the answer of the ADC   *)
(* to the two setWidth calls, is one step, while the IO thread makes one   *)
(* step per access to what both threads can see.                           *)
(***************************************************************************)
EXTENDS Commands, Sequences

CONSTANTS IO_FREQ,      \* the number of expired waits that trip the failsafe
          InCap,        \* capacity of the serial input queue, in bytes
          OutCap,       \* capacity of the serial output queue, in bytes
          ThetaReply,   \* the lengths of the heading report, in bytes
          RpmReply,     \* the lengths of the speed report, in bytes
          Headings,     \* the values theta may take
          Rates         \* the values currentRate may take

ASSUME FreqAssumption == IO_FREQ \in Nat \ {0}
ASSUME InCapAssumption == InCap \in Nat \ {0}
ASSUME OutCapAssumption == OutCap \in Nat \ {0}
ASSUME ReplyAssumption ==
    /\ ThetaReply \subseteq Nat \ {0} /\ ThetaReply # {}
    /\ RpmReply \subseteq Nat \ {0} /\ RpmReply # {}
ASSUME HeadingAssumption == Headings \subseteq Angles /\ 0 \in Headings
ASSUME RateAssumption == Rates \subseteq Int /\ 0 \in Rates


VARIABLES
    \* shared with the serial interrupt
    inq,              \* the input queue: one event per byte
    oq,               \* the number of bytes in the output queue
    \* the IO thread
    ioPc,             \* where it is
    command,          \* the frame it is executing
    reply,            \* the bytes of the current report still to be put
    todo,             \* the stores of the command still to be done
    timeout_counter,  \* consecutive expired waits
    \* the Tortilla object and the two motor drivers
    throttle, reversed, joyAngle, joyMag, gyroTrim, translationTrim,
    mode,             \* configuration register 7 of each A4960
    \* the control thread
    ctl,              \* "calibrate" (initGyroBias) or "loop"
    theta, currentRate,
    width,            \* the PWM pulse width of each motor
    blue, yellow,     \* the heading lights
    \* history
    silence           \* waits expired since the last byte, up to IO_FREQ

object  == <<throttle, reversed, joyAngle, joyMag, mode>>
trims   == <<gyroTrim, translationTrim>>
control == <<ctl, theta, currentRate, width, blue, yellow>>
vars == <<inq, oq, ioPc, command, reply, todo, timeout_counter, object, trims,
          control, silence>>

ModeStore   == <<"mode1", "mode2">>
ModeStores  == {"mode1", "mode2"}
StickStores == {"throttle", "joyAngle", "joyMag"}
MoveStores  == {"reversed"} \cup ModeStores \cup StickStores
Idle == "idle"   \* no command under execution

----------------------------------------------------------------------------
Init ==
    /\ inq = <<>> /\ oq \in 0..OutCap
    /\ ioPc = "wait" /\ command = [op |-> Idle] /\ reply = 0 /\ todo = {}
    /\ timeout_counter = 0 /\ silence = 0
    /\ throttle = 0 /\ reversed = FALSE /\ joyAngle = 0 /\ joyMag = 0
    /\ gyroTrim = 0 /\ translationTrim = 0
    /\ mode = Both(ModeOf(FALSE, FALSE))
    /\ ctl = "calibrate" /\ theta = 0 /\ currentRate = 0
    /\ width = <<0, 0>> /\ blue = FALSE /\ yellow = TRUE

----------------------------------------------------------------------------
(* The serial interrupt.                                                   *)

\* Mutation: a full queue loses its oldest byte instead.
ByteOverwrites(e) ==
    /\ inq' = IF Len(inq) < InCap THEN Append(inq, e) ELSE Append(Tail(inq), e)
    /\ UNCHANGED <<oq, ioPc, command, reply, todo, timeout_counter, object,
                   trims, control, silence>>

\* A byte arrives; sdIncomingDataI drops it when the queue is full.
ByteArrives(e) ==
    /\ inq' = IF Len(inq) < InCap THEN Append(inq, e) ELSE inq
    /\ UNCHANGED <<oq, ioPc, command, reply, todo, timeout_counter, object,
                   trims, control, silence>>

\* The peer asserts CTS and the UART sends a byte.
Transmit ==
    /\ oq > 0
    /\ oq' = oq - 1
    /\ UNCHANGED <<inq, ioPc, command, reply, todo, timeout_counter, object,
                   trims, control, silence>>

----------------------------------------------------------------------------
(* The IO thread.                                                          *)

\* The system tick ends a wait on an empty queue.  A byte that arrives from
\* here on does not change the verdict the thread will read.
TimerExpires ==
    /\ ioPc = "wait" /\ inq = <<>>
    /\ ioPc' = "expired"
    /\ UNCHANGED <<inq, oq, command, reply, todo, timeout_counter, object,
                   trims, control, silence>>

\* Mutations: the counter is tested one wait late, or trips without cutting
\* the throttle.
Expired(trips, cut) ==
    /\ ioPc = "expired"
    /\ ioPc' = "wait"
    /\ timeout_counter' = IF trips THEN 0 ELSE timeout_counter + 1
    /\ throttle' = IF trips /\ cut THEN 0 ELSE throttle
    /\ silence' = IF silence < IO_FREQ THEN silence + 1 ELSE silence
    /\ UNCHANGED <<inq, oq, command, reply, todo, reversed, joyAngle, joyMag,
                   mode, trims, control>>

OnTimeoutLate  == Expired(timeout_counter = IO_FREQ, TRUE)
OnTimeoutNoCut == Expired(timeout_counter + 1 = IO_FREQ, FALSE)

\* chIOGetTimeout returns Q_TIMEOUT.
OnTimeout ==
    /\ ioPc = "expired"
    /\ ioPc' = "wait"
    /\ IF timeout_counter + 1 = IO_FREQ
       THEN timeout_counter' = 0 /\ throttle' = 0
       ELSE timeout_counter' = timeout_counter + 1 /\ UNCHANGED throttle
    /\ silence' = IF silence < IO_FREQ THEN silence + 1 ELSE silence
    /\ UNCHANGED <<inq, oq, command, reply, todo, reversed, joyAngle, joyMag,
                   mode, trims, control>>

\* chIOGetTimeout returns a byte, the oldest of the queue.
TakeByte ==
    /\ ioPc = "wait" /\ inq # <<>>
    /\ inq' = Tail(inq)
    /\ timeout_counter' = 0 /\ silence' = 0

ReadNoise ==
    /\ TakeByte /\ Head(inq) = Noise
    /\ UNCHANGED <<oq, ioPc, command, reply, todo, object, trims, control>>

\* 'm' decodes the frame and reports the heading before it changes anything.
ReadMove ==
    /\ TakeByte /\ Head(inq).op = "m"
    /\ command' = Head(inq)
    /\ ioPc' = "theta" /\ reply' \in ThetaReply /\ todo' = MoveStores
    /\ UNCHANGED <<oq, object, trims, control>>

\* Mutations: STOP leaves the throttle alone, or forgets m2.
Stopping(newThrottle, stores) ==
    /\ TakeByte /\ Head(inq) = Stop
    /\ command' = Stop
    /\ throttle' = newThrottle
    /\ ioPc' = "apply" /\ todo' = stores
    /\ UNCHANGED <<oq, reply, reversed, joyAngle, joyMag, mode, trims, control>>

ReadStopCoasting == Stopping(throttle, ModeStores)
ReadStopOneMotor == Stopping(0, {"mode1"})

\* 's' cuts the throttle before it touches the motor drivers.
ReadStop ==
    /\ TakeByte /\ Head(inq) = Stop
    /\ command' = Stop
    /\ throttle' = 0
    /\ ioPc' = "apply" /\ todo' = ModeStores
    /\ UNCHANGED <<oq, reply, reversed, joyAngle, joyMag, mode, trims, control>>

\* 'g', 't' and unknown opcodes: one store at most, then the speed report.
ReadTrim ==
    /\ TakeByte /\ Head(inq).op \in {"g", "t", "other"}
    /\ gyroTrim' = IF Head(inq).op = "g" THEN Head(inq).gyro ELSE gyroTrim
    /\ translationTrim' = IF Head(inq).op = "t" THEN Head(inq).trans ELSE translationTrim
    /\ ioPc' = "rpm" /\ reply' \in RpmReply
    /\ UNCHANGED <<oq, command, todo, object, control>>

\* chprintf puts one byte; the thread sleeps, without timeout, on a full queue.
PutByte ==
    /\ ioPc \in {"theta", "rpm"} /\ oq < OutCap
    /\ oq' = oq + 1
    /\ reply' = reply - 1
    /\ ioPc' = IF reply' > 0 THEN ioPc
               ELSE IF ioPc = "theta" THEN "apply" ELSE "wait"
    /\ UNCHANGED <<inq, command, todo, timeout_counter, object, trims, control,
                   silence>>

\* The last store of a command is followed by the speed report.
Done(store) ==
    /\ ioPc = "apply" /\ store \in todo
    /\ todo' = todo \ {store}
    /\ IF todo' = {}
       THEN ioPc' = "rpm" /\ reply' \in RpmReply /\ command' = [op |-> Idle]
       ELSE UNCHANGED <<ioPc, reply, command>>
    /\ UNCHANGED <<inq, oq, timeout_counter, trims, control, silence>>

StoreReversed ==
    /\ Done("reversed")
    /\ reversed' = (command.move.spin < 0)
    /\ UNCHANGED <<throttle, joyAngle, joyMag, mode>>

\* The mode register value of the command under execution.
CommandMode == IF command = Stop THEN StopMode
               ELSE MoveMode(command.move.spin)

\* setMode on m1, then on m2: an SPI exchange each, during which the IO
\* thread sleeps.
SetMode(m) ==
    /\ "reversed" \notin todo /\ (m = 2 => "mode1" \notin todo)
    /\ Done(ModeStore[m])
    /\ mode' = [mode EXCEPT ![m] = CommandMode]
    /\ UNCHANGED <<throttle, reversed, joyAngle, joyMag>>

\* The last three stores of 'm' have no barrier between them: any order.
ModesSet == todo \subseteq StickStores

\* Mutation: the throttle is stored before the motor drivers are set.
StoreThrottleEarly ==
    /\ "reversed" \notin todo /\ Done("throttle")
    /\ throttle' = Throttle(command.move.spin)
    /\ UNCHANGED <<reversed, joyAngle, joyMag, mode>>

StoreThrottle ==
    /\ ModesSet /\ Done("throttle")
    /\ throttle' = Throttle(command.move.spin)
    /\ UNCHANGED <<reversed, joyAngle, joyMag, mode>>

StoreJoyAngle ==
    /\ ModesSet /\ Done("joyAngle")
    /\ joyAngle' = command.move.joyAngle
    /\ UNCHANGED <<throttle, reversed, joyMag, mode>>

StoreJoyMag ==
    /\ ModesSet /\ Done("joyMag")
    /\ joyMag' = command.move.joyMag
    /\ UNCHANGED <<throttle, reversed, joyAngle, mode>>

ReadByte == ReadNoise \/ ReadMove \/ ReadStop \/ ReadTrim
Store == StoreReversed \/ SetMode(1) \/ SetMode(2)
         \/ StoreThrottle \/ StoreJoyAngle \/ StoreJoyMag
IOStep == TimerExpires \/ OnTimeout \/ ReadByte \/ PutByte \/ Store

----------------------------------------------------------------------------
(* The control thread.                                                     *)

\* initGyroBias returns and the yellow lights go out.
FinishCalibration ==
    /\ ctl = "calibrate" /\ ctl' = "loop"
    /\ yellow' = FALSE
    /\ UNCHANGED <<inq, oq, ioPc, command, reply, todo, timeout_counter, object,
                   trims, theta, currentRate, width, blue, silence>>

\* A reading with a good checksum moves rate and heading; a bad one is
\* dropped.
Sample ==
    \/ theta' \in Headings /\ currentRate' \in Rates
    \/ UNCHANGED <<theta, currentRate>>

\* One iteration of the loop: lights and pulse widths follow from the fields
\* as they are now.
ControlCycle ==
    /\ ctl = "loop"
    /\ Sample
    /\ width' = Speeds(throttle, joyMag,
                  JoyRel(joyAngle, theta',
                         ThetaOffset(reversed, currentRate', translationTrim)))
    /\ blue' = Blue(theta')
    /\ yellow' = Yellow(theta', joyAngle, joyMag)
    /\ UNCHANGED <<inq, oq, ioPc, command, reply, todo, timeout_counter, object,
                   trims, ctl, silence>>

----------------------------------------------------------------------------
Next == \/ \E e \in Events : ByteArrives(e)
        \/ Transmit
        \/ IOStep
        \/ FinishCalibration
        \/ ControlCycle

Spec == Init /\ [][Next]_vars

\* The control thread sleeps every cycle and never needs the IO thread, so
\* both threads run.
ThreadFairness == WF_vars(IOStep) /\ WF_vars(FinishCalibration) /\ WF_vars(ControlCycle)

\* A peer that reads its end of the link.
PeerFairness == WF_vars(Transmit)

LonelySpec == Spec /\ ThreadFairness

----------------------------------------------------------------------------
\* Type invariant.  Throttle and pulse widths stay within the timer period
\* whatever spin a frame carries.
TypeOK ==
    /\ inq \in Seq(Events) /\ Len(inq) <= InCap
    /\ oq \in 0..OutCap
    /\ ioPc \in {"wait", "expired", "theta", "apply", "rpm"}
    /\ command \in MoveCommands \cup {Stop, [op |-> Idle]}
    /\ reply \in Nat
    /\ todo \subseteq MoveStores
    /\ timeout_counter \in 0..(IO_FREQ - 1)
    /\ throttle \in 0..PWM_PERIOD
    /\ reversed \in BOOLEAN
    /\ joyAngle \in Angles /\ joyMag \in Deflections
    /\ gyroTrim \in Int /\ translationTrim \in Int
    /\ mode \in [Motors -> Modes]
    /\ ctl \in {"calibrate", "loop"}
    /\ theta \in Headings /\ currentRate \in Rates
    /\ width \in [Motors -> 0..PWM_PERIOD]
    /\ blue \in BOOLEAN /\ yellow \in BOOLEAN
    /\ silence \in 0..IO_FREQ

\* Whenever the IO thread can be left waiting for the radio (for a byte, or
\* for room to report), a spinning robot has both motors running in the
\* direction that reversed names: no wait is entered halfway through a change
\* of mode, and STOP, which leaves reversed alone, leaves nothing spinning.
SpinsAsCommanded ==
    throttle > 0 /\ ioPc # "apply"
        => mode = Both(ModeOf(TRUE, reversed))

\* The two motor drivers disagree only between the two setMode calls of one
\* command, never when ioLoop is anywhere else.
DivergeOnlyBetweenWrites ==
    mode[1] # mode[2] => "mode1" \notin todo /\ "mode2" \in todo

\* Failsafe: IO_FREQ waits that expire in a row, with no byte in between,
\* leave the throttle at zero, and it stays there however long the silence
\* lasts, although the counter starts again from zero.
FailsafeHolds == silence = IO_FREQ => throttle = 0

\* The throttle is the last thing a command raises: when it goes up both
\* motor drivers already run in the commanded direction.
SpeedRaisedLast ==
    [][throttle' > throttle
          => mode = Both(ModeOf(TRUE, reversed))]_vars

----------------------------------------------------------------------------
(* Why the invariants hold: the strengthening that every step preserves.   *)

\* Where the IO thread is and what it has left to do go together: the stores
\* of a command are done in program order.
ProgramOrder ==
    /\ ioPc \in {"wait", "expired", "rpm"} => todo = {}
    /\ ioPc = "theta" => command \in MoveCommands /\ todo = MoveStores
    /\ ioPc = "apply" =>
         /\ todo # {}
         /\ \/ command \in MoveCommands
            \/ command = Stop /\ todo \subseteq ModeStores
    /\ "reversed" \in todo => todo = MoveStores
    /\ "mode1" \in todo => "mode2" \in todo
    /\ "mode2" \in todo /\ command \in MoveCommands => StickStores \subseteq todo
    /\ ioPc \in {"theta", "rpm"} => reply > 0

\* The stores already done carry the values of the command under execution.
PartlyDone ==
    ioPc = "apply" =>
        /\ command = Stop => throttle = 0
        /\ command \in MoveCommands /\ "reversed" \notin todo
              => reversed = (command.move.spin < 0)
        /\ \A m \in Motors : ModeStore[m] \notin todo => mode[m] = CommandMode
        /\ command \in MoveCommands /\ "throttle" \notin todo
              => throttle = Throttle(command.move.spin)

\* Before the first store of a command and after the last one the motors
\* agree, and a spinning robot runs as reversed says.
Settled ==
    (ioPc # "apply" \/ "reversed" \in todo) =>
        /\ mode[1] = mode[2]
        /\ throttle > 0 => mode = Both(ModeOf(TRUE, reversed))

\* STOP starts from motors that agree.
StopSettled == "mode1" \in todo => mode[1] = mode[2]

\* timeout_counter measures the silence until the failsafe has acted.
SilenceCounted ==
    /\ silence < IO_FREQ => timeout_counter = silence
    /\ silence = IO_FREQ => throttle = 0
    /\ ioPc \notin {"wait", "expired"} => silence = 0

Inv == TypeOK /\ ProgramOrder /\ PartlyDone /\ Settled /\ StopSettled /\ SilenceCounted

----------------------------------------------------------------------------
(* The IO thread implements AtomicControl: a command takes effect when its *)
(* last byte is taken from the queue.  The drive that AtomicControl sees   *)
(* is the object with the outstanding stores of the command already done.  *)

After(store, new, old) == IF store \in todo THEN new ELSE old

Committed ==
    [throttle |-> After("throttle", Throttle(command.move.spin), throttle),
     reversed |-> After("reversed", command.move.spin < 0, reversed),
     mode     |-> [m \in Motors |-> After(ModeStore[m], CommandMode, mode[m])],
     joyAngle |-> After("joyAngle", command.move.joyAngle, joyAngle),
     joyMag   |-> After("joyMag", command.move.joyMag, joyMag),
     gyroTrim |-> gyroTrim,
     translationTrim |-> translationTrim]

Atomic == INSTANCE AtomicControl WITH drive <- Committed

\* No interleaving with the control thread, the serial interrupt or a full
\* output queue makes the commands' effects differ from their execution one
\* at a time in the order of arrival.
ImplementsAtomicControl == Atomic!Spec

----------------------------------------------------------------------------
NoByteArrives == [][Len(inq') < Len(inq)]_inq

\* When the radio goes silent for good the throttle ends at zero: the
\* comment "failsafe stop" of ioLoop, with no word about the reports.
SilenceStops == <>NoByteArrives => <>[](throttle = 0)

\* It does as long as the peer reads the reports that the IO thread blocks in.
SilenceStopsIfServed == PeerFairness => SilenceStops

\* A STOP that made it into the input queue zeroes the throttle, whatever is
\* queued before it, if the peer reads the reports on what is queued before it.
StopQueued == \E i \in 1..Len(inq) : inq[i] = Stop
StopTakesEffect == PeerFairness => (StopQueued ~> (throttle = 0))

\* Motor drivers that disagree agree again, even if the peer never reads.
MotorsReagree == (mode[1] # mode[2]) ~> (mode[1] = mode[2])

\* Once throttle and stick stay at zero the control thread brings the pulses
\* down to zero for good.
MotorsComeToRest == <>[](throttle = 0 /\ joyMag = 0) => <>[](width = <<0, 0>>)

----------------------------------------------------------------------------
(* What a comment of ioLoop says of the failsafe.                          *)

\* "failsafe stop": after it, and until a byte arrives, no control cycle
\* turns a motor on.
FailsafeStopsMotors ==
    [][silence = IO_FREQ /\ width' # width => width' = <<0, 0>>]_vars
============================================================================
