# A TLA+ model of the gyroking firmware

gyroking is the firmware of a "melty brain" fighting robot: the whole body
spins, a gyro integrates the heading, and the robot translates by pulsing its
two motors unequally at the right heading of every turn. The firmware is about
five hundred lines of C++ (`src/src`, `src/include`) on ChibiOS/RT
(`src/ChibiOS`, vendored). Two threads share one object, `Tortilla`, with no
lock.

This directory holds TLA+ models of it, the TLC runs that check them and TLAPS
proofs of the properties of the core for every value of its constants.

## 1. The system

### Components

| Component | Code | State | Operations | Interacts with |
|---|---|---|---|---|
| Frame parser | `Tortilla_io.cpp` 60-155 | `state`, `command_length`, `command_code`, `command_data[27]`, `command_data_index` | one per received byte | reads the input queue; hands a frame to the command switch |
| Command execution | `Tortilla_io.cpp` 157-216 | the fields of `Tortilla`: `throttle`, `reversed`, `joyAngle`, `joyMag`, `gyroTrim`, `translationTrim` | `m` (move), `s` (stop), `g`, `t` (trims), any other letter | writes the shared fields, calls both motor drivers over SPI, writes reports |
| Failsafe | `Tortilla_io.cpp` 78-92 | `timeout_counter` | one per expired wait, one per byte | clears `throttle` |
| Control loop | `Tortilla_control.cpp` 85-142 | `theta`, `currentRate`, `lastRate`, PWM widths, lights | one cycle per millisecond | reads the shared fields; reads the gyro; writes PWM and lights |
| Gyro calibration | `Tortilla_control.cpp` 57-72 | `gyroBias` | 6000 readings, once | gyro |
| Motor driver `A4960` | `A4960.h`, `A4960.cpp` | configuration register 7 (RUN, DIR), PWM width | `setMode`, `setWidth`, `writeReg`, boot configuration | SPI2, SPI3, PWM3; diagnostics on the radio |
| Gyro converter `ADS1259` | `ADS1259.cpp` | - | `read`, `start`, `writeReg` | SPI1 |
| Boot | `main.cpp` | - | start drivers, motors, converter, IO thread, then the control loop | everything |
| Serial link | `chqueues.c`, `serial.c`, `serial_lld.c`, `chprintf.c` | input and output queue, interrupt enables | byte in, byte out, get with timeout, put | UART interrupt, IO thread, peer (RTS/CTS) |
| Time | `chvt.c`, `chthreads.c` | tick count, delta list | tick, arm, `chThdSleepUntil` | both threads |
| Scheduler | `chschd.c` | ready list, current thread | ready, reschedule, sleep with timeout | both threads |
| Bus locks | `chmtx.c`, `spi.c` | one mutex per SPI bus | acquire, exchange, release | both threads |

How they run together: the UART interrupt fills a 64-byte input queue; the IO
thread (LOWPRIO) takes one byte at a time with a timeout of 100 ms, parses,
executes complete frames and reports the heading and the rate through a
64-byte output queue that the interrupt empties while the peer asserts CTS;
the control thread (the main thread, NORMALPRIO) preempts it every
millisecond. The only things both threads touch are the fields of `Tortilla`.

### What is hard, and what makes each component correct

* Parser: frames broken off and begun again, stale digits of earlier frames,
  lengths that are never met. Correct when it executes exactly the frames
  that occur in the byte stream, with digits that the stream alone determines
  as far as any frame has brought them, and never leaves its buffer.
* Command execution: a command is up to six separate stores, two of them SPI
  exchanges during which the control loop runs. Correct when, seen from
  outside, commands take effect one at a time, whole, in order of arrival;
  when both motors end up with the same mode; and when the throttle is
  raised only after the direction has been set.
* Failsafe: counts expired waits in the thread that also writes the reports.
  Correct when a long enough silence cuts the throttle and keeps it cut.
* Control loop: reads fields that another thread is halfway through changing.
  Correct when pulse widths stay within the timer period and motors that
  should rest, rest.
* Boot: diagnostics can block on the peer; commands are accepted before the
  gyro is calibrated; the motor drivers keep their registers over a reset of
  the processor. Correct when the calibration finds the robot at rest, what
  was commanded meanwhile stands, and the loop is reached if the peer reads.
* Time: absolute sleeps on an unsigned tick counter, and waits with a time
  limit that race with the byte waited for. Correct when every timer fires
  after exactly the delay it was armed with, a wait has one verdict, no byte is
  left behind while a reader
  sleeps, and no timer outlives its wait.
* Serial link: the handler works on copies of registers while the device goes
  on. Correct when bytes leave once and in order, a byte that came in is
  enqueued at most once, an interrupt that is needed
  is enabled, one that is not does not come back for ever, and a thread sleeps
  only while there is nothing for it.
* Bus locks and scheduler: a thread's priority changes under it while it is in
  a list that is in the order of priorities. Correct when the best thread
  always runs, priorities are inherited exactly, and no urgent thread waits
  for one of less priority that merely computes.

`PROJECT.json` lists these hazards one by one, at the line where each bites.

## 2. The modules

| Module | Models | Uses |
|---|---|---|
| `FrameParser` | one received byte as a function on parser records | |
| `FrameGrammar` | abstract: the executed commands are the frames in the stream, each over what earlier frames left in memory | |
| `CommandParser` | the parser as a process, with expired waits; refines `FrameGrammar` | `FrameParser`, `FrameGrammar` |
| `Steering` | what a control cycle computes: pulse widths and lights | |
| `Commands` | the commands and their effect on the drive | `Steering` |
| `AtomicControl` | abstract: commands as one step each, in order | `Commands` |
| `Tortilla` | the firmware at run time: interrupt, IO thread, control thread; refines `AtomicControl` | `Commands`, `AtomicControl` |
| `TimerService` | abstract: an armed timer fires after the delay asked for | |
| `VirtualTimers` | the delta list of the kernel's timers; refines `TimerService` | `TimerService` |
| `Scheduler` | ready list, wakeup, sleep, preemption and round robin as operators on the scheduler's state | |
| `TimedWaits` | threads that sleep or read from a queue with a time limit, the timer's callback, interrupts | `VirtualTimers`, `Scheduler` |
| `SpiBus` | threads that share SPI buses: locks with priority inheritance, exchanges, preemption | `Scheduler` |
| `IoQueues` | the circular buffers of the input and output queues as operators | |
| `Link` | abstract: bytes written leave once and in order; a byte on the line is taken once or missed, and read in order | |
| `Serial` | the serial driver: USART, interrupt handler, notification, a thread that reads and writes; refines `Link` | `IoQueues`, `Link` |
| `ControlPeriod` | how the control thread keeps its period: absolute sleeps on a counter that wraps around | |
| `ADS1259` | the word of the gyro's converter and what `read` makes of it | |
| `Calibration` | the calibration over a bus that can be disturbed or dead | `ADS1259` |
| `Boot` | from power-up or reset to the control loop, with the IO thread beside the calibration | `Calibration` |
| `ControlPeriodProofs` | theorems about `ControlPeriod` | `ControlPeriod`, TLAPS |
| `CommandParserProofs` | theorems about `CommandParser` | `CommandParser`, TLAPS |
| `TortillaProofs` | theorems about `Tortilla` | `Tortilla`, TLAPS |
| `BootProofs` | theorems about `ADS1259`, `Calibration` and `Boot` | `Boot`, TLAPS |
| `SerialProofs` | theorems about `IoQueues` and `Serial` | `Serial`, TLAPS |
| `SchedulerProofs` | lemmas about the operators of `Scheduler`, and about lists and queues | `Scheduler`, TLAPS |
| `SpiBusProofs` | theorems about `SpiBus` | `SpiBus`, `SchedulerProofs` |
| `TimedWaitsProofs` | theorems about `VirtualTimers` and `TimedWaits` | `TimedWaits`, `SchedulerProofs` |
| `MCCommandParser`, `MCTortilla`, `MCTimedWaits`, `MCSpiBus`, `MCSerial`, `MCBoot` | small instances for TLC | |

The models meet at the promises they make to each other. `Tortilla` takes the
queues as sequences of bytes, which is what `Link` promises and `Serial`
implements; it takes one wait to have one verdict and a full queue to block its
writer, which `TimedWaits` and `Serial` check; and it takes the control thread
to run when its sleep is over, which rests on `CurrentIsHighest` (`SpiBus`) and
`ImplementsTimerService` (`TimedWaits`). Its initial state is the one in which
`Boot` starts the IO thread. The properties of each model are stated so that
the others can rely on them; there is no single model of everything.

### How state and actions correspond to the code

`FrameParser` and `CommandParser`. A parser record holds the five locals of
`ioLoop` (lines 63-75), one operator per `case` of the switch. Bytes are their
numeric values and digits are stored as `c - 48`, as in the code.
`command_data` is uninitialized: `Init` takes any contents from `Junk`. An
expired wait (lines 79-89) leaves the parser alone. The command switch reads
fixed places of `command_data` (162-164, 193, 205), however many digits the
frame has brought; `Reads` says how many each opcode reads (9 for `m`, 4 for
`g`, 3 for `t`, none for `s`), and `Command` is what it reads. In `FrameGrammar`
there is no parser: `DigitAt` and `FrameAt` say of the stream alone that its
last byte is the k-th digit of a frame, or ends one. `memory` holds the last
digit that any frame, complete or broken off, brought to each place, and a
command takes its own digits where the frame has them and `memory` elsewhere.
The refinement maps `memory` to `command_data`, so a short frame is no
exception: `%bM4` executes with one digit of its own and the rest of before.

`Tortilla`. A byte that completes a frame is the frame; any other byte is
`Noise`. So an element of `inq` is a byte of the input queue together with
what the parser makes of it, and the parser's own behaviour is the subject of
`CommandParser`. The IO thread's place in the code is `ioPc`:

| `ioPc` | `ioLoop` |
|---|---|
| `wait` | in `chIOGetTimeout`, line 78 |
| `expired` | readied by the timer, has not run yet: a byte that comes now does not change the verdict |
| `theta` | in the `chprintf` of line 170, one step per byte put |
| `apply` | in lines 172-180 or 187-188; `todo` is the set of stores still to be done |
| `rpm` | in the `chprintf` of line 215 |

Each store of a command that the other thread can see is an action
(`StoreReversed`, `SetMode(1)`, `SetMode(2)`, `StoreThrottle`,
`StoreJoyAngle`, `StoreJoyMag`). The calls of `setMode` are ordered. The last
three stores of `m` are plain stores to unrelated fields with no barrier
between them, so the compiler may emit them in any order and the model allows
each. A control cycle from the answer of the gyro to the second `setWidth` is
one step: it never blocks in between and no thread of the firmware preempts
it. `oq` counts the bytes in the output queue; the contents of a report matter
to no property, its length does (`ThetaReply`, `RpmReply`). `Init` is the
state in which `main` starts the IO thread, with any number of boot diagnostics
still in the output queue.

`silence` is the only history variable of `Tortilla`: the waits that have
expired since the last byte, counted up to `IO_FREQ`.

`Steering` works in hundredths of a degree and in 1/500 of full deflection, so
`max(0.05 rad, joyMag * pi/30)` is the comparison of `InSlip`; rounding of the
floats at the edge of a sector is abstracted. `Throttle` is the integer
arithmetic of line 176. `Spins` is the range of line 164 over digits that may
be uninitialized bytes (255): -500 to 27805.

`Scheduler`. An operator per function of `chschd.c`, each of which runs under
the kernel lock, on a record `k` with the fields of `rlist` and of the
threads. The ready list does not hold the running thread. `IrqEpilogue` is
`_port_irq_epilogue` with the switch it may request. `Started` is the record
when all threads have been created, the first of them running.

`TimedWaits`. A thread runs only as `currp`, with `isr` false. From the moment
it is switched in until the end of its loop in `chIQGetTimeout` it has the
kernel lock (`Locked`), so no interrupt falls between the switch, `Resume` (the
part of `chSchGoSleepTimeoutS` behind it) and `GetAgain` (the next test of the
loop). `Tick` is the whole of `chSysTimerHandlerI`: the quantum, the delta list
and the callback `wakeup` of every timer that is due, in the order of the list
(`Called`, the loop of `chVTDoTickI`).
`Put` is `chIQPutI` from the serial interrupt. `isr` is true from the first
interrupt to the epilogue of the outermost one; several interrupts may come
before it. A reader whose byte was taken by another waits its full time again,
as in the code.

`SpiBus`. What threads do with a bus is the sequence of `A4960::writeReg` and
`ADS1259::read`, `writeReg` and `start`: acquire, exchange any number of times,
perhaps sleep (`start` does so with the bus held), release. In the firmware
each bus has one user once the loop runs; the model lets several threads
contend for several buses, acquired in a fixed order, since that is what the
lock is for. `chMtxLockS` on a taken mutex is three actions under the kernel
lock (`Unlocked` is false, so no other action falls between them): `AcquireTaken`
finds the owner, `Inherit` is one round of the loop with `tp` for its variable,
`SleepOnMutex` is what is behind the loop. A thread that computes takes no step,
so a schedule in which it computes for ever is among the behaviours.

`IoQueues`. `[buffer, rdptr, wrptr, counter]`; a byte that has been read leaves
`Stale`, so that reading a place twice shows.

`Serial`. `usart` holds the flags and data registers of the device with the two
enable bits of CR1 that the driver changes. The handler is one step per
register access that the device can come between: `Enter` reads CR1 and SR,
`Incoming` reads DR and does all that follows from it, `Outgoing` refills DR or
changes the enable bits, `EndOfTransmission` writes CR1 from the copy,
`ReadFlags` and `WriteFlags` are `u->SR &= ~USART_SR_TC`. `Arrive`, `Load` and
`ShiftOut` are the device. An overrun that arises between the reads of SR and DR
may or may not be cleared by the latter, so both are allowed. A thread runs only
when the handler does not, so `Get` and `Put` are one step, including the
notification, except for a wait in between. `Call` is the thread's call of one
of the two; `waiting` says that it is in `q_waiting`. `busy` says that `wire` is
on its way through the shift register. A copied flag that the handler does not
look at again is taken for clear, and DR for `Stale` once it has been read.

`Link` has no choice where the driver has none. A byte that arrives stands on
the `line` until it is taken, once, or missed (`Line` is RXNE with DR): a
handler that enqueued a byte and left it in DR would append to `in` and keep
`line`, which no action of `Link` does, and one that enqueued it twice would
append two. A byte is written, read or given up only by the call that is open
(`user`), so a call cannot write twice.

`Boot`. `phase`, `motor` and `addr` are the main thread's place in the
constructors of the two motor drivers and behind them. A register holds
`reset`, `config` (the value of `A4960::config`) or `running` (`config` with
the RUN bit). `BootInit` allows for drivers that were running when the
processor was reset. `Calibrate` is a step of `Calibration` beside the IO
thread's `SetMode` and `StoreThrottle`; `commanded` is a history variable.

`VirtualTimers`. `vtlist` is the linked list without its header, each element
with its `vt_time`; `vt_func` says which timers have a callback. The search of
`chVTSetI` needs no end test because the header holds the greatest time; here
it stops at the header's place. The callbacks of the kernel do nothing but make a thread
ready, so a tick with all the callbacks that are due is one step. `fired` and
`asked` are history variables: the timers that have fired, and the delay that
was passed to `chVTSetI` for each timer that is armed. `TimerService` states the
promise: `Arm(t, d)` gives the timer that is asked for `d` exactly `d` ticks,
each tick takes one from every timer by itself, and the timer fires with the
last. The refinement maps `remaining` to the sum of the deltas up to the timer
and `asked` to itself, so a timer linked with a delta that is off by anything,
at the tail of the list too, is no step of `TimerService`.

`ControlPeriod`. `EndCycle` is `ticks += LOOP_DELAY; chThdSleepUntil(ticks)`
with everything called below it: the unsigned difference, the comparison with
zero, and the rule of `chSchGoSleepTimeoutS` that the greatest time means no
timer. `timer` is the timer that `TimerService` promises. `Plus` and `Minus`
are the unsigned arithmetic of C, for arguments in the counter's range.
`elapsed` and `lead` are history variables: the ticks since the cycle began,
and the distance to the schedule an ideal loop would keep.

`ADS1259` and `Calibration`. `Transmitted` is the word of the converter
(two's complement, big-endian, checksum), `Reading` and `Accepted` are the
two results of `read`. `Received` is what can arrive: the word, the word with
one byte disturbed, or the constant word of a bus that nobody drives. The
checksum has seven bits, so a disturbance by exactly 128 goes unseen;
`ErrorAssumption` names that limit. `sleep` is how the thread waits for the next
reading: a reading that ends `n` ticks after it was due makes
`chThdSleepUntil` sleep `1 - n` ticks in unsigned arithmetic, which is none for
one tick, TIME_INFINITE for two, and something that ends otherwise (`Sleep`,
`Wake`); the next reading is due at the deadline, so lateness is not carried
on. A division by no readings at all leaves
any value of `Undefined`. `low` and `high` are history variables: the extremes
of what the gyro measured at rest.

### Fairness

`ThreadFairness` is weak fairness of the IO thread's next step and of the
control thread's steps. The control thread sleeps to its next deadline in
every cycle (line 140) and waits for nothing that the IO thread holds, so it
runs; the IO thread has the lowest priority but the one above it sleeps, so it
runs too. This assumes that a cycle is finished before its deadline;
`ControlPeriod` shows that the loop then sleeps to the next one, and
`OverrunOneTick` what becomes of it otherwise.
`PeerFairness` says that the peer keeps reading its end of the link (asserts
CTS). It is an assumption on the environment, used only where named: it is a
hypothesis of `SilenceStopsIfServed` and `StopTakesEffect`, `MotorsReagree` and
`MotorsComeToRest` do without, and `FailsafeBlocked` shows what is lost without
it. Nothing is assumed of arriving bytes.
`ControlPeriod` has weak fairness of `TickAsleep`, because the timer interrupt never
stops, and of `EndCycle`, because a cycle blocks on nothing but its sleep.
`TimedWaits`: ticks go on for ever; a thread that has the kernel lock gives it
back; interrupts end. Nothing is assumed of bytes, nor that a thread that has
left the kernel calls it again.
`SpiBus`: ticks go on, interrupts and the loop of `chMtxLockS` end, every DMA
transfer ends, a sleep with a bus held is one of limited time (`[]<>` of the
state without it); and strong fairness of `ReleaseBus`: a
thread that is given the processor again and again while it has a bus releases
it in the end, because the functions between acquire and release are loop-free.
`Serial`: the handler is entered when requested and runs to its end, the
device finishes the byte it has begun, and a writer that is woken again and
again takes its place in the queue in the end. Whether the peer asserts CTS
(`Load`) is a hypothesis of `WriterGoesOn`.
`Boot`: the main thread goes on when it can; that the peer takes bytes is a
hypothesis of `ReachesLoop`, and so is that no reading of the calibration ends
one tick late (`sleep # "forever"`), since the thread then sleeps without a
timer and the boot ends there. `OverrunOneTick` is that sleep.

## 3. The runs

| Run | Expect | What it shows |
|---|---|---|
| `CommandParser` | pass | `TypeOK`: the digit index never leaves the buffer. `StreamMatches`: header and stored digits are the last bytes received. `ImplementsGrammar`: exactly the complete frames are executed, with their own digits and, where a frame is shorter than what its command reads, those that earlier frames left |
| `Tortilla` | pass | `SpinsAsCommanded`, `DivergeOnlyBetweenWrites`, `SpeedRaisedLast`: what the motors are told at every interleaving point. `FailsafeHolds`. `TypeOK`: ranges hold for the most extreme spins. `ImplementsAtomicControl`: the refinement |
| `TortillaLive` | pass | `SilenceStopsIfServed`, `StopTakesEffect` with a reading peer; `MotorsReagree`, `MotorsComeToRest` with no help from it |
| `ControlPeriod` | pass | `OnSchedule`: no drift and no oversleeping, across the wrap-around of the counter. `CyclesGoOn` |
| `TimedWaits` | pass | `ListWellFormed`, `ImplementsTimerService`: every timer fires after exactly the delay it was armed with, whatever is armed, disarmed or fires around it. `VerdictStands`, `NoLostWakeup`, `TimerMatchesWait`: a byte and a timer that race for a thread. `WaitsEnd` |
| `Boot` | pass | `CalibratesAtRest`, `ModeStands`: what a reset leaves in the drivers and what is commanded early. `BiasWithinMeasured`: no disturbance, transient, sign or rounding takes the bias, less its offset, outside what the gyro gave at rest. `ReachesLoop` |
| `SpiBus` | pass | `CurrentIsHighest`, `QueuesOrdered`, `InheritsExactly`, `ExchangeIsOwners`: scheduler, locks and driver agree through every chain of owners. `TypeOK`: so do their lists. `UrgentGetsBus`: no unbounded priority inversion. `UrgentTakeTurns`: round robin |
| `Serial` | pass | `ImplementsLink`: once and in order, in both directions. `OutputArmed`, `WaitsForCause`: no output and no thread is forgotten. `NoInterruptStorm`, `WriterGoesOn` |
| `FailsafePulses` | violation | the "failsafe stop" leaves translation pulses on |
| `FailsafeBlocked` | violation | a peer that stops reading disables the failsafe |
| `SerialLoss` | violation | a byte that arrives between two register accesses of the handler is lost without a flag |
| `OverrunOneTick` | violation | a thread whose deadline comes round does not wake, contrary to the comment of `chThdSleepUntil` |

### Bounds

* `CommandParser`: `%`, the length letters `a` (no digits announced) and `b`
  (one), which are opcodes too, an upper-case opcode and a digit; other bytes
  fall into the default of every case, as an upper-case letter does where a
  length is due and a digit where `%` is due. `M` reads the whole buffer, `b`
  one digit and `a` none (`MCReads`), so there are frames shorter and longer
  than what their command reads. `BufferSize = 3` instead of 27, streams of up to
  nine bytes (`MaxBytes`): a frame of three digits (`%aM444`), or one broken off,
  has room for a short one behind it. One digit is enough to show a wrong
  place, since `Junk` differs from it; the proof has any digits. 4.9 million
  states.
* `Tortilla`: three moves with the extremes of spin (27805 from a short frame,
  -500) and the -1 case, the stick full, centred and between; both trims;
  headings on and opposite the stick and a rate that moves the pulses.
  `IO_FREQ = 2`, so that the failsafe trips and starts over. A queue of one holds a
  command behind the one under execution and drops the next byte; a report of
  two bytes blocks in its middle in an output queue of one. Larger values add
  states of the same kinds; the proofs hold for all of them.
* `TortillaLive`: an input queue of two, so that a STOP waits behind another
  command; two moves, no trims, a gyro at rest: trims and rate only turn the pulses.
* `PWM_PERIOD = 4200` is the board's value (84 MHz / 20 kHz).

* `TimedWaits`: three timers are enough for one to be before, at and behind the
  place of insertion or removal; `TimeMod = 5` with the delays 1, 3 and 4, of
  which 4 is `TIME_INFINITE`: with ticks in between, timers have one, two or
  three ticks left, so all three can be different or some equal. Two readers of
  equal and one of higher priority, so that a byte can be taken before the
  reader it woke runs; a queue of two, so that a byte comes while one is there.
  0.6 million states.
* `SpiBus`: four threads and two buses let one thread wait for a bus in a queue
  beside another one while it has the bus that the most urgent one waits for, so
  that the inherited priority changes its place in that queue. Two assignments
  of priorities: all different, and two threads equal at the top.
* `Serial`: two different bytes come in and two go out, so that order, loss and
  duplication show in both directions; an output queue of two and an input queue
  of one wrap around, are full and empty, and with the data registers of the
  device there are three bytes on their way out and two on their way in. The
  proofs have any size and any bytes. 0.7 million states.
* `ControlPeriod`: `TimeMod = 40` is not a multiple of the period 3, so the
  counter wraps around in every phase of a cycle; a cycle may last anything up
  to the period (`MaxElapsed = 3`). `OverrunOneTick` has the code's own period
  of one tick and lets a cycle take two.
* `Boot`: two motors with all eight registers, a line of three bytes into a
  queue of two; five readings of which the first is not settled; conversions
  of both signs and at both ends of the range; disturbances of one and of all
  but one of what the checksum tells apart; readings that end in time, on the
  next deadline, one tick after it and two.

## 4. What is proved

`TortillaProofs` proves, for every value of the constants that satisfies the
assumptions named in the modules (finite ranges for the frames' fields,
positive queue capacities and reply lengths, `PWM_PERIOD >= 30`):

* `TypeCorrect`, `SpinsCorrectly`, `MotorsAgree`, `Failsafe`: the four
  invariants of the run `Tortilla`;
* `SpeedLast`: the action property `SpeedRaisedLast`;
* `Refinement`: `Spec => ImplementsAtomicControl`.

The invariants are not inductive. `DivergeOnlyBetweenWrites`, for one, needs to
know which stores are outstanding in which place of the program, and that the
motor drivers agreed when the command began. The strengthening `Inv`
(in `Tortilla`) is

* `ProgramOrder`: the place of the IO thread and its outstanding stores agree;
* `PartlyDone`: the stores already done carry the values of the command;
* `Settled`: before the first store and after the last one the motors agree,
  and a spinning robot runs as `reversed` says;
* `StopSettled`: STOP, which stores no `reversed`, starts from motors that agree;
* `SilenceCounted`: `timeout_counter` is the length of the silence until the
  failsafe has acted, and afterwards the throttle is zero.

`TypeStep`, `OrderStep`, `ValuesStep` and `SilenceStep` prove that every step
preserves these parts, one step of the proof per action; `NextInv` puts them
together. Steps of the interrupt and the control thread are handled together
(`OutsideLeaves`): they leave what the IO thread works on unchanged, which is
the reason the firmware can do without a lock.

The refinement maps the object to the drive as it will be when the outstanding
stores of the command have been done (`Committed`). Taking the last byte of a
frame from the queue is the abstract `Execute`, a store changes nothing that
the abstract specification sees, an expired wait is `Expire`, and everything
else stutters.

`CommandParserProofs` proves, for every buffer size of at least two, every
alphabet of bytes and every initial content of the buffer:

* `TypeCorrect`: the digit index never leaves `command_data`, and what is stored
  and executed are bytes;
* `StreamMatched`: what the parser has stored are the last bytes received;
* `Refinement`: `Spec => ImplementsGrammar`, it executes exactly the complete
  frames of the byte stream, however long the stream, whatever was broken off
  before and however many digits each opcode reads, with the frame's own digits
  and, beyond them, what earlier frames left.

Neither `StreamMatches` nor the refinement is inductive: the first says what
the stream is when the parser is somewhere, the second needs the reverse, that
a stream that ends in an unfinished frame has the parser in that frame. `Inv`
(in `CommandParser`) adds to `TypeOK` the relation `Tracks` between parser and
stream in both directions. `Appended` and the `Begun` lemmas say how the end of
a stream changes with one byte; `TracksResync`, `TracksLength`, `TracksOpcode`
and `TracksData` prove the step of each case of the switch; `CommandRead` and
`FrameSeen` tie a completed frame to the abstract `Deliver`. `MemoryStep` shows
that the buffer changes just as the abstract memory does: the byte that is
stored at a place is the one that is a digit of some frame there.

`ControlPeriodProofs` proves, for every width of the counter, period and
starting time, as long as no cycle takes longer than its period
(`MaxElapsed <= LOOP_DELAY`, the hypothesis of the theorems):

* `Scheduled` and `TypeCorrect`: the invariants of the run `ControlPeriod`. The
  strengthening `Inv` says that the deadline is ahead of the clock by exactly
  the sleep that is left, or behind it by the part of the cycle that is over;
  `SleepLength` shows that the unsigned difference is then the true one;
* `OverrunSleepsForever`: the hypothesis is needed. A cycle that ends one tick
  after its next deadline gets the difference -1, which is `TIME_INFINITE`, and
  goes to sleep without a timer.

`BootProofs` proves of the calibration, for every number of readings, all
conversions and all disturbances within `ErrorAssumption`:

* `ReadCorrect`: `read` accepts every intact word, and whatever word it accepts
  it returns the conversion (of all 2^24). `Decodes` is the sign extension,
  `DisturbedRejected` and `DeadRejected` are the checksum;
* `BiasCorrect`: `Calibration!Spec => []BiasWithinMeasured`. The strengthening is
  `SumBetween`: the sum lies between as many times the extremes as there are
  readings in it, whence the truncated average lies between the extremes
  (`TruncatedBetween`). The property is of the bias less the offset of 1100 that
  line 71 adds.

and of the boot, for every line length, queue size and set of throttles as well:

* `AtRestWhileCalibrating` and `ModesStand`: `CalibratesAtRest` and
  `ModeStands`. Neither is inductive; the strengthening `BootInv` says which
  registers have been configured at each place of the main thread (`Done`),
  which channels are enabled, and that nobody else writes before the IO thread
  runs;
* `BootBiasCorrect`: the invariant of `Calibration` survives the rest of the boot.

`SerialProofs` proves, for every size of the queues and all sets of bytes:

* `InputQueueIsFifo`, `OutputQueueIsFifo`: the circular buffers are sequences.
  The arithmetic of the wrap-around is in lemmas of its own;
* `OutputStaysArmed` and `NoWakeupLost`: the invariants of the run `Serial`,
  from `SerialInv` (`SerialInvariance`). It adds to the type invariant that
  the handler's copies say something true of the registers as long as they are
  used (`Shown`: a flag seen set is still set, the copied TXEIE is that of the
  register until it is changed), that inside the handler, too, queued output will
  be asked for (`Armed`), and what the thread waits for (`Waits`);
* `DriverImplementsLink`: `Spec => ImplementsLink`. Every action is shown to be
  one step of `Link` or to leave its variables unchanged:
  `DeviceRefines`, `IncomingRefines`, `OutgoingRefines`, `EndRefines`,
  `ReaderRefines`, `WriterRefines`. `OutgoingRefines` needs `Shown`: were the
  transmit buffer not empty the byte in it would be overwritten.

`SpiBusProofs` proves, for every finite set of threads, every set of buses and
all priorities in which the idle thread is the lowest:

* `TypeCorrect`, `HighestPriorityRuns`, `QueuesInOrder`, `InheritanceExact`,
  `ExchangesOwned`: the five invariants of the run `SpiBus`.

None is inductive alone. `InheritsExactly` in particular is false while the loop
of `chMtxLockS` is on its way along the chain of owners. `BusInv` replaces its
maximum by two facts of each thread: `Bounded`, no thread that waits for it has
a higher priority, and `Earned`, its priority is its own or that of a waiter. The
thread the loop looks at next (`tp`) is the only exception: it may lack just the
priority of the running thread, and that is what one round of `Inherit` gives it,
so the exception moves up the chain and is gone when the loop ends
(`InheritStep`, `SleepOnMutexStep`). Nowhere is it needed that the chain has no
cycle. `ReleaseTakenStep` uses `Earned` of the releasing thread: what it loses
is the priority of a waiter, so the new owner, the head of that queue, has it.
`RaiseKeeps` is what a raised priority does to the ready list.

`SchedulerProofs` holds what both users of the scheduler need. Each operator of
`Scheduler` keeps `SchedInv` (the ready list holds the threads that are ready,
each once and in order, one thread runs, the idle thread is not stopped) and
says which thread it stops or starts: `StartedKeeps`, `ReadyIKeeps`,
`GoSleepKeeps`, `WakeupKeeps`, `EpilogueKeeps`, `TickKeeps`. They rest on what
`PrioInsert` and the removal of a thread do to a list in order (`QueueInsert`,
`QueueRemove`, `QueueTail`). `UpTo` is induction over an interval, stated of a
set instead of a formula: `S` contains 0, and with `n` also `n + 1`.

`TimedWaitsProofs` proves, for every finite set of threads, all priorities,
delays and capacities and every width of the counter:

* `TimersWellFormed`, `WakeupsKept`, `TimersMatch`: the invariants of the run
  `TimedWaits`;
* `VerdictsStand`: its action property `VerdictStands`;
* `TimersImplement`: `Spec => ImplementsTimerService`, every timer fires when the
  time has advanced by exactly the delay passed for it. `TimersAlone` says the
  same of any other client of the timers (`TimersSpec`): that none is armed twice is
  all they ask for.

The delta list first. `Deadline`, the sum of the first deltas, is a recursive
function: `SumsExist` shows that there is one, `DeadlineDef` that it obeys its
equation, and `DeadlineUnique` that whatever adds up the deltas is it. So each
operation on the list is described by a table of the new deadlines in terms of
the old ones (`ArmedSums`, `DisarmedSums`, `AgedSums`, `RestSums`), and that
table is checked one element at a time. From the tables follow, without
induction, that the list stays `Sound` and what happens to the time that is
left (`InsertedSound`, `RemovedSound`, `TickedSound`). `Sound` is inductive
because the modular subtraction and addition never wrap: the search stops in
front of the first deadline that is not earlier (`PlaceIsBetween`), and a sum
of two neighbours is a difference of deadlines.

Then the waits. A tick is a loop over the due timers, and the threads may be
stopped for different reasons or be ready already. `CalledWakes` gives its
result in closed form, by `UpTo`: a thread that is due runs again, and its
verdict is `TIMEOUT` exactly if it was stopped. `WaitInv` then needs for each
thread (`WaitOf`) that it is stopped only inside a wait, which has its timer if
it has a limit, that a timer is armed only inside such a wait, and that a
thread that looks for its byte again has the lock; that `q_waiting` holds just
the threads that are stopped in it; and that interrupts find nobody inside the
lock. The last is why a timer that is due is never the running thread's.
`NoLostWakeup` is a count of threads: `Put` adds the head of the queue to those
on the way, a reader that takes a byte leaves them with its byte, one that must
wait again does so only when there is none, and a time that is up takes nobody
from them, since `wakeup` leaves a thread alone that has been readied
(`PutStep`, `GetStep`, `TickStep`).

Only model-checked, because the prover does not handle fairness:
`SilenceStopsIfServed`, `StopTakesEffect`, `MotorsReagree`, `MotorsComeToRest`,
`CyclesGoOn`, `WaitsEnd`, `UrgentGetsBus`, `UrgentTakeTurns`, `NoInterruptStorm`,
`WriterGoesOn`, `ReachesLoop`.

## 5. Disagreements between code and comments

The violation runs above; each is a finding of `PROJECT.json` with the quoted
comment. In short: the failsafe zeroes the throttle but not the stick, so
translation pulses go on; it is in the thread that blocks on the reports;
`chThdSleepUntil` sleeps on past a time that has arrived (one cycle of the
control loop that is a tick too late, at a period of one tick, is the last
one, and so is one reading of the calibration); and the serial driver can lose a
byte that no flag tells of.

Three more need no model to be seen: the failsafe acts after fifteen waits of
100 ms where its comment says one second (`Tortilla_io.cpp` 45-46, 83); it
counts any byte, not any command, as communication (line 92); and the time-out
branch, which "clears the buffer" according to its comment (line 80), keeps it.

## 6. Not modelled

* The rest of the ChibiOS kernel: semaphores, events, messages, mailboxes,
  condition variables, heap, pools, registry, dynamic threads. It is linked and
  not called; the serial driver sets event flags that nobody waits for.
* Functions of the modelled parts that have no caller: `chMtxTryLock`,
  `chMtxUnlockS`, `chMtxUnlockAll`, `chThdSetPriority`, `chThdYield`,
  `chTimeIsWithin`, `chIQResetI`, `chOQResetI`, `sdStop`, `A4960::readReg`,
  `Tortilla::watchLoop`; the input capture unit, whose values are never read.
* The characters of reports and diagnostics (`chprintf`, `snprintf`): only their
  number matters, since a full queue holds their writer. By reading: the rate
  is announced with four digits and printed with five above 9999 rpm, which the
  full range of the converter would allow.
* Receive errors other than overrun (noise, framing, parity, break): they set
  flags that nobody reads.
* The low level of SPI, DMA, PWM, ICU and PAL drivers and the start of the HAL:
  register writes with no state that another part looks at. A pulse width, a
  light and a completed exchange are what is seen of them.
* The float arithmetic of the heading (rate, filter, trapezoid): the heading is
  any member of a set in `Tortilla`.
* Interrupts of different priorities nest in the code. The kernel's part of
  each is under a lock, so the models have one flag `isr` and one epilogue; that
  a handler of low priority is interrupted between two register accesses is
  in `Serial`, where it matters.
* `src/ChibiOS` holds ports, drivers and device headers for many other
  processors, tests and demos; the firmware builds none of them.

## 7. What could follow

1. The byte-level parser and the decoding of digits composed with `Tortilla`,
   so that `Noise` becomes a theorem instead of an abstraction.
2. `Tortilla` over `Serial` in place of its sequences, by the refinement proved.
3. A tick with callbacks that are not `wakeup`, should the firmware get one:
   `CalledWakes` holds of this callback only.
