------------------------------- MODULE Serial ------------------------------
(***************************************************************************)
(* The serial driver (serial.c, STM32/serial_lld.c) between the thread     *)
(* that reads and writes and the USART.  The interrupt handler is taken    *)
(* register access by register access, because the USART goes on while it  *)
(* runs, and so may interrupts of higher priority; a thread runs only when *)
(* the handler does not.                                                   *)
(***************************************************************************)
EXTENDS IoQueues

CONSTANTS Received,   \* the bytes that the peer sends
          Written,    \* the bytes that the thread writes
          InSize,     \* SERIAL_BUFFERS_SIZE of the input queue
          OutSize     \* and of the output queue

ASSUME SerialAssumption ==
    InSize \in Nat \ {0} /\ OutSize \in Nat \ {0} /\ Stale \notin Received \cup Written

VARIABLES usart,      \* the registers and flags of the device
          wire,       \* the byte that is sent to the peer, or was sent last
          iqueue, oqueue, overrun,   \* SerialDriver; overrun is SD_OVERRUN_ERROR in flags
          isr, cr1, sr,              \* serve_interrupt: place and locals
          io, waiting, got           \* the thread: place, queued in q_waiting, byte read last

vars == <<usart, wire, iqueue, oqueue, overrun, isr, cr1, sr, io, waiting, got>>
hardware == <<usart, wire>>
handler == <<isr, cr1, sr>>
thread == <<io, waiting, got>>

\* No copy of a register: the locals of the handler outside it.  Within it a
\* flag that the handler does not look at again is taken for clear.
NoCr1 == [TXEIE |-> FALSE]
NoSr == [RXNE |-> FALSE, ORE |-> FALSE, TXE |-> FALSE, TC |-> FALSE]

Init ==
    /\ \E tc \in BOOLEAN :
          usart = [RXNE |-> FALSE, ORE |-> FALSE, RDR |-> Stale,
                   TXE |-> TRUE, TC |-> tc, TDR |-> Stale, busy |-> FALSE,
                   TXEIE |-> FALSE, TCIE |-> FALSE]
    /\ wire \in Written /\ got \in Received
    /\ iqueue = IQInit(InSize) /\ oqueue = OQInit(OutSize) /\ overrun = FALSE
    /\ isr = "idle" /\ cr1 = NoCr1 /\ sr = NoSr
    /\ io = "run" /\ waiting = FALSE

----------------------------------------------------------------------------
(* The USART and the peer                                                  *)

\* A byte arrives; if the last one has not been read it is lost.
Arrive(b) ==
    /\ IF usart.RXNE
       THEN usart' = [usart EXCEPT !.ORE = TRUE]
       ELSE usart' = [usart EXCEPT !.RXNE = TRUE, !.RDR = b]
    /\ UNCHANGED <<wire, iqueue, oqueue, overrun, handler, thread>>

\* The peer asserts CTS and the next byte moves into the shift register.
Load ==
    /\ ~usart.TXE /\ ~usart.busy
    /\ wire' = usart.TDR
    /\ usart' = [usart EXCEPT !.busy = TRUE, !.TXE = TRUE, !.TDR = Stale]
    /\ UNCHANGED <<iqueue, oqueue, overrun, handler, thread>>

\* A byte is complete; transmission ends if no other is there.
ShiftOut ==
    /\ usart.busy
    /\ usart' = [usart EXCEPT !.busy = FALSE, !.TC = @ \/ usart.TXE]
    /\ UNCHANGED <<wire, iqueue, oqueue, overrun, handler, thread>>

----------------------------------------------------------------------------
(* serve_interrupt                                                         *)

Flags == [RXNE |-> usart.RXNE, ORE |-> usart.ORE, TXE |-> usart.TXE, TC |-> usart.TC]

Requested ==
    \/ usart.RXNE \/ usart.ORE
    \/ usart.TXEIE /\ usart.TXE
    \/ usart.TCIE /\ usart.TC

\* CR1, which only software changes, and SR are copied.
Enter ==
    /\ isr = "idle" /\ Requested
    /\ isr' = "rx"
    /\ cr1' = [TXEIE |-> usart.TXEIE]
    /\ sr' = Flags
    /\ UNCHANGED <<hardware, iqueue, oqueue, overrun, thread>>

\* Mutation: the thread that waits for input is not readied.
IncomingSilent ==
    /\ isr = "rx" /\ isr' = "tx"
    /\ \E ore \in (IF sr.ORE THEN {FALSE} ELSE {usart.ORE}) :
          usart' = [usart EXCEPT !.RXNE = FALSE, !.RDR = Stale, !.ORE = ore]
    /\ iqueue' = IF sr.RXNE /\ ~IQIsFull(iqueue) THEN IQPut(iqueue, usart.RDR) ELSE iqueue
    /\ overrun' = (overrun \/ sr.ORE \/ (sr.RXNE /\ IQIsFull(iqueue)))
    /\ sr' = [sr EXCEPT !.RXNE = FALSE, !.ORE = FALSE]
    /\ UNCHANGED <<wire, oqueue, cr1, thread>>

\* Mutation: DR is not read when the byte is stored, and RXNE stays set.
IncomingUnread ==
    /\ isr = "rx" /\ isr' = "tx"
    /\ usart' = [usart EXCEPT !.ORE = @ /\ ~sr.ORE]
    /\ LET accepted == sr.RXNE /\ ~IQIsFull(iqueue)
       IN  /\ iqueue' = IF accepted THEN IQPut(iqueue, usart.RDR) ELSE iqueue
           /\ waiting' = (waiting /\ ~(io = "get" /\ accepted))
    /\ overrun' = (overrun \/ sr.ORE \/ (sr.RXNE /\ IQIsFull(iqueue)))
    /\ sr' = [sr EXCEPT !.RXNE = FALSE, !.ORE = FALSE]
    /\ UNCHANGED <<wire, oqueue, cr1, io, got>>

\* Reading DR resets RXNE, and an ORE that SR has shown.  Then set_error and,
\* if SR has shown RXNE, sdIncomingDataI: a thread that waits for input is
\* readied.
Incoming ==
    /\ isr = "rx" /\ isr' = "tx"
    /\ \E ore \in (IF sr.ORE THEN {FALSE} ELSE {usart.ORE}) :
          usart' = [usart EXCEPT !.RXNE = FALSE, !.RDR = Stale, !.ORE = ore]
    /\ LET accepted == sr.RXNE /\ ~IQIsFull(iqueue)
       IN  /\ iqueue' = IF accepted THEN IQPut(iqueue, usart.RDR) ELSE iqueue
           /\ waiting' = (waiting /\ ~(io = "get" /\ accepted))
    /\ overrun' = (overrun \/ sr.ORE \/ (sr.RXNE /\ IQIsFull(iqueue)))
    /\ sr' = [sr EXCEPT !.RXNE = FALSE, !.ORE = FALSE]
    /\ UNCHANGED <<wire, oqueue, cr1, io, got>>

\* Transmission buffer empty: the next byte, or no more such interrupts but
\* one when transmission ends.
Outgoing ==
    /\ isr = "tx" /\ isr' = "tc"
    /\ IF ~(cr1.TXEIE /\ sr.TXE) THEN UNCHANGED <<usart, oqueue, waiting>>
       ELSE IF OQIsEmpty(oqueue)
       THEN /\ usart' = [usart EXCEPT !.TXEIE = FALSE, !.TCIE = TRUE]
            /\ UNCHANGED <<oqueue, waiting>>
       ELSE /\ oqueue' = OQGet(oqueue)
            /\ usart' = [usart EXCEPT !.TDR = Next1(oqueue), !.TXE = FALSE, !.TC = FALSE]
            /\ waiting' = (waiting /\ io # "put")
    /\ sr' = [sr EXCEPT !.TXE = FALSE]
    /\ UNCHANGED <<wire, iqueue, overrun, cr1, io, got>>

\* Mutation: both transmitter interrupts are disabled at the end.
EndOfTransmissionBoth ==
    /\ isr = "tc"
    /\ isr' = IF sr.TC THEN "clear" ELSE "idle"
    /\ usart' = IF sr.TC THEN [usart EXCEPT !.TXEIE = FALSE, !.TCIE = FALSE] ELSE usart
    /\ cr1' = NoCr1 /\ sr' = NoSr
    /\ UNCHANGED <<wire, iqueue, oqueue, overrun, thread>>

\* Transmission has ended: CR1 is written from the copy made on entry.
EndOfTransmission ==
    /\ isr = "tc"
    /\ isr' = IF sr.TC THEN "clear" ELSE "idle"
    /\ usart' = IF sr.TC THEN [usart EXCEPT !.TXEIE = cr1.TXEIE, !.TCIE = FALSE] ELSE usart
    /\ cr1' = NoCr1 /\ sr' = NoSr
    /\ UNCHANGED <<wire, iqueue, oqueue, overrun, thread>>

\* SR &= ~TC reads the flags ...
ReadFlags ==
    /\ isr = "clear" /\ isr' = "write"
    /\ sr' = [NoSr EXCEPT !.RXNE = usart.RXNE]
    /\ UNCHANGED <<hardware, iqueue, oqueue, overrun, cr1, thread>>

\* Mutation: TC is not cleared.
WriteFlagsKeeping ==
    /\ isr = "write" /\ isr' = "idle"
    /\ usart' = [usart EXCEPT !.RXNE = @ /\ sr.RXNE, !.RDR = IF sr.RXNE THEN @ ELSE Stale]
    /\ sr' = NoSr
    /\ UNCHANGED <<wire, iqueue, oqueue, overrun, cr1, thread>>

\* ... and writes them: a zero resets RXNE or TC, a one does nothing.
WriteFlags ==
    /\ isr = "write" /\ isr' = "idle"
    /\ usart' = [usart EXCEPT !.RXNE = @ /\ sr.RXNE, !.RDR = IF sr.RXNE THEN @ ELSE Stale,
                               !.TC = FALSE]
    /\ sr' = NoSr
    /\ UNCHANGED <<wire, iqueue, oqueue, overrun, cr1, thread>>

Handler ==
    \/ Enter \/ Incoming \/ Outgoing
    \/ EndOfTransmission \/ ReadFlags \/ WriteFlags

----------------------------------------------------------------------------
(* The thread                                                              *)

\* The thread calls a function of the driver.
Call ==
    /\ isr = "idle" /\ io = "run"
    /\ io' \in {"get", "put"}
    /\ UNCHANGED <<hardware, iqueue, oqueue, overrun, handler, waiting, got>>

Runs(place) == isr = "idle" /\ io = place /\ ~waiting

\* chIQGetTimeout: one round of its loop.
Get ==
    /\ Runs("get")
    /\ IF IQIsEmpty(iqueue)
       THEN waiting' = TRUE /\ UNCHANGED <<iqueue, io, got>>
       ELSE /\ got' = Next1(iqueue) /\ iqueue' = IQGet(iqueue)
            /\ io' = "run" /\ UNCHANGED waiting
    /\ UNCHANGED <<hardware, oqueue, overrun, handler>>

\* Its time is over before a byte came.
GetTimedOut ==
    /\ io = "get" /\ waiting
    /\ io' = "run" /\ waiting' = FALSE
    /\ UNCHANGED <<hardware, iqueue, oqueue, overrun, handler, got>>

\* chOQPutTimeout without a time limit, with notify.
Put(b) ==
    /\ Runs("put")
    /\ IF OQIsFull(oqueue)
       THEN waiting' = TRUE /\ UNCHANGED <<usart, oqueue, io>>
       ELSE /\ oqueue' = OQPut(oqueue, b)
            /\ usart' = [usart EXCEPT !.TXEIE = TRUE]
            /\ io' = "run" /\ UNCHANGED waiting
    /\ UNCHANGED <<wire, iqueue, overrun, handler, got>>

Next ==
    \/ Load \/ ShiftOut \/ Handler \/ Call \/ Get \/ GetTimedOut
    \/ (\E b \in Received : Arrive(b)) \/ (\E b \in Written : Put(b))

Spec == Init /\ [][Next]_vars

\* The handler runs to its end and is entered when requested; what the device
\* has begun it completes.  A thread takes the byte it has been woken for.
Progress ==
    /\ WF_vars(Handler) /\ WF_vars(ShiftOut)
    /\ SF_vars(io = "put" /\ \E b \in Written : Put(b))

FairSpec == Spec /\ Progress

----------------------------------------------------------------------------
(* Properties                                                              *)

One(flag, b) == IF flag THEN <<b>> ELSE <<>>

\* The bytes on their way out, and the one that has come in last.
Out == One(~usart.TXE, usart.TDR) \o OQContents(oqueue)
Line == One(usart.RXNE, usart.RDR)

\* Every byte written leaves once and in order; what is read is what came, in
\* order, nothing twice and nothing lost once it is queued, whatever the
\* device does between two register accesses.
L == INSTANCE Link WITH user <- io, out <- Out, line <- Line, in <- IQContents(iqueue)
ImplementsLink == L!Spec

\* Output that is queued will be asked for: outside the handler the interrupt
\* is enabled whenever the queue is not empty, although the handler writes CR1
\* back from a stale copy (serial_lld.c 199, 210).
OutputArmed == isr = "idle" /\ ~OQIsEmpty(oqueue) => usart.TXEIE

\* The thread is in q_waiting only when there is nothing for it: the byte or
\* the place that ended a wait has always woken it (chqueues.c 151, 372).
WaitsForCause ==
    waiting => IF io = "get" THEN IQIsEmpty(iqueue) ELSE OQIsFull(oqueue)

\* The handler comes to rest: with nothing to send, the empty transmit buffer
\* does not keep requesting it, although the end of a transmission enables
\* that request again (serial_lld.c 210).
NoInterruptStorm ==
    []<>(~OQIsEmpty(oqueue) \/ (isr = "idle" /\ ~(usart.TXEIE /\ usart.TXE)))

\* A thread that is blocked on a full queue goes on if the peer asserts CTS
\* again and again.
WriterGoesOn == SF_vars(Load) => (io = "put" ~> io = "run")

\* Handles incoming data: every byte that the device has received is enqueued,
\* or its loss is flagged (serial.c 206-207).
LossIsFlagged == [][L!Miss => overrun' \/ usart'.ORE]_vars
============================================================================
