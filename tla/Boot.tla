-------------------------------- MODULE Boot -------------------------------
(***************************************************************************)
(* From power-up or reset to the control loop (main.cpp): each motor       *)
(* driver is configured register by register, with a diagnostic line on    *)
(* the radio for each (the constructor of A4960); the IO thread starts;    *)
(* then the gyro is calibrated (Calibration), and only then the control    *)
(* loop drives the motors.  The motor drivers have a supply of their own:  *)
(* after a reset their registers hold what they held before.               *)
(***************************************************************************)
EXTENDS Calibration

CONSTANTS DiagLen,   \* bytes of a diagnostic line
          OutCap,    \* size of the output queue
          Throttles  \* the values of throttle

ASSUME BootAssumption ==
    DiagLen \in Nat \ {0} /\ OutCap \in Nat \ {0} /\ Throttles \subseteq Nat

Motors == {1, 2}
Registers == 0..7

\* The width of a PWM channel that has not been enabled.
Off == -1

VARIABLES phase,      \* the place of the main thread
          motor, addr,  \* the motor and the register under configuration
          left,       \* bytes of the line still to be put
          oq,         \* bytes in the output queue
          register,   \* motor -> register -> what it holds
          width,      \* motor -> PWM width, or Off
          ioRuns,     \* the IO thread has been created
          throttle,
          commanded   \* history: motor -> what the IO thread wrote last, if anything

bootVars == <<phase, motor, addr, left, oq, register, width, ioRuns, throttle, commanded>>

BootInit ==
    /\ Init
    /\ phase = "write" /\ motor = 1 /\ addr = 0 /\ left = 0 /\ oq = 0
    /\ \E old \in {"reset", "running"} : register = [m \in Motors |-> [r \in Registers |-> old]]
    /\ width = [m \in Motors |-> Off]
    /\ ioRuns = FALSE /\ throttle = 0
    /\ commanded = [m \in Motors |-> "config"]

\* writeReg(addr, config[addr]), and the line begins.
WriteReg ==
    /\ phase = "write" /\ phase' = "diagnose"
    /\ register' = [register EXCEPT ![motor][addr] = "config"]
    /\ left' = DiagLen
    /\ UNCHANGED <<vars, motor, addr, oq, width, ioRuns, throttle, commanded>>

\* A byte of the line is put when there is room, without a time limit; after
\* the last one the thread sleeps.
PutDiag ==
    /\ phase = "diagnose" /\ oq < OutCap
    /\ oq' = oq + 1 /\ left' = left - 1
    /\ phase' = IF left = 1 THEN "sleep" ELSE phase
    /\ UNCHANGED <<vars, motor, addr, register, width, ioRuns, throttle, commanded>>

\* Mutation: the loop over the registers ends one early.
WakeUpShort ==
    /\ phase = "sleep"
    /\ IF addr < 6
       THEN addr' = addr + 1 /\ phase' = "write" /\ UNCHANGED <<motor, width>>
       ELSE /\ width' = [width EXCEPT ![motor] = 0]
            /\ IF motor = 1 THEN motor' = 2 /\ addr' = 0 /\ phase' = "write"
               ELSE phase' = "start" /\ UNCHANGED <<motor, addr>>
    /\ UNCHANGED <<vars, left, oq, register, ioRuns, throttle, commanded>>

\* Mutation: the loop over the registers does not end.
WakeUpEndless ==
    /\ phase = "sleep"
    /\ addr' = (addr + 1) % 8 /\ phase' = "write"
    /\ UNCHANGED <<vars, motor, width, left, oq, register, ioRuns, throttle, commanded>>

\* The next register, or all of them are written and the channel is enabled.
WakeUp ==
    /\ phase = "sleep"
    /\ IF addr < 7
       THEN addr' = addr + 1 /\ phase' = "write" /\ UNCHANGED <<motor, width>>
       ELSE /\ width' = [width EXCEPT ![motor] = 0]
            /\ IF motor = 1 THEN motor' = 2 /\ addr' = 0 /\ phase' = "write"
               ELSE phase' = "start" /\ UNCHANGED <<motor, addr>>
    /\ UNCHANGED <<vars, left, oq, register, ioRuns, throttle, commanded>>

\* The constructors of ADS1259 and Tortilla, and chThdCreateStatic: the IO
\* thread has the lower priority.
StartIO ==
    /\ phase = "start" /\ phase' = "calibrate"
    /\ ioRuns' = TRUE /\ throttle' = 0
    /\ UNCHANGED <<vars, motor, addr, left, oq, register, width, commanded>>

\* Mutation: the motors are driven meanwhile.
CalibrateDriving ==
    /\ phase = "calibrate"
    /\ Next
    /\ width' = [m \in Motors |-> throttle]
    /\ phase' = IF calibrated' THEN "loop" ELSE phase
    /\ UNCHANGED <<motor, addr, left, oq, register, ioRuns, throttle, commanded>>

\* initGyroBias.
Calibrate ==
    /\ phase = "calibrate"
    /\ Next
    /\ phase' = IF calibrated' THEN "loop" ELSE phase
    /\ UNCHANGED <<motor, addr, left, oq, register, width, ioRuns, throttle, commanded>>

\* A control cycle without translation: lines 104, 105, 136 and 137.
Cycle ==
    /\ phase = "loop"
    /\ width' = [m \in Motors |-> throttle]
    /\ UNCHANGED <<vars, phase, motor, addr, left, oq, register, ioRuns, throttle, commanded>>

\* The IO thread writes the mode of a motor, or the throttle.
SetMode(m) ==
    /\ ioRuns
    /\ \E mode \in {"config", "running"} :
          /\ register' = [register EXCEPT ![m][7] = mode]
          /\ commanded' = [commanded EXCEPT ![m] = mode]
    /\ UNCHANGED <<vars, phase, motor, addr, left, oq, width, ioRuns, throttle>>

StoreThrottle ==
    /\ ioRuns
    /\ throttle' \in Throttles
    /\ UNCHANGED <<vars, phase, motor, addr, left, oq, register, width, ioRuns, commanded>>

\* The peer takes a byte.
Send ==
    /\ oq > 0 /\ oq' = oq - 1
    /\ UNCHANGED <<vars, phase, motor, addr, left, register, width, ioRuns, throttle, commanded>>

Main == WriteReg \/ PutDiag \/ WakeUp \/ StartIO \/ Calibrate \/ Cycle

BootNext == Main \/ Send \/ StoreThrottle \/ \E m \in Motors : SetMode(m)

BootSpec == BootInit /\ [][BootNext]_<<vars, bootVars>> /\ WF_<<vars, bootVars>>(Main)

----------------------------------------------------------------------------
(* Properties                                                              *)

\* The gyro is calibrated at rest: until that is over no motor is given a pulse,
\* whatever was commanded meanwhile and whatever the drivers held before the
\* reset; and the drivers have been configured (main.cpp 85-102).
CalibratesAtRest ==
    phase = "calibrate" => \A m \in Motors :
        width[m] = 0 /\ \A r \in 0..6 : register[m][r] = "config"

\* A mode that was commanded stays: the boot does not write it over, and what
\* the driver held before the reset does not come through (A4960.cpp 49-54,
\* main.cpp 97).
ModeStands == ioRuns => \A m \in Motors : register[m][7] = commanded[m]

\* If the peer takes bytes and no reading of the calibration ends one tick late,
\* which would leave the thread asleep without a timer, the robot reaches its
\* control loop; the diagnostics wait for the peer (A4960.cpp 51,
\* Tortilla_control.cpp 68-69).
ReachesLoop ==
    WF_<<vars, bootVars>>(Send) /\ [](sleep # "forever") => <>(phase = "loop")

\* Why: the registers are written one after the other, and nobody but the
\* constructors writes them before the IO thread runs.
Done(m, r) ==
    \/ phase \in {"start", "calibrate", "loop"}
    \/ m < motor
    \/ m = motor /\ (r < addr \/ (r = addr /\ phase # "write"))

BootTypeOK ==
    /\ phase \in {"write", "diagnose", "sleep", "start", "calibrate", "loop"}
    /\ motor \in Motors /\ addr \in Registers
    /\ register \in [Motors -> [Registers -> {"reset", "config", "running"}]]
    /\ width \in [Motors -> Nat \cup {Off}] /\ throttle \in Nat
    /\ commanded \in [Motors -> {"config", "running"}]
    /\ ioRuns <=> phase \in {"calibrate", "loop"}

BootOrder ==
    \A m \in Motors :
        /\ \A r \in Registers : Done(m, r) /\ (r # 7 \/ ~ioRuns) => register[m][r] = "config"
        /\ register[m][7] = commanded[m] \/ ~ioRuns
        /\ commanded[m] = "config" \/ ioRuns
        /\ m < motor \/ phase \in {"start", "calibrate"} => width[m] = 0 \/ phase = "loop"

BootInv == Inv /\ BootTypeOK /\ BootOrder
============================================================================
