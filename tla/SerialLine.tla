------------------------------ MODULE SerialLine ------------------------------
(***************************************************************************)
(* The line settings of the serial driver: the divisor for a baud rate     *)
(* (SerialGetDivisorFromBaud), word length, parity and stop bits, and the  *)
(* break, in the device extension and in the UART, from open to close and  *)
(* through a suspend.  Every request is one action, since each writes the  *)
(* UART in one synchronized routine.  A definition marked "mutant" is a    *)
(* plausible slip in the one below it and is used by no other.             *)
(***************************************************************************)
EXTENDS Integers

CONSTANTS
    ClockRates,    \* of the UART's input; the registry says which
    Bauds,         \* asked for, a LONG that nobody has checked
    Settings       \* SERIAL_LINE_CONTROL records asked for

Parities == {"none", "odd", "even", "mark", "space"}
PHASES   == {"open", "asleep", "closed", "down"}  \* down: closed and without power

\* The driver starts at 1200 baud, which the clock must allow, and a clock of 2^28 or
\* more is no UART's.
ASSUME ClockAssumption ==
    \A clock \in ClockRates : clock \in Nat /\ 19200 <= clock /\ clock < 268435456
ASSUME LineAssumption ==
    /\ Bauds \subseteq Int
    /\ Settings \subseteq [word : Nat, parity : Parities, stop : {"1", "1.5", "2"}]

VARIABLES
    ClockRate,
    CurrentBaud,   \* of the device extension
    LineControl,   \* of the device extension; its break bit is never set
    BreakHeld,     \* SERIAL_TX_BREAK in TXHolding
    uart,          \* the divisor latch and the line control register
    saved,         \* DeviceState.LCR
    phase

vars == <<ClockRate, CurrentBaud, LineControl, BreakHeld, uart, saved, phase>>

Lcr == [data : 0 .. 3, parity : Parities, stop : BOOLEAN, break : BOOLEAN]

-------------------------------------------------------------------------------
(* The divisor *)

Unsupported == -1

\* DesiredBaud * 16 as a ULONG.
Denominator(baud) == 16 * (baud % 268435456)

\* "So huge that it cause the denominator calculation to wrap": as a LONG it is
\* negative, or below the baud.
Wraps(baud) == baud % 268435456 >= 134217728 \/ Denominator(baud) < baud

MaxRemain80(clock) == 80000                \* mutant: one limit for all clocks
MaxRemain(clock) ==
    CASE clock = 1843200 -> 18432
      [] clock = 3072000 -> 30720
      [] clock = 4233600 -> 42336
      [] OTHER -> 80000

TooFar(clock, baud, remainder) ==
    /\ baud >= 9600
    /\ remainder >= MaxRemain(clock) /\ remainder + MaxRemain(clock) < clock

\* "Special casing so that things can actually continue working on all platforms."
SpecialCases == {
    <<1843200, 56000, 2>>, <<3072000, 14400, 13>>,
    <<4233600, 9600, 28>>, <<4233600, 14400, 18>>, <<4233600, 19200, 14>>,
    <<4233600, 38400, 7>>, <<4233600, 56000, 5>>,
    <<8000000, 14400, 35>>, <<8000000, 56000, 9>>}
IsSpecial(clock, baud) == \E s \in SpecialCases : s[1] = clock /\ s[2] = baud
SpecialDivisor(clock, baud) ==
    (CHOOSE s \in SpecialCases : s[1] = clock /\ s[2] = baud)[3]

Short(n) == ((n + 32768) % 65536) - 32768    \* the cast to SHORT

\* "Round up" is done on the remainder against the clock.
RoundsUp(clock, baud, remainder) == remainder * 2 > clock /\ baud # 110

NeverExceeds(clock, baud) == FALSE         \* mutant: the denominator may exceed the clock
ExceedsClock(clock, baud) == Denominator(baud) > clock

CalculatedDivisor(clock, baud) ==
    LET quotient == clock \div Denominator(baud)
        remainder == clock % Denominator(baud)
    IN IF TooFar(clock, baud, remainder) \/ ExceedsClock(clock, baud) THEN Unsupported
       ELSE IF RoundsUp(clock, baud, remainder) THEN Short(Short(quotient) + 1)
       ELSE Short(quotient)

SerialGetDivisorFromBaud(clock, baud) ==
    IF baud <= 0 \/ Wraps(baud) THEN Unsupported
    ELSE IF IsSpecial(clock, baud) THEN SpecialDivisor(clock, baud)
    ELSE CalculatedDivisor(clock, baud)

\* The two bytes that WRITE_DIVISOR_LATCH writes.
LatchedSigned(divisor) == divisor          \* mutant: not cut to the two bytes
Latched(divisor) == divisor % 65536

BaudSet(u, baud) ==
    [u EXCEPT !.latch = Latched(SerialGetDivisorFromBaud(ClockRate, baud))]

-------------------------------------------------------------------------------
(* Requests *)

Valid(req) ==
    /\ req.word \in 5 .. 8
    /\ req.stop = "1.5" => req.word = 5
    /\ req.stop = "2" => req.word # 5

\* The bits of the line control register; 1.5 and 2 stop bits are the same one.
Encoded(req, break) ==
    [data |-> req.word - 5, parity |-> req.parity, stop |-> req.stop # "1", break |-> break]

SerialSetLineControl(u, bits) == [u EXCEPT !.lcr = bits]

SetBaudRate ==
    /\ phase = "open"
    /\ \E baud \in Bauds :
         /\ SerialGetDivisorFromBaud(ClockRate, baud) # Unsupported
         /\ CurrentBaud' = baud /\ uart' = BaudSet(uart, baud)
    /\ UNCHANGED <<ClockRate, LineControl, BreakHeld, saved, phase>>

SetLineControl ==
    /\ phase = "open"
    /\ \E req \in Settings :
         /\ Valid(req)
         /\ LineControl' = Encoded(req, LineControl.break)
    /\ uart' = SerialSetLineControl(uart, LineControl')
    /\ UNCHANGED <<ClockRate, CurrentBaud, BreakHeld, saved, phase>>

SerialTurnOnBreak ==
    /\ phase = "open"
    /\ uart' = [uart EXCEPT !.lcr.break = TRUE] /\ BreakHeld' = TRUE
    /\ UNCHANGED <<ClockRate, CurrentBaud, LineControl, saved, phase>>

\* Only if it is on as far as the driver knows.
BreakOff(u) == IF BreakHeld THEN [u EXCEPT !.lcr.break = FALSE] ELSE u
SerialTurnOffBreak ==
    /\ phase = "open"
    /\ uart' = BreakOff(uart) /\ BreakHeld' = FALSE
    /\ UNCHANGED <<ClockRate, CurrentBaud, LineControl, saved, phase>>

-------------------------------------------------------------------------------
(* Open, close and power *)

\* SerialReset does not look at what SerialGetDivisorFromBaud returns.
SerialReset(u) == BaudSet(SerialSetLineControl(u, LineControl), CurrentBaud)

SerialDeviceFileCreateWorker ==
    /\ phase = "closed" /\ phase' = "open"
    /\ uart' = SerialReset(uart)
    /\ UNCHANGED <<ClockRate, CurrentBaud, LineControl, BreakHeld, saved>>

SerialFileCloseWorker ==
    /\ phase = "open" /\ phase' = "closed"
    /\ uart' = BreakOff(uart) /\ BreakHeld' = FALSE
    /\ UNCHANGED <<ClockRate, CurrentBaud, LineControl, saved>>

\* The UART as the power comes back.
Unpowered == [latch |-> 0, lcr |-> [data |-> 0, parity |-> "none", stop |-> FALSE,
                                    break |-> FALSE]]

\* Only an open port saves its registers; the last ones saved are restored.
SerialEvtDeviceD0Exit ==
    /\ \/ phase = "open" /\ phase' = "asleep" /\ saved' = uart.lcr
       \/ phase = "closed" /\ phase' = "down" /\ saved' = saved
    /\ uart' = Unpowered
    /\ UNCHANGED <<ClockRate, CurrentBaud, LineControl, BreakHeld>>

WithoutBaud(u) == [u EXCEPT !.lcr = saved]  \* mutant: the divisor is not restored
Restored(u) == [BaudSet(u, CurrentBaud) EXCEPT !.lcr = saved]
SerialEvtDeviceD0Entry ==
    /\ \/ phase = "asleep" /\ phase' = "open"
       \/ phase = "down" /\ phase' = "closed"
    /\ uart' = Restored(uart)
    /\ UNCHANGED <<ClockRate, CurrentBaud, LineControl, BreakHeld, saved>>

\* The device has been prepared but has no power yet: 7 data bits, even parity, 1200.
Init ==
    /\ ClockRate \in ClockRates /\ CurrentBaud = 1200
    /\ LineControl = [data |-> 2, parity |-> "even", stop |-> FALSE, break |-> FALSE]
    /\ BreakHeld = FALSE /\ uart = Unpowered /\ saved = Unpowered.lcr
    /\ phase = "down"

Next ==
    \/ SetBaudRate \/ SetLineControl \/ SerialTurnOnBreak \/ SerialTurnOffBreak
    \/ SerialDeviceFileCreateWorker \/ SerialFileCloseWorker
    \/ SerialEvtDeviceD0Exit \/ SerialEvtDeviceD0Entry

Spec == Init /\ [][Next]_vars

-------------------------------------------------------------------------------
(* Properties *)

\* Types.
TypeOK ==
    /\ ClockRate \in ClockRates /\ CurrentBaud \in Int
    /\ LineControl \in Lcr /\ BreakHeld \in BOOLEAN
    /\ uart \in [latch : Nat, lcr : Lcr] /\ saved \in Lcr
    /\ phase \in PHASES

\* While a port is open its UART runs with the settings that the driver would report,
\* also after a wake and after an open that follows any requests, closes and power
\* downs; and a line is not in break unless the driver knows.
SettingsKept == phase = "open" =>
    /\ uart.latch = Latched(SerialGetDivisorFromBaud(ClockRate, CurrentBaud))
    /\ uart.lcr = [LineControl EXCEPT !.break = uart.lcr.break]
    /\ uart.lcr.break => BreakHeld

\* A baud the driver has accepted has a divisor that is the exact quotient rounded down
\* and not zero: neither the 32 bits of the denominator nor the 16 of the divisor get in
\* the way, for a baud whose divisor has 16 bits and that is no special case.  And
\* "allow up to a 1 percent error" (utils.c:1714): for the clocks with a limit of their
\* own, from 9600 baud on.
Fits == ClockRate \div 1048576 < CurrentBaud
Ordinary == Fits /\ ~IsSpecial(ClockRate, CurrentBaud)
RoundedDown ==
    /\ uart.latch > 0
    /\ 16 * uart.latch * CurrentBaud <= ClockRate
    /\ ClockRate < 16 * (uart.latch + 1) * CurrentBaud
NamedClocks == {1843200, 3072000, 4233600, 8000000}
WithinOnePercent == ClockRate \in NamedClocks /\ CurrentBaud >= 9600
    => 100 * (ClockRate - 16 * uart.latch * CurrentBaud) < ClockRate
DivisorIsRight == phase = "open" /\ Ordinary => RoundedDown /\ WithinOnePercent

\* "This routine will turn on break in the hardware and record the fact the break is
\* on" (modmflow.c:724): while it is recorded, it is on.
BreakStaysOn == phase = "open" /\ BreakHeld => uart.lcr.break

\* "Given that the DesiredBaud is valid" the divisor "will be set to the appropriate
\* value" (utils.c:1693): also if it does not fit.
DivisorIsAppropriate ==
    phase = "open" /\ ~IsSpecial(ClockRate, CurrentBaud) => RoundedDown

\* "Round up." (utils.c:1760): the divisor is the nearest one.
RoundsToNearest ==
    phase = "open" /\ Ordinary
        => 2 * (ClockRate - 16 * uart.latch * CurrentBaud) <= 16 * CurrentBaud
=============================================================================
