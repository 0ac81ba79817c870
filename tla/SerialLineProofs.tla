--------------------------- MODULE SerialLineProofs ---------------------------
(* Theorems about the line settings.                                              *)
EXTENDS SerialLine, TLAPS

(***************************************************************************)
(* Arithmetic                                                              *)
(***************************************************************************)

\* Multiplication keeps the order.
LEMMA TimesKeepsOrder ==
    ASSUME NEW m \in Int, NEW n \in Int, NEW d \in Nat, m <= n PROVE m * d <= n * d
  BY SMT

\* What \div and % are.
LEMMA Division ==
    ASSUME NEW c \in Nat, NEW d \in Nat \ {0}
    PROVE  /\ c \div d \in Nat /\ c % d \in Nat
           /\ c = d * (c \div d) + (c % d) /\ c % d < d
  BY SMT

\* A baud that is accepted and no special case is a small one, and its divisor has been
\* calculated.
LEMMA AcceptedBaud ==
    ASSUME NEW c \in Nat, 19200 <= c, c < 268435456, NEW b \in Int,
           SerialGetDivisorFromBaud(c, b) # Unsupported, ~IsSpecial(c, b)
    PROVE  /\ b \in Nat /\ 0 < b /\ b < 268435456 /\ Denominator(b) = 16 * b /\ 16 * b <= c
           /\ SerialGetDivisorFromBaud(c, b) = CalculatedDivisor(c, b)
  <1>1. b > 0 /\ ~Wraps(b)
    <2>1. CASE b <= 0
      BY <2>1, SMT DEF SerialGetDivisorFromBaud
    <2>2. CASE Wraps(b)
      BY <2>2, SMT DEF SerialGetDivisorFromBaud
    <2> QED
      BY <2>1, <2>2, SMT
  <1>2. SerialGetDivisorFromBaud(c, b) = CalculatedDivisor(c, b)
    BY <1>1, SMT DEF SerialGetDivisorFromBaud
  <1>3. ~ExceedsClock(c, b)
    BY <1>2, SMT DEF CalculatedDivisor
  <1>4. b \in Nat /\ 0 < b /\ b < 268435456
    BY <1>1, <1>3, SMT DEF Wraps, ExceedsClock, Denominator
  <1>5. Denominator(b) = 16 * b
    BY <1>4, SMT DEF Denominator
  <1> QED
    BY <1>2, <1>3, <1>4, <1>5, SMT DEF ExceedsClock

\* The quotient is at least one, and the remainder, being less than half the clock, never
\* rounds it up.
LEMMA NeverRoundsUp ==
    ASSUME NEW c \in Nat, NEW d \in Nat \ {0}, d <= c, NEW b
    PROVE  c \div d >= 1 /\ 2 * (c % d) <= c /\ ~RoundsUp(c, b, c % d)
  <1> DEFINE q == c \div d
             r == c % d
  <1>1. q \in Nat /\ r \in Nat /\ c = d * q + r /\ r < d
    BY Division, SMT
  <1> HIDE DEF q, r
  <1>2. q >= 1
    <2>1. CASE q = 0
      BY <1>1, <2>1, SMT
    <2> QED
      BY <1>1, <2>1, SMT
  <1>3. d <= d * q
    BY <1>1, <1>2, TimesKeepsOrder, SMT
  <1>4. 2 * r <= c
    BY <1>1, <1>3, SMT
  <1> QED
    BY <1>1, <1>2, <1>4, SMT DEF RoundsUp, q, r

\* A divisor of sixteen bits comes out of the latch as it went in.
LEMMA SixteenBits ==
    ASSUME NEW q \in Nat, q < 65536 PROVE Latched(Short(q)) = q
  BY SMT DEF Latched, Short

LEMMA DivisorOfAccepted ==
    ASSUME NEW c \in Nat, 19200 <= c, c < 268435456, NEW b \in Int,
           SerialGetDivisorFromBaud(c, b) # Unsupported, ~IsSpecial(c, b),
           c \div 1048576 < b,
           NEW l, l = Latched(SerialGetDivisorFromBaud(c, b))
    PROVE  /\ l \in Nat /\ l > 0 /\ 16 * l * b <= c /\ c < 16 * (l + 1) * b
           /\ c - 16 * l * b = c % (16 * b)
  <1> DEFINE d == 16 * b
             q == c \div d
             r == c % d
  <1>1. /\ b \in Nat /\ 0 < b /\ b < 268435456 /\ Denominator(b) = d /\ d <= c
        /\ l = Latched(CalculatedDivisor(c, b))
    BY AcceptedBaud, SMT
  <1>2. d \in Nat \ {0} /\ c \in Nat
    BY <1>1, SMT
  <1>3. q >= 1 /\ ~RoundsUp(c, b, r)
    BY <1>1, <1>2, NeverRoundsUp, SMT
  <1>4. q \in Nat /\ r \in Nat /\ c = d * q + r /\ r < d
    <2> HIDE DEF d
    <2> QED
      BY <1>2, Division, SMT
  <1>5. c < 65536 * d
    BY <1>1, SMT
  <1>6. l = Latched(Short(q))
    <2>1. CalculatedDivisor(c, b) # Unsupported
      BY AcceptedBaud, SMT
    <2> QED
      BY <1>1, <1>3, <2>1, SMT DEF CalculatedDivisor
  <1> HIDE DEF q, r
  <1>7. q < 65536
    <2>1. CASE q >= 65536
      <3>1. 65536 * d <= q * d
        BY <1>2, <1>4, <2>1, TimesKeepsOrder, SMT
      <3>2. q * d = d * q
        BY <1>2, <1>4, SMT
      <3> QED
        BY <1>2, <1>4, <1>5, <3>1, <3>2, SMT
    <2> QED
      BY <1>4, <2>1, SMT
  <1>8. l = q
    BY <1>4, <1>6, <1>7, SixteenBits, SMT
  <1>9. 16 * q * b = d * q /\ 16 * (q + 1) * b = d * q + d
    BY <1>1, <1>4, SMT
  <1>10. c - 16 * l * b = r /\ l > 0 /\ 16 * l * b <= c /\ c < 16 * (l + 1) * b
    <2> HIDE DEF d
    <2> QED
      BY <1>1, <1>2, <1>3, <1>4, <1>8, <1>9, SMT
  <1> QED
    BY <1>4, <1>8, <1>10, SMT DEF r

\* Nor is an accepted remainder more than one percent of a clock with its own limit.
LEMMA OnePercent ==
    ASSUME NEW c \in NamedClocks, NEW b \in Int, b >= 9600,
           SerialGetDivisorFromBaud(c, b) # Unsupported, ~IsSpecial(c, b)
    PROVE  100 * (c % (16 * b)) < c
  <1> DEFINE d == 16 * b
             r == c % d
  <1>1. c \in Nat /\ 19200 <= c /\ c < 268435456
    BY SMT DEF NamedClocks
  <1>2. /\ b \in Nat /\ 0 < b /\ Denominator(b) = d /\ d <= c
        /\ SerialGetDivisorFromBaud(c, b) = CalculatedDivisor(c, b)
    BY <1>1, AcceptedBaud, SMT
  <1>3. d \in Nat \ {0}
    BY <1>2, SMT
  <1>4. r \in Nat /\ 2 * r <= c
    <2> HIDE DEF d
    <2> QED
      BY <1>1, <1>2, <1>3, Division, NeverRoundsUp, SMT
  <1>5. ~TooFar(c, b, r)
    BY <1>2, SMT DEF CalculatedDivisor
  <1> HIDE DEF r
  <1>6. MaxRemain(c) \in Nat /\ 100 * MaxRemain(c) = c
    BY SMT DEF NamedClocks, MaxRemain
  <1>7. r < MaxRemain(c)
    BY <1>1, <1>4, <1>5, <1>6, SMT DEF TooFar
  <1>8. 100 * r < c
    BY <1>4, <1>6, <1>7, SMT
  <1> QED
    BY <1>8, SMT DEF r

\* Whatever the baud, the divisor is a number.
LEMMA DivisorIsInt ==
    ASSUME NEW c \in Nat, NEW b \in Int PROVE SerialGetDivisorFromBaud(c, b) \in Int
  <1>1. Unsupported \in Int
    BY SMT DEF Unsupported
  <1>2. ASSUME IsSpecial(c, b) PROVE SpecialDivisor(c, b) \in Int
    <2> DEFINE Of(s) == s[1] = c /\ s[2] = b
    <2>1. \E s \in SpecialCases : Of(s)
      BY <1>2, SMT DEF IsSpecial
    <2> DEFINE chosen == CHOOSE s \in SpecialCases : Of(s)
    <2>2. chosen \in SpecialCases
      BY <2>1, Zenon
    <2>3. SpecialDivisor(c, b) = chosen[3]
      BY Zenon DEF SpecialDivisor
    <2> HIDE DEF chosen
    <2> QED
      BY <2>2, <2>3, SMT DEF SpecialCases
  <1>3. ASSUME b > 0, ~Wraps(b) PROVE CalculatedDivisor(c, b) \in Int
    <2>1. Denominator(b) \in Nat \ {0}
      BY <1>3, SMT DEF Wraps, Denominator
    <2>2. c \div Denominator(b) \in Nat
      BY <2>1, Division, SMT
    <2>3. \A n \in Int : Short(n) \in Int
      BY SMT DEF Short
    <2>4. Short(c \div Denominator(b)) + 1 \in Int
      BY <2>2, <2>3, SMT
    <2> QED
      BY <1>1, <2>2, <2>3, <2>4, SMT DEF CalculatedDivisor
  <1> QED
    BY <1>1, <1>2, <1>3, SMT DEF SerialGetDivisorFromBaud

LEMMA LatchIsNat ==
    ASSUME NEW c \in Nat, NEW b \in Int
    PROVE  Latched(SerialGetDivisorFromBaud(c, b)) \in Nat
  BY DivisorIsInt, SMT DEF Latched

\* The baud rate the driver starts with is one it would accept.
LEMMA StartingBaud ==
    ASSUME NEW c \in Nat, 19200 <= c, c < 268435456
    PROVE  SerialGetDivisorFromBaud(c, 1200) # Unsupported
  <1> DEFINE q == c \div 19200
  <1>1. Denominator(1200) = 19200
    BY SMT DEF Denominator
  <1>2. ~Wraps(1200) /\ ~(1200 <= 0)
    BY <1>1, SMT DEF Wraps
  <1>3. ~IsSpecial(c, 1200)
    BY SMT DEF IsSpecial, SpecialCases
  <1>4. ~ExceedsClock(c, 1200) /\ ~TooFar(c, 1200, c % 19200)
    BY <1>1, SMT DEF ExceedsClock, TooFar
  <1>5. ~RoundsUp(c, 1200, c % 19200)
    <2>1. (c % 19200) * 2 <= c
      BY SMT
    <2> QED
      BY <2>1, SMT DEF RoundsUp
  <1>6. SerialGetDivisorFromBaud(c, 1200) = Short(q)
    <2>1. CalculatedDivisor(c, 1200) = Short(q)
      BY <1>1, <1>4, <1>5, SMT DEF CalculatedDivisor
    <2> QED
      BY <1>2, <1>3, <2>1, SMT DEF SerialGetDivisorFromBaud
  <1>7. q \in Nat /\ q < 32768
    BY SMT
  <1>8. Short(q) = q
    BY <1>7, SMT DEF Short
  <1> QED
    BY <1>6, <1>7, <1>8, SMT DEF Unsupported

(***************************************************************************)
(* The invariant                                                           *)
(***************************************************************************)

\* What is saved while an open port sleeps is what it runs with.
SleepKept == phase = "asleep" =>
    /\ saved = [LineControl EXCEPT !.break = saved.break]
    /\ saved.break => BreakHeld

\* The current baud is one the driver accepts.
Accepted == SerialGetDivisorFromBaud(ClockRate, CurrentBaud) # Unsupported

LineInv == TypeOK /\ SettingsKept /\ SleepKept /\ Accepted /\ LineControl.break = FALSE

LEMMA EncodedIsLcr ==
    ASSUME NEW req \in Settings, Valid(req), NEW break \in BOOLEAN
    PROVE  Encoded(req, break) \in Lcr /\ Encoded(req, break).break = break
  <1>1. req.word - 5 \in 0 .. 3 /\ req.parity \in Parities
    BY LineAssumption, SMT DEF Valid
  <1> QED
    BY <1>1, SMT DEF Encoded, Lcr

\* Writing both registers, in either order, leaves nothing of what they held.
LEMMA BothWritten ==
    ASSUME NEW u \in [latch : Nat, lcr : Lcr], NEW l, NEW bits
    PROVE  /\ [[u EXCEPT !.latch = l] EXCEPT !.lcr = bits] = [latch |-> l, lcr |-> bits]
           /\ [[u EXCEPT !.lcr = bits] EXCEPT !.latch = l] = [latch |-> l, lcr |-> bits]
  <1> DEFINE v == [u EXCEPT !.latch = l]
             w == [u EXCEPT !.lcr = bits]
  <1>1. /\ v = [f \in {"latch", "lcr"} |-> IF f = "latch" THEN l ELSE u[f]]
        /\ w = [f \in {"latch", "lcr"} |-> IF f = "lcr" THEN bits ELSE u[f]]
    BY SMT
  <1> HIDE DEF v, w
  <1>2. [v EXCEPT !.lcr = bits] = [latch |-> l, lcr |-> bits]
    BY <1>1, SMT
  <1>3. [w EXCEPT !.latch = l] = [latch |-> l, lcr |-> bits]
    BY <1>1, SMT
  <1> QED
    BY <1>2, <1>3, Zenon DEF v, w

\* The break bit may be written without disturbing another.
LEMMA BreakWritten ==
    ASSUME NEW u \in [latch : Nat, lcr : Lcr], NEW b \in BOOLEAN
    PROVE  /\ [u EXCEPT !.lcr.break = b] \in [latch : Nat, lcr : Lcr]
           /\ [u EXCEPT !.lcr.break = b] = [u EXCEPT !.lcr = [u.lcr EXCEPT !.break = b]]
  <1>1. u.lcr \in Lcr
    BY Zenon
  <1>2. [u.lcr EXCEPT !.break = b] \in Lcr
    BY <1>1, SMT DEF Lcr
  <1>3. [u EXCEPT !.lcr = [u.lcr EXCEPT !.break = b]] \in [latch : Nat, lcr : Lcr]
    BY <1>2, SMT
  <1>4. [u EXCEPT !.lcr.break = b] = [u EXCEPT !.lcr = [u.lcr EXCEPT !.break = b]]
    BY SMT
  <1> QED
    BY <1>3, <1>4, Zenon

LEMMA InitEstablishes == Init => LineInv
  <1> SUFFICES ASSUME Init PROVE LineInv
    OBVIOUS
  <1>1. Unpowered \in [latch : Nat, lcr : Lcr] /\ LineControl \in Lcr
    BY SMT DEF Init, Lcr, Unpowered, Parities
  <1>2. CurrentBaud \in Int
    BY SMT DEF Init
  <1>2a. ClockRate \in ClockRates /\ BreakHeld \in BOOLEAN /\ phase \in PHASES
    BY Zenon DEF Init, PHASES
  <1>3. TypeOK
    BY <1>1, <1>2, <1>2a, SMT DEF Init, TypeOK, Unpowered
  <1>4. Accepted
    BY ClockAssumption, StartingBaud, SMT DEF Init, Accepted
  <1> QED
    BY <1>3, <1>4, SMT DEF Init, LineInv, SettingsKept, SleepKept

LEMMA SetBaudRateKeeps == LineInv /\ SetBaudRate => LineInv'
  <1> SUFFICES ASSUME LineInv, SetBaudRate PROVE LineInv'
    OBVIOUS
  <1>1. PICK baud \in Bauds :
          /\ SerialGetDivisorFromBaud(ClockRate, baud) # Unsupported
          /\ CurrentBaud' = baud /\ uart' = BaudSet(uart, baud)
    BY SMT DEF SetBaudRate
  <1>2. ClockRate \in Nat /\ baud \in Int
    BY ClockAssumption, LineAssumption, SMT DEF LineInv, TypeOK
  <1> DEFINE l == Latched(SerialGetDivisorFromBaud(ClockRate, baud))
  <1>3. l \in Nat /\ uart' = [uart EXCEPT !.latch = l]
    BY <1>1, <1>2, LatchIsNat, SMT DEF BaudSet
  <1>4. TypeOK'
    BY <1>1, <1>2, <1>3, SMT DEF SetBaudRate, LineInv, TypeOK
  <1>5. SettingsKept'
    BY <1>1, <1>3, SMT DEF SetBaudRate, LineInv, TypeOK, SettingsKept
  <1> QED
    BY <1>1, <1>4, <1>5, SMT DEF SetBaudRate, LineInv, SleepKept, Accepted

LEMMA SetLineControlKeeps == LineInv /\ SetLineControl => LineInv'
  <1> SUFFICES ASSUME LineInv, SetLineControl PROVE LineInv'
    OBVIOUS
  <1>1. LineControl' \in Lcr /\ LineControl'.break = FALSE
    BY EncodedIsLcr, SMT DEF SetLineControl, LineInv, TypeOK, Lcr
  <1>2. uart' = [uart EXCEPT !.lcr = LineControl']
    BY SMT DEF SetLineControl, SerialSetLineControl
  <1>3. TypeOK'
    BY <1>1, <1>2, SMT DEF SetLineControl, LineInv, TypeOK
  <1>4. SettingsKept'
    BY <1>1, <1>2, SMT DEF SetLineControl, LineInv, TypeOK, SettingsKept, Lcr
  <1> QED
    BY <1>1, <1>3, <1>4, SMT DEF SetLineControl, LineInv, SleepKept, Accepted

LEMMA BreakKeeps ==
    LineInv /\ (SerialTurnOnBreak \/ SerialTurnOffBreak \/ SerialFileCloseWorker) => LineInv'
  <1> SUFFICES ASSUME LineInv,
                      SerialTurnOnBreak \/ SerialTurnOffBreak \/ SerialFileCloseWorker
               PROVE  LineInv'
    OBVIOUS
  <1>1. TypeOK'
    <2>1. uart' \in [latch : Nat, lcr : Lcr]
      BY BreakWritten, Zenon DEF SerialTurnOnBreak, SerialTurnOffBreak,
                                 SerialFileCloseWorker, BreakOff, LineInv, TypeOK
    <2>2. BreakHeld' \in BOOLEAN
      BY Zenon DEF SerialTurnOnBreak, SerialTurnOffBreak, SerialFileCloseWorker
    <2>3. phase' \in PHASES
      BY Zenon DEF SerialTurnOnBreak, SerialTurnOffBreak, SerialFileCloseWorker, PHASES,
                   LineInv, TypeOK
    <2>4. ClockRate' \in ClockRates /\ CurrentBaud' \in Int /\ LineControl' \in Lcr
          /\ saved' \in Lcr
      BY Zenon DEF SerialTurnOnBreak, SerialTurnOffBreak, SerialFileCloseWorker, LineInv,
                   TypeOK
    <2> QED
      BY <2>1, <2>2, <2>3, <2>4, Zenon DEF TypeOK
  <1>2. SettingsKept'
    BY SMT DEF SerialTurnOnBreak, SerialTurnOffBreak, SerialFileCloseWorker, BreakOff,
               LineInv, TypeOK, Lcr, SettingsKept
  <1> QED
    BY <1>1, <1>2, SMT DEF SerialTurnOnBreak, SerialTurnOffBreak, SerialFileCloseWorker,
                           LineInv, SleepKept, Accepted

LEMMA OpenKeeps == LineInv /\ SerialDeviceFileCreateWorker => LineInv'
  <1> SUFFICES ASSUME LineInv, SerialDeviceFileCreateWorker PROVE LineInv'
    OBVIOUS
  <1> DEFINE l == Latched(SerialGetDivisorFromBaud(ClockRate, CurrentBaud))
  <1>1. l \in Nat
    <2>1. ClockRate \in Nat /\ CurrentBaud \in Int
      BY ClockAssumption, SMT DEF LineInv, TypeOK
    <2> QED
      BY <2>1, LatchIsNat
  <1>2. uart' = [latch |-> l, lcr |-> LineControl]
    <2>1. uart' = [[uart EXCEPT !.lcr = LineControl] EXCEPT !.latch = l]
      BY Zenon DEF SerialDeviceFileCreateWorker, SerialReset, BaudSet, SerialSetLineControl
    <2> HIDE DEF l
    <2> QED
      BY <2>1, BothWritten, Zenon DEF LineInv, TypeOK
  <1>3. SettingsKept'
    BY <1>2, SMT DEF SerialDeviceFileCreateWorker, LineInv, TypeOK, SettingsKept, Lcr
  <1> HIDE DEF l
  <1>4. TypeOK'
    BY <1>1, <1>2, SMT DEF SerialDeviceFileCreateWorker, LineInv, TypeOK, PHASES
  <1> QED
    BY <1>3, <1>4, SMT DEF SerialDeviceFileCreateWorker, LineInv, SleepKept, Accepted

LEMMA PowerDownKeeps == LineInv /\ SerialEvtDeviceD0Exit => LineInv'
  <1> SUFFICES ASSUME LineInv, SerialEvtDeviceD0Exit PROVE LineInv'
    OBVIOUS
  <1>1. TypeOK'
    BY SMT DEF SerialEvtDeviceD0Exit, Unpowered, Parities, Lcr, LineInv, TypeOK, PHASES
  <1>2. SleepKept'
    BY SMT DEF SerialEvtDeviceD0Exit, LineInv, SettingsKept, SleepKept
  <1> QED
    BY <1>1, <1>2, SMT DEF SerialEvtDeviceD0Exit, LineInv, SettingsKept, Accepted

LEMMA PowerUpKeeps == LineInv /\ SerialEvtDeviceD0Entry => LineInv'
  <1> SUFFICES ASSUME LineInv, SerialEvtDeviceD0Entry PROVE LineInv'
    OBVIOUS
  <1> DEFINE l == Latched(SerialGetDivisorFromBaud(ClockRate, CurrentBaud))
  <1>1. l \in Nat
    <2>1. ClockRate \in Nat /\ CurrentBaud \in Int
      BY ClockAssumption, SMT DEF LineInv, TypeOK
    <2> QED
      BY <2>1, LatchIsNat
  <1>2. uart' = [latch |-> l, lcr |-> saved]
    <2>1. uart' = [[uart EXCEPT !.latch = l] EXCEPT !.lcr = saved]
      BY Zenon DEF SerialEvtDeviceD0Entry, Restored, BaudSet
    <2> HIDE DEF l
    <2> QED
      BY <2>1, BothWritten, Zenon DEF LineInv, TypeOK
  <1>3. SettingsKept'
    BY <1>2, SMT DEF SerialEvtDeviceD0Entry, LineInv, TypeOK, SettingsKept, SleepKept
  <1> HIDE DEF l
  <1>4. TypeOK'
    BY <1>1, <1>2, SMT DEF SerialEvtDeviceD0Entry, LineInv, TypeOK, PHASES
  <1> QED
    BY <1>3, <1>4, SMT DEF SerialEvtDeviceD0Entry, LineInv, SleepKept, Accepted

LEMMA StepKeeps == LineInv /\ [Next]_vars => LineInv'
  <1> SUFFICES ASSUME LineInv, [Next]_vars PROVE LineInv'
    OBVIOUS
  <1>1. CASE UNCHANGED vars
    BY <1>1, SMT DEF vars, LineInv, TypeOK, SettingsKept, SleepKept, Accepted
  <1> QED
    BY <1>1, SetBaudRateKeeps, SetLineControlKeeps, BreakKeeps, OpenKeeps, PowerDownKeeps,
       PowerUpKeeps, SMT DEF Next

THEOREM LineInvariant == Spec => []LineInv
  BY InitEstablishes, StepKeeps, PTL DEF Spec

\* Every variable keeps its type; the divisor in the latch is never negative.
THEOREM LineTypes == Spec => []TypeOK
  <1>1. LineInv => TypeOK
    BY DEF LineInv
  <1> QED
    BY <1>1, LineInvariant, PTL

\* The UART of an open port runs with the settings the driver would report, whatever
\* requests, opens, closes and power downs (openclos.c, power.c) came before.
THEOREM SettingsAreKept == Spec => []SettingsKept
  <1>1. LineInv => SettingsKept
    BY DEF LineInv
  <1> QED
    BY <1>1, LineInvariant, PTL

\* For every clock and every baud that SerialGetDivisorFromBaud accepts the divisor is the
\* quotient rounded down, with sixteen bits and no special case in the way, and from 9600
\* baud on within one percent for the clocks that have a limit of their own.
THEOREM DivisorsAreRight == Spec => []DivisorIsRight
  <1>1. LineInv => DivisorIsRight
    <2> SUFFICES ASSUME LineInv, phase = "open", Ordinary
                 PROVE  RoundedDown /\ WithinOnePercent
      BY DEF DivisorIsRight
    <2>1. /\ ClockRate \in Nat /\ 19200 <= ClockRate /\ ClockRate < 268435456
          /\ CurrentBaud \in Int
      BY ClockAssumption, SMT DEF LineInv, TypeOK
    <2>2. /\ SerialGetDivisorFromBaud(ClockRate, CurrentBaud) # Unsupported
          /\ uart.latch = Latched(SerialGetDivisorFromBaud(ClockRate, CurrentBaud))
      BY SMT DEF LineInv, Accepted, SettingsKept
    <2>3. ~IsSpecial(ClockRate, CurrentBaud) /\ ClockRate \div 1048576 < CurrentBaud
      BY SMT DEF Ordinary, Fits
    <2>4. RoundedDown
      BY <2>1, <2>2, <2>3, DivisorOfAccepted, SMT DEF RoundedDown
    <2>5. ASSUME ClockRate \in NamedClocks, CurrentBaud >= 9600
          PROVE  100 * (ClockRate - 16 * uart.latch * CurrentBaud) < ClockRate
      <3>1. 100 * (ClockRate % (16 * CurrentBaud)) < ClockRate
        BY <2>1, <2>2, <2>3, <2>5, OnePercent, SMT
      <3>2. ClockRate - 16 * uart.latch * CurrentBaud = ClockRate % (16 * CurrentBaud)
        BY <2>1, <2>2, <2>3, DivisorOfAccepted, SMT
      <3> QED
        BY <3>1, <3>2, SMT
    <2> QED
      BY <2>4, <2>5, SMT DEF WithinOnePercent
  <1> QED
    BY <1>1, LineInvariant, PTL
=============================================================================
