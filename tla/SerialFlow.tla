------------------------------ MODULE SerialFlow ------------------------------
(***************************************************************************)
(* Modem and flow control of the serial driver: DTR/RTS handshaking, the   *)
(* output handshakes, Xon/Xoff in both directions, break, transmit         *)
(* toggling with its counter CountOfTryingToLowerRTS, and the close that   *)
(* waits for all of it, the next open, and a suspend of the system.        *)
(*                                                                         *)
(* Two ports, each with this driver, are joined by a null modem: what one  *)
(* transmits the other receives, and RTS and DTR of one are the inputs of  *)
(* the other.  A port is a record, and the driver's routines are operators *)
(* from a record to a record; each action is one run of the interrupt      *)
(* routine, a DPC, a timer, a request, or a step of the hardware.          *)
(* Reads and writes are as much of SerialRead and SerialWrite as flow      *)
(* control looks at.  Characters are data, "XON" or "XOFF".  A definition  *)
(* marked "mutant" is a plausible slip in the one below it and is used by  *)
(* no other.                                                               *)
(***************************************************************************)
EXTENDS Integers

CONSTANTS
    Ends,          \* the two ports
    Peer,          \* the port at the other end of the cable
    BufferSize,    \* of the typeahead buffer
    XoffLimit,     \* hold off when no more than this is free
    XonLimit,      \* let go when no more than this is in the buffer
    HandFlows,     \* per end: the flow control it may ask for
    Requests,      \* per end: the kinds of request it makes
    MaxRequests,   \* per end: how many of them, reads and opens not counted
    MaxEvents,     \* requests, closes and suspends of both ends together
    Lengths,       \* of a write
    WatchesEmpty   \* per end: is SERIAL_EV_TXEMPTY in its wait mask?

OutLines == {"CTS", "DSR", "DCD"}      \* inputs that can stop transmission
Holds    == {"DTR", "RTS", "XOFF", "DSR"}
KINDS    == {"read", "write", "immediate", "xoff", "xon", "breakOn", "breakOff", "lines",
             "handflow", "end", "suspend", "close", "open"}
Sleeping == {"stopping", "draining", "asleep"}            \* a suspend; a close:
Closing  == {"flushing", "marked", "drained", "closed"}
PHASES   == {"open"} \cup Sleeping \cup Closing

\* SERIAL_HANDFLOW: what is done with RTS and DTR, SERIAL_AUTO_RECEIVE and
\* SERIAL_AUTO_TRANSMIT, SERIAL_XOFF_CONTINUE, SERIAL_OUT_HANDSHAKEMASK,
\* SERIAL_DSR_SENSITIVITY.
HandFlow == [RTS : {"off", "control", "handshake", "toggle"},
             DTR : {"off", "control", "handshake"},
             autoReceive : BOOLEAN, autoTransmit : BOOLEAN, xoffContinue : BOOLEAN,
             out : SUBSET OutLines, sensitive : BOOLEAN]

ASSUME EndsAssumption ==
    Peer \in [Ends -> Ends] /\ \A e \in Ends : Peer[e] # e /\ Peer[Peer[e]] = e
ASSUME LimitsAssumption ==
    /\ BufferSize \in Nat \ {0} /\ XoffLimit \in 0 .. BufferSize
    /\ XonLimit \in 0 .. BufferSize
ASSUME FlowInputsAssumption ==
    /\ HandFlows \in [Ends -> SUBSET HandFlow]
    /\ Requests \in [Ends -> SUBSET KINDS]
    /\ MaxRequests \in [Ends -> Nat] /\ MaxEvents \in Nat /\ Lengths \subseteq Nat \ {0}
    /\ WatchesEmpty \in [Ends -> BOOLEAN]

VARIABLES
    port,       \* per end, the fields of the device extension and the UART
    phase,      \* per end: how far a close or a suspend has come
    requested,  \* per end: requests made
    events      \* requests made, closes and suspends begun

vars == <<port, phase, requested, events>>

\* The cable.
Wire(line) == IF line = "CTS" THEN "RTS" ELSE "DTR"
Inputs(e) == {line \in OutLines : Wire(line) \in port[Peer[e]].lines}

\* Transmitter and receiver hold one character each: "none" when empty.
Port == [
    hf           : HandFlow,
    TXHolding    : SUBSET (OutLines \cup {"XOFF", "BREAK"}),
    RXHolding    : SUBSET Holds,
    send         : {"none", "XON", "XOFF"},      \* SendXonChar, SendXoffChar
    HoldingEmpty : BOOLEAN,
    CurrentWrite : BOOLEAN, WriteLength : Nat, queued : Nat,
    immediate    : {"no", "waiting", "sent"},    \* waiting: TransmitImmediate
    Chars        : Nat,                          \* CharsInInterruptBuffer
    userBuffer   : BOOLEAN,                      \* a read waits for a character
    count        : Int,                          \* CountOfTryingToLowerRTS
    dpc          : BOOLEAN,                      \* StartTimerLowerRTSDpc is queued
    timer        : BOOLEAN, fired : BOOLEAN,     \* LowerRTSTimer runs; has expired
    lines        : SUBSET {"RTS", "DTR"},
    saved        : SUBSET {"RTS", "DTR"},        \* DeviceState.MCR
    thr          : {"none", "data", "XON", "XOFF"},
    tsr          : {"none", "data", "XON", "XOFF"},
    rbr          : {"none", "data", "XON", "XOFF"},
    thri         : BOOLEAN, msi : BOOLEAN,       \* pending transmit, modem interrupt
    inIsr        : BOOLEAN,                      \* the interrupt routine runs
    told         : {"XON", "XOFF"}]              \* history: last it has received since
                                                 \* its open or its wake

-------------------------------------------------------------------------------
(* Routines *)

Toggles(p) == p.hf.RTS = "toggle"
TransmitImmediate(p) == p.immediate = "waiting"
HardwareEmpty(p) == p.thr = "none" /\ p.tsr = "none"

\* SerialProcessLSR, as far as the transmitter goes.
LineStatus(p) == [p EXCEPT !.HoldingEmpty = p.thr = "none"]

\* Disabling and enabling the UART's interrupts signals an empty holding register.
Poke(p) == [p EXCEPT !.thri = p.thr = "none"]

Raise(p, line) == [p EXCEPT !.lines = @ \cup {line}]
Lower(p, line) == [p EXCEPT !.lines = @ \ {line}]

\* SerialInsertQueueDpc(StartTimerLowerRTSDpc): a new path only if it was not queued.
InsertDpcTwice(p) == [p EXCEPT !.dpc = TRUE, !.count = @ + 1]  \* mutant: always counts
InsertDpc(p) == IF p.dpc THEN p ELSE [p EXCEPT !.dpc = TRUE, !.count = @ + 1]

\* SerialPerhapsLowerRTS tests that nothing is left to send.  As it is written, "not
\* held up" goes with the queue alone.
KeepsRTS(p) ==
    \/ "BREAK" \in p.TXHolding
    \/ p.CurrentWrite \/ TransmitImmediate(p)
    \/ p.queued > 0 /\ p.TXHolding = {}

LoweredAtOnce(p) == Lower(p, "RTS")        \* mutant: does not look at the hardware
LoweredRTS(p) ==
    IF HardwareEmpty(p) THEN Lower(LineStatus(p), "RTS") ELSE InsertDpc(LineStatus(p))

SerialPerhapsLowerRTS(p) ==
    LET tried == IF Toggles(p) /\ ~KeepsRTS(p) THEN LoweredRTS(p) ELSE p
    IN [tried EXCEPT !.count = @ - 1]

\* The callers that make it a new path of execution first.
TryToLowerRTS(p) == SerialPerhapsLowerRTS([p EXCEPT !.count = @ + 1])

\* Transmission may go on and has something to do.
Resume(p) ==
    IF p.TXHolding = {} /\ (TransmitImmediate(p) \/ p.WriteLength > 0) /\ p.HoldingEmpty
      THEN Poke(p) ELSE p

SerialProdXonXoff(p, char) ==
    LET tickled == IF p.send = "none" /\ p.HoldingEmpty THEN Poke(p) ELSE p
    IN [tickled EXCEPT !.send = char]

\* SerialHandleModemUpdate; inputs are the modem lines that are up.
SerialHandleModemUpdate(p, inputs, DoingTX) ==
    LET held == (p.TXHolding \ OutLines) \cup (p.hf.out \ inputs)
        read == [p EXCEPT
            !.msi = FALSE,
            !.RXHolding = IF p.hf.sensitive /\ "DSR" \notin inputs
                            THEN @ \cup {"DSR"} ELSE @ \ {"DSR"},
            !.TXHolding = held]
        toggled == IF p.TXHolding = {} /\ held # {} /\ Toggles(p)
                     THEN InsertDpc(read) ELSE read
    IN IF ~DoingTX /\ p.TXHolding # {} THEN Resume(toggled) ELSE toggled

\* SerialHandleReducedIntBuffer.
ReducedBelow(p) == p.Chars < XonLimit      \* mutant: off by one
Reduced(p) == p.Chars <= XonLimit
SerialHandleReducedIntBuffer(p) ==
    IF ~Reduced(p) THEN p
    ELSE LET let == p.RXHolding \cap {"DTR", "RTS"}
             released == [p EXCEPT !.RXHolding = @ \ let, !.lines = @ \cup let]
         IN IF "XOFF" \in p.RXHolding THEN SerialProdXonXoff(released, "XON") ELSE released

\* The ways reception can be held off under the flow control hf.
HoldsOff(hf) == {line \in {"DTR", "RTS"} : hf[line] = "handshake"}
                \cup (IF hf.autoReceive THEN {"XOFF"} ELSE {})

ThresholdLate(p) == BufferSize - XoffLimit < p.Chars + 1     \* mutant: off by one
Threshold(p) == BufferSize - XoffLimit <= p.Chars + 1

\* SerialPutChar for the typeahead buffer.
IntoTypeahead(p) ==
    LET new == IF Threshold(p) THEN HoldsOff(p.hf) \ p.RXHolding ELSE {}
        held == [p EXCEPT !.RXHolding = @ \cup new, !.lines = @ \ new]
        asked == IF "XOFF" \in new THEN SerialProdXonXoff(held, "XOFF") ELSE held
    IN IF p.Chars < BufferSize THEN [asked EXCEPT !.Chars = @ + 1] ELSE asked

SerialPutChar(p, inputs) ==
    LET seen == IF p.hf.sensitive THEN SerialHandleModemUpdate(p, inputs, FALSE) ELSE p
    IN IF p.hf.sensitive /\ "DSR" \in seen.RXHolding THEN seen
       ELSE IF p.userBuffer THEN [seen EXCEPT !.userBuffer = FALSE]
       ELSE IntoTypeahead(seen)

\* A received character: Xon and Xoff are kept from the application if
\* SERIAL_AUTO_TRANSMIT is set.
Received(p, inputs) ==
    LET char == p.rbr
        taken == [p EXCEPT !.rbr = "none", !.told = IF char = "data" THEN @ ELSE char]
    IN IF char = "data" \/ ~p.hf.autoTransmit THEN SerialPutChar(taken, inputs)
       ELSE IF char = "XOFF"
         THEN LET held == [taken EXCEPT !.TXHolding = @ \cup {"XOFF"}]
              IN IF Toggles(p) THEN InsertDpc(held) ELSE held
       ELSE [taken EXCEPT !.TXHolding = @ \ {"XOFF"}]

\* A character goes to the holding register; transmit toggling raises RTS for it.
Send(p, char) ==
    LET sent == [p EXCEPT !.thr = char, !.HoldingEmpty = FALSE, !.thri = FALSE]
    IN IF Toggles(p) THEN InsertDpc(Raise(sent, "RTS")) ELSE sent

SentXoff(p) ==
    LET sent == [Send(p, "XOFF") EXCEPT !.send = "none"]
        held == [sent EXCEPT !.TXHolding = {"XOFF"}]
    IN IF p.hf.xoffContinue THEN sent
       ELSE IF Toggles(p) THEN InsertDpc(held) ELSE held

\* What the empty holding register is given: Xon even if held up by an Xoff, an
\* immediate character too, Xoff and data only if nothing holds transmission up.
SendNext(p) ==
    IF p.send = "XON" /\ p.TXHolding \subseteq {"XOFF"}
      THEN [Send(p, "XON") EXCEPT !.send = "none", !.TXHolding = {},
                                  !.RXHolding = @ \ {"XOFF"}]
    ELSE IF p.send = "XOFF" /\ p.TXHolding = {} THEN SentXoff(p)
    ELSE IF TransmitImmediate(p) /\ p.TXHolding \subseteq {"XOFF"}
      THEN [Send(p, "data") EXCEPT !.immediate = "sent"]
    ELSE IF p.TXHolding = {} /\ p.WriteLength > 0
      THEN [Send(p, "data") EXCEPT !.WriteLength = @ - 1]
    ELSE p

\* The transmit interrupt first looks at the lines that can stop it.
ReadyToSend(p, inputs) ==
    LET empty == [p EXCEPT !.thri = FALSE, !.HoldingEmpty = TRUE]
    IN IF (p.WriteLength = 0 /\ ~TransmitImmediate(p) /\ p.send = "none") \/ p.hf.out = {}
         THEN empty ELSE SerialHandleModemUpdate(empty, inputs, TRUE)

\* SerialISR serves the received character before the transmitter before the modem
\* lines, one after another until nothing is pending.
Pending(p) == p.rbr # "none" \/ p.thri \/ p.msi

\* Then, if transmission may go on and nobody else will see to it, it does.
MayTransmit(p) ==
    p.thr = "none" /\ p.TXHolding = {} /\ (p.WriteLength > 0 \/ TransmitImmediate(p))
NeverContinues(p) == FALSE                 \* mutant: transmission is not restarted
Continues(p) == MayTransmit(p)

\* While the port is not open, the interrupts are only taken back.
TakenUnread(p) == [p EXCEPT !.thri = FALSE, !.msi = FALSE]  \* mutant: does not read it
TakenBack(p) ==
    [p EXCEPT !.rbr = "none", !.thri = FALSE, !.msi = FALSE,
              !.HoldingEmpty = IF p.thri THEN TRUE ELSE @]

\* SerialSetupNewHandFlow for one line set to handshaking: up if there is room.  (The
\* code asks for more than the Xon limit where it means less; the line is never held
\* here, as it was not handshaking before.)
Handshake(p, line) ==
    IF BufferSize - XoffLimit > p.Chars
      THEN IF line \notin p.RXHolding THEN Raise(p, line)
           ELSE IF p.Chars > XonLimit
             THEN Raise([p EXCEPT !.RXHolding = @ \ {line}], line) ELSE p
      ELSE Lower([p EXCEPT !.RXHolding = @ \cup {line}], line)

StartToggling(p) ==
    LET toggling == [p EXCEPT !.hf.RTS = "toggle",
                              !.HoldingEmpty = IF "BREAK" \in p.TXHolding THEN @
                                               ELSE p.thr = "none"]
    IN IF KeepsRTS(p) \/ ~HardwareEmpty(p) THEN Raise(toggling, "RTS")
                                           ELSE TryToLowerRTS(toggling)

ResetLine(p, line, how) ==
    LET unheld == [p EXCEPT !.RXHolding = @ \ {line}]
    IN CASE how = "handshake" -> Handshake(p, line)
         [] how = "control"   -> Raise(unheld, line)
         [] how = "toggle"    -> StartToggling(unheld)
         [] how = "off"       -> Lower(unheld, line)

ResetAutoReceive(p, on) ==
    IF on
      THEN IF BufferSize - XoffLimit <= p.Chars
             THEN SerialProdXonXoff([p EXCEPT !.RXHolding = @ \cup {"XOFF"}], "XOFF")
             ELSE p
    ELSE IF "XOFF" \in p.RXHolding
      THEN SerialProdXonXoff([p EXCEPT !.RXHolding = @ \ {"XOFF"}], "XON") ELSE p

\* On an open port only what changes is done.
SetLine(p, line, how) == IF how = p.hf[line] THEN p ELSE ResetLine(p, line, how)
SetAutoReceive(p, on) == IF on = p.hf.autoReceive THEN p ELSE ResetAutoReceive(p, on)

SetAutoTransmit(p, on) ==
    IF on = p.hf.autoTransmit \/ on \/ "XOFF" \notin p.TXHolding THEN p
    ELSE SerialProdXonXoff([p EXCEPT !.TXHolding = @ \ {"XOFF"}], "XON")

SerialSetupNewHandFlow(p, new) ==
    LET lined == SetLine(SetLine(p, "DTR", new.DTR), "RTS", new.RTS)
    IN [SetAutoTransmit(SetAutoReceive(lined, new.autoReceive), new.autoTransmit)
            EXCEPT !.hf = new]

SerialSetHandFlow(p, new, inputs) ==
    SerialHandleModemUpdate(SerialSetupNewHandFlow(p, new), inputs, FALSE)

\* SerialReset, for an open: the flow control is that of the last open, all of it is
\* done again, and transmission has nothing to do.
SerialReset(p, inputs) ==
    LET quiet == [p EXCEPT !.rbr = "none", !.thri = FALSE]
        lined == ResetLine(ResetLine(quiet, "DTR", p.hf.DTR), "RTS", p.hf.RTS)
        flowing == ResetAutoReceive(lined, p.hf.autoReceive)
    IN [SerialHandleModemUpdate(flowing, inputs, FALSE) EXCEPT !.HoldingEmpty = TRUE]

SerialTurnOnBreak(p) ==
    LET on == [p EXCEPT !.TXHolding = @ \cup {"BREAK"}]
    IN IF Toggles(p) THEN Raise(on, "RTS") ELSE on

SerialTurnOffBreak(p) ==
    LET off == [p EXCEPT !.TXHolding = @ \ {"BREAK"}]
        MayGoOn == off.TXHolding = {} /\ (TransmitImmediate(p) \/ p.WriteLength > 0)
                   /\ p.HoldingEmpty
    IN IF "BREAK" \notin p.TXHolding THEN p
       ELSE IF MayGoOn THEN Poke(off) ELSE TryToLowerRTS(off)

SerialPretendXoff(p) ==
    LET held == [p EXCEPT !.TXHolding = @ \cup {"XOFF"}]
    IN IF Toggles(p) THEN InsertDpc(held) ELSE held

SerialPretendXon(p) ==
    IF p.TXHolding = {} THEN p ELSE Resume([p EXCEPT !.TXHolding = @ \ {"XOFF"}])

\* SerialStartWrite and SerialGiveWriteToIsr.
SerialStartWrite(p, length) ==
    LET given == [p EXCEPT !.CurrentWrite = TRUE, !.WriteLength = length]
        tickled == IF ~TransmitImmediate(p) /\ p.HoldingEmpty THEN Poke(given) ELSE given
    IN IF Toggles(p) THEN Raise(tickled, "RTS") ELSE tickled

SerialGiveImmediateToIsr(p) ==
    LET given == [p EXCEPT !.immediate = "waiting"]
    IN IF p.WriteLength = 0 /\ p.HoldingEmpty THEN Poke(given) ELSE given

\* SerialProcessEmptyTransmit: told is that the event is watched and a character was
\* sent since.
SerialProcessEmptyTransmit(p, told) ==
    IF told /\ ~TransmitImmediate(p) /\ ~p.CurrentWrite /\ p.queued = 0
      THEN TryToLowerRTS(p) ELSE p

\* SerialGetNextWrite: the current write has ended; length is the next one's, or 0 if
\* the queue gives none.
NextUnasked(p, length, told) ==            \* mutant: does not ask if there is a next one
    SerialStartWrite([p EXCEPT !.queued = @ - 1], length)
SerialGetNextWrite(p, length, told) ==
    LET ended == [p EXCEPT !.CurrentWrite = FALSE, !.WriteLength = 0]
    IN IF p.queued > 0 /\ length > 0
         THEN SerialStartWrite([ended EXCEPT !.queued = @ - 1], length)
         ELSE SerialProcessEmptyTransmit(ended, told)

SerialGetNextImmediate(p, told) ==
    SerialProcessEmptyTransmit([p EXCEPT !.immediate = "no"], told)

-------------------------------------------------------------------------------
(* What a step of the port e does to the record of e, and to its neighbour's inputs. *)

Connected(e, new) ==
    [port EXCEPT ![e] = new, ![Peer[e]].msi = @ \/ new.lines # port[e].lines]

\* WdfInterruptSynchronize waits for the interrupt routine.
Update(e, new) == ~port[e].inIsr /\ port' = Connected(e, new)

DeviceIsOpened(e) == phase[e] \in {"open", "stopping"}
Interrupts(e) == DeviceIsOpened(e) \/ phase[e] \in {"flushing", "draining"}

\* SerialISR holds the interrupt lock (inIsr) from its first cause to its last.
Served(e, new) ==
    /\ port' = Connected(e, [new EXCEPT !.inIsr = TRUE])
    /\ UNCHANGED <<phase, requested, events>>

InterruptReceive(e) ==
    /\ DeviceIsOpened(e) /\ port[e].rbr # "none"
    /\ \E p \in {Received(port[e], Inputs(e))} : Served(e, LineStatus(p))

InterruptTransmit(e) ==
    /\ DeviceIsOpened(e) /\ port[e].rbr = "none"
    /\ \/ port[e].thri
       \/ port[e].inIsr /\ ~Pending(port[e]) /\ Continues(port[e])
    /\ \E p \in {ReadyToSend(port[e], Inputs(e))} : Served(e, SendNext(p))

InterruptModem(e) ==
    /\ DeviceIsOpened(e) /\ port[e].rbr = "none" /\ ~port[e].thri /\ port[e].msi
    /\ \E p \in {SerialHandleModemUpdate(port[e], Inputs(e), FALSE)} : Served(e, p)

InterruptClosed(e) ==
    /\ phase[e] \in {"flushing", "draining"} /\ Pending(port[e])
    /\ Served(e, TakenBack(port[e]))

InterruptReturn(e) ==
    /\ port[e].inIsr /\ ~Pending(port[e])
    /\ DeviceIsOpened(e) => ~Continues(port[e])
    /\ port' = [port EXCEPT ![e].inIsr = FALSE, ![e].HoldingEmpty =
                   IF DeviceIsOpened(e) THEN port[e].thr = "none" ELSE @]
    /\ UNCHANGED <<phase, requested, events>>

Interrupt(e) ==
    InterruptReceive(e) \/ InterruptTransmit(e) \/ InterruptModem(e)
    \/ InterruptClosed(e) \/ InterruptReturn(e)

\* The UART: the holding register empties into the shift register, with an interrupt,
\* and that arrives at the other end, whose interrupt is assumed to be in time.
Shift(e) ==
    /\ port[e].thr # "none" /\ port[e].tsr = "none"
    /\ port' = [port EXCEPT
          ![e] = [@ EXCEPT !.tsr = port[e].thr, !.thr = "none", !.thri = TRUE]]
    /\ UNCHANGED <<phase, requested, events>>

Arrive(e) ==
    LET o == Peer[e]
    IN /\ port[e].tsr # "none"
       /\ port[o].rbr = "none"
       /\ port' = [port EXCEPT ![e].tsr = "none",
                               ![o].rbr = IF Interrupts(o) THEN port[e].tsr ELSE "none"]
       /\ UNCHANGED <<phase, requested, events>>

\* DPCs and the timer.  Queues that a suspend has stopped give out nothing.
Retrieved(e) == IF phase[e] = "open" THEN Lengths ELSE {0}

SerialCompleteWrite(e) ==
    /\ port[e].CurrentWrite /\ port[e].WriteLength = 0
    /\ \E length \in Retrieved(e), emptied \in BOOLEAN :
         Update(e, SerialGetNextWrite(port[e], length, emptied /\ WatchesEmpty[e]))
    /\ UNCHANGED <<phase, requested, events>>

SerialCompleteImmediate(e) ==
    /\ port[e].immediate = "sent"
    /\ \E emptied \in BOOLEAN :
         Update(e, SerialGetNextImmediate(port[e], emptied /\ WatchesEmpty[e]))
    /\ UNCHANGED <<phase, requested, events>>

SerialStartTimer(p) == [p EXCEPT !.timer = TRUE, !.count = IF p.timer THEN @ - 1 ELSE @]

SerialStartTimerLowerRTS(e) ==
    /\ port[e].dpc
    /\ Update(e, SerialStartTimer([port[e] EXCEPT !.dpc = FALSE]))
    /\ UNCHANGED <<phase, requested, events>>

\* LowerRTSTimer runs out.  It is assumed not to run out twice before its callback.
Expire(e) ==
    /\ port[e].timer /\ ~port[e].fired
    /\ port' = [port EXCEPT ![e].timer = FALSE, ![e].fired = TRUE]
    /\ UNCHANGED <<phase, requested, events>>

SerialInvokePerhapsLowerRTS(e) ==
    /\ port[e].fired
    /\ Update(e, SerialPerhapsLowerRTS([port[e] EXCEPT !.fired = FALSE]))
    /\ UNCHANGED <<phase, requested, events>>

-------------------------------------------------------------------------------
(* Requests *)

Counted(e, kind) ==
    /\ kind \in Requests[e] /\ events < MaxEvents
    /\ events' = events + 1

Asked(e, kind) ==
    /\ Counted(e, kind) /\ requested[e] < MaxRequests[e]
    /\ requested' = [requested EXCEPT ![e] = @ + 1]
    /\ UNCHANGED phase

Ask(e, kind) == phase[e] = "open" /\ Asked(e, kind)

\* A read takes what the typeahead buffer has, or waits for a character.
Read(e) ==
    /\ phase[e] = "open" /\ port[e].Chars > 0
    /\ \E taken \in 1 .. port[e].Chars :
         Update(e, SerialHandleReducedIntBuffer([port[e] EXCEPT !.Chars = @ - taken]))
    /\ UNCHANGED <<phase, requested, events>>

ReadWaits(e) ==
    /\ "read" \in Requests[e]
    /\ phase[e] = "open" /\ port[e].Chars = 0 /\ ~port[e].userBuffer
    /\ Update(e, [port[e] EXCEPT !.userBuffer = TRUE])
    /\ UNCHANGED <<phase, requested, events>>

Write(e) ==
    /\ Ask(e, "write")
    /\ IF port[e].CurrentWrite \/ port[e].queued > 0
         THEN Update(e, [port[e] EXCEPT !.queued = @ + 1])
         ELSE \E length \in Lengths : Update(e, SerialStartWrite(port[e], length))

Immediate(e) ==
    /\ Ask(e, "immediate")
    /\ port[e].immediate = "no"
    /\ Update(e, SerialGiveImmediateToIsr(port[e]))

\* A timeout or a cancel takes back a write or an immediate character; a timeout may
\* come while the system sleeps.
End(e) == phase[e] \notin Closing /\ Asked(e, "end")

EndWrite(e) ==
    /\ End(e)
    /\ port[e].CurrentWrite
    /\ \E length \in Retrieved(e), emptied \in BOOLEAN :
         Update(e, SerialGetNextWrite(port[e], length, emptied /\ WatchesEmpty[e]))

EndImmediate(e) ==
    /\ End(e)
    /\ port[e].immediate # "no"
    /\ \E emptied \in BOOLEAN :
         Update(e, SerialGetNextImmediate(port[e], emptied /\ WatchesEmpty[e]))

SetXoff(e) == Ask(e, "xoff") /\ Update(e, SerialPretendXoff(port[e]))
SetXon(e) == Ask(e, "xon") /\ Update(e, SerialPretendXon(port[e]))
SetBreakOn(e) == Ask(e, "breakOn") /\ Update(e, SerialTurnOnBreak(port[e]))
SetBreakOff(e) == Ask(e, "breakOff") /\ Update(e, SerialTurnOffBreak(port[e]))

\* IOCTL_SERIAL_SET_RTS, CLR_RTS, SET_DTR, CLR_DTR: refused while flow control has it.
SetModemLine(e) ==
    /\ Ask(e, "lines")
    /\ \E line \in {"RTS", "DTR"} :
         /\ port[e].hf[line] \notin {"handshake", "toggle"}
         /\ \/ Update(e, Raise(port[e], line))
            \/ Update(e, Lower(port[e], line))

SetHandFlow(e) ==
    /\ Ask(e, "handflow")
    /\ \E new \in HandFlows[e] : Update(e, SerialSetHandFlow(port[e], new, Inputs(e)))

-------------------------------------------------------------------------------
(* Close.  The requests have been completed or cancelled before. *)

Turn(e, from, to) ==
    phase[e] = from /\ phase' = [phase EXCEPT ![e] = to] /\ UNCHANGED requested
Enter(e, from, to) == Turn(e, from, to) /\ UNCHANGED events

\* A close or a suspend begins.
Stop(e, kind, to) == Turn(e, "open", to) /\ Counted(e, kind)

SerialFileCloseWorker(e) ==
    LET p == port[e]
    IN /\ ~p.CurrentWrite /\ p.immediate = "no" /\ p.queued = 0
       /\ Stop(e, "close", "flushing")
       /\ Update(e, SerialTurnOffBreak([p EXCEPT !.userBuffer = FALSE]))

\* The hardware has drained; interrupts are turned off; an Xoff is made up for.
OwesPending(p) == p.send = "XON"           \* mutant: only if one is about to be sent
OwesXon(p) == "XOFF" \in p.RXHolding
SerialMarkClose(e) ==
    LET p == port[e]
        marked == [p EXCEPT !.thri = FALSE, !.msi = FALSE, !.rbr = "none"]
    IN /\ HardwareEmpty(p)
       /\ Enter(e, "flushing", "marked")
       /\ Update(e, IF OwesXon(p) THEN [marked EXCEPT !.thr = "XON"] ELSE marked)

DropDTR(e) ==
    /\ HardwareEmpty(port[e])
    /\ Enter(e, "marked", "drained")
    /\ Update(e, Lower(port[e], "DTR"))

\* RTS is lowered, and the timers and DPCs cancelled, when no path is left.
NotWaited(p) == TRUE                       \* mutant: does not wait for the count
NoneLeft(p) == p.count = 0
DropRTS(e) ==
    /\ NoneLeft(port[e])
    /\ Enter(e, "drained", "closed")
    /\ Update(e, [Lower(port[e], "RTS") EXCEPT !.RXHolding = {}, !.TXHolding = {}])

\* The next open.  What it does not reset is as the close left it: the count, the
\* DPC and the timer.
SerialDeviceFileCreateWorker(e) ==
    /\ "open" \in Requests[e]
    /\ Enter(e, "closed", "open")
    /\ Update(e, SerialReset([port[e] EXCEPT !.Chars = 0, !.send = "none", !.told = "XON"],
                           Inputs(e)))

-------------------------------------------------------------------------------
(* Suspend.  The queues stop and keep what is in progress; the UART is disabled and     *)
(* drains, and loses its power, and the lines with it.                                  *)

SerialEvtIoStop(e) ==
    /\ Stop(e, "suspend", "stopping")
    /\ UNCHANGED port

SerialEvtDeviceD0Exit(e) == Enter(e, "stopping", "draining") /\ Update(e, port[e])

PoweredDown(p) ==
    [p EXCEPT !.saved = p.lines, !.lines = {}, !.rbr = "none", !.thri = FALSE, !.msi = FALSE]
SerialSaveDeviceState(e) ==
    /\ HardwareEmpty(port[e])
    /\ Enter(e, "draining", "asleep")
    /\ Update(e, PoweredDown(port[e]))

\* On the way up the modem status is read and forgotten; enabling the UART's interrupts
\* "refires the state machine".
NotRefired(p) ==                           \* mutant: the interrupts are not toggled
    [p EXCEPT !.lines = p.saved, !.saved = {}, !.msi = FALSE, !.told = "XON"]
PoweredUp(p) ==
    [Poke(p) EXCEPT !.lines = p.saved, !.saved = {}, !.msi = FALSE, !.told = "XON"]
SerialEvtDeviceD0Entry(e) ==
    Enter(e, "asleep", "open") /\ Update(e, PoweredUp(port[e]))

-------------------------------------------------------------------------------
(* Both ports have been opened, and have asked for some flow control. *)

Up(hf) == {line \in {"RTS", "DTR"} : hf[line] \in {"handshake", "control"}}

Opened(hf, inputs) == [
    hf |-> hf, TXHolding |-> hf.out \ inputs,
    RXHolding |-> IF hf.sensitive /\ "DSR" \notin inputs THEN {"DSR"} ELSE {},
    send |-> "none", HoldingEmpty |-> TRUE, CurrentWrite |-> FALSE, WriteLength |-> 0,
    queued |-> 0, immediate |-> "no", Chars |-> 0, userBuffer |-> FALSE, count |-> 0,
    dpc |-> FALSE, timer |-> FALSE, fired |-> FALSE, lines |-> Up(hf), saved |-> {},
    thr |-> "none", tsr |-> "none", rbr |-> "none", thri |-> FALSE, msi |-> FALSE,
    inIsr |-> FALSE, told |-> "XON"]

Init ==
    /\ \E hf \in [Ends -> HandFlow] :
         /\ \A e \in Ends : hf[e] \in HandFlows[e]
         /\ port = [e \in Ends |-> Opened(hf[e],
                       {line \in OutLines : Wire(line) \in Up(hf[Peer[e]])})]
    /\ phase = [e \in Ends |-> "open"]
    /\ requested = [e \in Ends |-> 0] /\ events = 0

Next == \E e \in Ends :
    \/ Interrupt(e) \/ Shift(e) \/ Arrive(e)
    \/ SerialCompleteWrite(e) \/ SerialCompleteImmediate(e)
    \/ SerialStartTimerLowerRTS(e) \/ Expire(e) \/ SerialInvokePerhapsLowerRTS(e)
    \/ Read(e) \/ ReadWaits(e)
    \/ Write(e) \/ Immediate(e) \/ EndWrite(e) \/ EndImmediate(e)
    \/ SetXoff(e) \/ SetXon(e) \/ SetBreakOn(e) \/ SetBreakOff(e)
    \/ SetModemLine(e) \/ SetHandFlow(e)
    \/ SerialFileCloseWorker(e) \/ SerialMarkClose(e) \/ DropDTR(e) \/ DropRTS(e)
    \/ SerialDeviceFileCreateWorker(e)
    \/ SerialEvtIoStop(e) \/ SerialEvtDeviceD0Exit(e) \/ SerialSaveDeviceState(e)
    \/ SerialEvtDeviceD0Entry(e)

Spec == Init /\ [][Next]_vars

\* The hardware goes on, DPCs and timers that are dispatched run, a close or a suspend
\* that has begun proceeds, a system that sleeps is woken, and the application goes on
\* reading.
Complete(e) == SerialCompleteWrite(e) \/ SerialCompleteImmediate(e)
Lowering(e) == SerialStartTimerLowerRTS(e) \/ Expire(e) \/ SerialInvokePerhapsLowerRTS(e)
Proceed(e) ==
    \/ SerialMarkClose(e) \/ DropDTR(e) \/ DropRTS(e)
    \/ SerialEvtDeviceD0Exit(e) \/ SerialSaveDeviceState(e) \/ SerialEvtDeviceD0Entry(e)
Fairness == \A e \in Ends :
    /\ WF_vars(Interrupt(e)) /\ WF_vars(Shift(e)) /\ WF_vars(Arrive(e))
    /\ WF_vars(Complete(e)) /\ WF_vars(Lowering(e)) /\ WF_vars(Proceed(e))
    /\ WF_vars(Read(e))

FairSpec == Spec /\ Fairness

-------------------------------------------------------------------------------
(* Properties *)

\* Types.
TypeOK ==
    /\ port \in [Ends -> Port]
    /\ phase \in [Ends -> PHASES]
    /\ requested \in [Ends -> Nat] /\ events \in Nat

\* CountOfTryingToLowerRTS is exactly the number of DPCs, running timers and expired
\* timers that are on their way to lower RTS: the interrupt, the DPC, the timer and the
\* requests all change it, and a close waits for it to be zero.
Paths(p) == (IF p.dpc THEN 1 ELSE 0) + (IF p.timer THEN 1 ELSE 0) + (IF p.fired THEN 1 ELSE 0)
CountExact == \A e \in Ends : port[e].count = Paths(port[e])

\* Once a close has lowered RTS for good, no DPC or timer is left that could change it.
NoPathAfterClose == \A e \in Ends :
    phase[e] = "closed" => ~port[e].dpc /\ ~port[e].timer /\ ~port[e].fired

\* With transmit toggling, RTS is up for every character in the hardware and for a
\* break, up to the time the close takes over or the power goes.
RtsCoversTransmission == \A e \in Ends :
    Toggles(port[e]) /\ Interrupts(e)
        /\ (~HardwareEmpty(port[e]) \/ "BREAK" \in port[e].TXHolding)
      => "RTS" \in port[e].lines

\* Where the receiver handshakes with RTS and the sender obeys CTS, and RTS is only up
\* while the limits leave room for three characters (the two in the sender's hardware
\* and the one received), one that comes while the port is open never finds the
\* typeahead buffer full.
Settled(e) == "handflow" \notin Requests[e]
Handshaking(e) ==
    /\ XoffLimit >= 2 /\ XonLimit + 3 <= BufferSize
    /\ port[e].hf.RTS = "handshake" /\ Settled(e)
    /\ "CTS" \in port[Peer[e]].hf.out /\ Settled(Peer[e])
HandshakeNeverOverruns == \A e \in Ends :
    Handshaking(e) /\ DeviceIsOpened(e) /\ port[e].rbr = "data" => port[e].Chars < BufferSize

\* A close leaves nobody stopped by its Xoff: the last thing the other end has heard,
\* or is about to read, is not an Xoff, as long as it is open itself.  (An application
\* that had turned automatic reception off with the Xon still to be sent is another
\* matter.)
Heard(p) == IF p.rbr \in {"XON", "XOFF"} THEN p.rbr ELSE p.told
CloseLetsGo == \A e \in Ends :
    phase[e] = "closed" /\ port[e].hf.autoReceive /\ Settled(e) /\ phase[Peer[e]] = "open"
      => Heard(port[Peer[e]]) = "XON"

\* Reception held off with a line or an Xoff is let go again, if the application reads.
MayHold(e) == UNION {HoldsOff(hf) : hf \in HandFlows[e]}
HeldOffIsLetGo == \A e \in Ends : \A h \in MayHold(e) : []<>(h \notin port[e].RXHolding)

\* A write is not in progress for ever, unless a break holds it up, an Xoff that was
\* pretended or came before a sleep (the Xon of which may have been slept through), or
\* the other end is closing.
WritesEnd == \A e \in {o \in Ends : "write" \in Requests[o]} :
    []<>(\/ ~port[e].CurrentWrite
         \/ "BREAK" \in port[e].TXHolding
         \/ "XOFF" \in port[e].TXHolding /\ port[e].told = "XON"
         \/ phase[Peer[e]] \in Closing)

\* A close that has begun ends.
CloseEnds == \A e \in {o \in Ends : "close" \in Requests[o]} :
    phase[e] = "flushing" ~> phase[e] = "closed"

\* "It will cause an interrupt to occur if neccessary, to send the xon/xoff char"
\* (modmflow.c:1058): an Xon or Xoff does not stay unsent for ever with nothing to
\* hold it up.
MayStillBeHeld(e) ==
    \/ port[e].hf.out \ Inputs(e) # {} \/ "BREAK" \in port[e].TXHolding
    \/ port[e].send = "XOFF" /\ "XOFF" \in port[e].TXHolding
XonXoffIsSent == \A e \in Ends :
    []<>(port[e].send = "none" \/ MayStillBeHeld(e) \/ phase[e] # "open")
=============================================================================
