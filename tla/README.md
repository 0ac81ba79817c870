# A TLA+ verification project for the serial driver

The repository holds some fifty independent driver samples. This project is
about one of them, the KMDF driver for 16550 UARTs in `src/serial/serial`, which
has the hardest logic of its own: one interrupt, about ten DPCs, seven timers,
framework cancellations and the dispatch routines all act on the same requests,
and a hand-made reference protocol decides who completes each. The other samples
are listed in `PROJECT.json` and not modelled.

## 1. Inventory

Paths are relative to `src/serial/serial`.

### What all requests share (`utils.c`, `serialp.h`)

A *request context* hangs off each request: `RefCount` (a set of bits: `ISR`,
`CANCEL`, `TOTAL_TIMER`, `INT_TIMER`, `XOFF_REF`), `CancelRoutine`, `Cancelled`,
`Status`, `Information`, `Length`, `SystemBuffer`. A request of a queue goes through

1. `SerialCompleteIfError` (refused while an error is recorded and
   `SERIAL_ERROR_ABORT` is set), then `SerialStartOrQueue`: started if the queue is idle
   and nothing is current, else forwarded to a manual framework queue;
2. its *starter*, which arms the cancel routine, the timers and the interrupt,
   setting a reference bit for each;
3. any of: its completion DPC, its cancel routine, a timer, a purge. Each calls
   `SerialTryToCompleteCurrent`, which takes the request back from the interrupt
   (the *grab* routine), drops the bits of everybody it could stop and of its caller
   (`SerialRundownIrpRefs`), and completes the request if none is left;
4. `SerialGetNextRequest`, which makes the head of the queue current.

`SerialPurgeRequests`/`SerialFlushRequests` empty a queue (each request gets
`SerialEvtCanceledOnQueue` later) and call the cancel routine of the current request.

Hard: any order of the four ways to end a request; callbacks dispatched but not yet
running; cancellation before, while and after a request is marked cancelable; the
framework's queue state and the driver's current pointer disagreeing.
Correct means: whoever calls back finds its own request current with its own bit set;
a request is completed exactly once, when no bit is left; no request waits with
nobody to start it; each bit has somebody behind it.

### Components

| component | state | operations | interacts with |
|---|---|---|---|
| read path: `read.c`, part of `isr.c`, `purge.c` | `CurrentReadRequest`, ring buffer (`FirstReadableChar`, `CurrentCharSlot`, `CharsInInterruptBuffer`, `BufferSize`), `ReadBufferBase`, `CountOnLastRead`, `ReadByIsr`, two timers | read, resize (`SET_QUEUE_SIZE`), total and interval timeout, cancel, purge (`RXABORT`, `RXCLEAR`), received character | interrupt (lock: `WdfInterruptSynchronize`), flow control |
| write path: `write.c`, `immediat.c`, `flush.c`, part of `isr.c` | `CurrentWriteRequest`, `CurrentXoffRequest`, `CurrentImmediateRequest`, `WriteLength`, `TransmitImmediate`, `CountSinceXoff`, `TotalCharsQueued`, three timers | write, Xoff counter, immediate character, flush, timeouts, cancel, purge (`TXABORT`) | interrupt, flow control (`TXHolding`) |
| errors: `error.c`, `SerialProcessLSR` | `ErrorWord`, `CommErrorDpc` | line error; the DPC purges reads and writes | read and write paths |
| wait mask: `waitmask.c` | `CurrentMaskRequest`, `CurrentWaitRequest`, `IrpMaskLocation`, `IsrWaitMask`, `HistoryMask` | set mask, wait on mask, event in the interrupt, DPC, cancel | interrupt |
| flow control: `modmflow.c` | `TXHolding`, `RXHolding`, `HandFlow`, `ModemStatus`, `CountOfTryingToLowerRTS` | Xon/Xoff received and sent, DTR/RTS, break, transmit toggling | both paths, timers |
| device control: `ioctl.c`, `SerialGetDivisorFromBaud` | `CurrentBaud`, `LineControl`, the divisor latch and line control register | some forty requests, most set or report one field; baud rate, line control | all |
| open and close: `openclos.c` | `DeviceIsOpened`, the ring buffer | open, which resets the hardware; close, which drains the transmitter, makes up for an Xoff, waits for the counter of RTS paths, drains timers and DPCs | all |
| power, PnP: `power.c`, `pnp.c`, `SerialEvtIoStop`/`Resume` | saved registers, `MarkCancelableOnResume` | D0 exit drains the hardware and saves the lines; D0 entry puts them back and refires the state machine | current requests, all that holds or sends |
| support: `registry.c`, `wmi.c`, `log.c`, `qsfile.c`, `initunlo.c` | settings | start-up, queries | none |

Properties that make each correct, beyond the shared ones: *read*: the characters
come out in the order they came in, none twice, none missing except those an overrun,
a purge or an abort drops; a timed read ends. *write*: first come, first sent, no two
requests mixed on the wire, the count reported is the count sent, the output queue
count is exact, a flush means what it says, a timed write ends. *wait mask*: a wait is
given each event once, by one of interrupt, new mask, cancel. *flow control*: a sender
held off is let go; RTS is lowered after the last toggled transmission. *close*: no
callback after it. *suspend*: what was in progress goes on after the wake.
*line settings*: the UART of an open port runs with what the driver reports, on a divisor that is right.

## 2. Modules

| module | what it is |
|---|---|
| `SerialRead` | the read path: one action per handler, DPC, timer, cancel routine and interrupt step |
| `ByteStream` | what it promises about characters: a stream off whose front every read takes a piece |
| `SerialReadProofs` | the inductive invariant and the theorems about `SerialRead` |
| `RequestQueue` | a queue of requests as the framework keeps it: who waits in it, and a request cancelled out of the middle; used by the two paths and by `WriteLine` |
| `RequestQueueLemmas` | what those operators do to a queue, and what a sum over a finite set of requests does when one comes or goes |
| `SerialWrite` | writes, Xoff counters, immediate characters, flushes |
| `WriteLine` | what the write path promises: a line of requests, only its front on the wire |
| `SerialWriteProofs` | the inductive invariant and the theorems about `SerialWrite` |
| `SerialWriteRefinement` | the theorem that `SerialWrite` implements `WriteLine` |
| `SerialWait` | the wait mask: waits, new masks, events of the interrupt, cancels, and a system suspend |
| `EventRegister` | what the wait mask promises: each event watched is reported once |
| `SerialWaitProofs` | the inductive invariant of `SerialWait` |
| `SerialWaitRefinement` | the theorem that `SerialWait` implements `EventRegister` |
| `SerialFlow` | flow control, transmit toggling, close, the next open and a system suspend: two ports with this driver, joined by a null modem |
| `SerialFlowProofs` | the inductive invariant and the theorems about `SerialFlow` |
| `SerialLine` | the line settings: the divisor for a baud rate, line control, the break bit; open, close, suspend, power-down |
| `SerialLineProofs` | arithmetic of the divisor, the inductive invariant and the theorems about `SerialLine` |
| `MCSerialRead`, `MCSerialWrite`, `MCSerialWait`, `MCSerialFlow`, `MCSerialLine` | values of the constants, and symmetry, for TLC |

Each of the five models cuts the driver along one protocol and keeps of the others what that protocol
looks at: `SerialRead` and `SerialWrite` the life of a request, `SerialWait` one that has no
queue and no timer but meets a suspend, `SerialFlow` what the interrupt, the DPCs and the
timer do to the lines and the two holding masks, `SerialLine` the settings in the extension and in
the UART. In `SerialFlow` a write is a length and whether there is a
current one, a read takes what is in the typeahead buffer or waits for one character.

### How the models relate to the code

*The lock.* The queues of the driver share the framework's device-level
synchronization: dispatch routines, DPCs, timers and cancel callbacks exclude each
other. `pc = "idle"` is that lock being free. A callback is cut into several actions
only where the interrupt (or a flush, which runs outside the lock) can come between two of its
`WdfInterruptSynchronize` calls and be noticed; the other values of `pc` name the place.

*Callbacks.* A timer is `off`, `set` or `fired` (expired, callback not yet run: it can no
longer be stopped). A request's cancelation is `off`, `on` (marked cancelable) or `fired`. DPCs are
Booleans, since queueing one twice is once. Callbacks that are due come in any order: they may be
on different processors.

*The framework.* `CancelRequest` and the expiry of timers are external. A request
cancelled in a queue leaves it at once, its callback comes later
(`canceledOnQueue`). `WdfRequestMarkCancelable` on a request already cancelled
dispatches the cancel routine, which waits for the lock. `WDF_IO_QUEUE_IDLE` (`IsQueueEmpty`) is true
when nothing waits *and* every request taken out of that queue is completed.

*Reads.* The ring buffer is the sequence `intBuf` (its contents from
`FirstReadableChar` on); a user's buffer is a sequence that is only valid up to
`Information` or, in the interrupt, `CurrentCharSlot`; characters are numbered in the
order of arrival, so that loss, duplication and reordering are visible. `NumberNeededForRead` and
`CharsCopied` are the locals that survive an unlocked stretch. Both a read and a resize take the characters in two
steps, of which only the second holds the interrupt off: what the first copied stays counted in `intBuf`, `CharsCopied` of it, and the
second skips just as many (`Credited`). The buffer a resize brings is its `SystemBuffer` between its two steps, and `intBuf` after them. An overrun
that comes between writes its error character over one that is copied already, and the mark is lost, as in the code. The interval
timeout keeps the code's special values of `CountOnLastRead` (-3 to 0, and 1 for a count).

*Writes.* `OPS` are the three requests that may be in progress at once; `Current`, `Timer`,
`CompleteDpc` and `Left` (what the interrupt still has to send or count) are indexed by them,
standing for the three sets of fields of the same shape in the code. An Xoff counter is a write of
one character until it is out, then `Current["Xoff"]`. What is on the wire is `sent`.
What holds transmission up is chance here: a transmit interrupt need not come.

*Waits.* `SerialStartMask` never leaves a request in its queue, so `CurrentMaskRequest` is not a variable; a new mask
is one action, a wait two (it is marked cancelable, then given to the interrupt; events
come between). The six places that note an event have the same lines, `NoteEvents`. A suspend is three actions:
`EvtIoStop` takes the cancel routine away, `D0Exit` stops the interrupt, and
`D0Entry` with `EvtIoResume` gives both back.

*Flow.* A port is a record of the fields of the device extension and the UART that flow control reads or writes, and
each routine of `modmflow.c` an operator from record to record, so that an action, being one
interrupt, DPC, timer or synchronized request, is the composition the code makes. One run of
`SerialISR` is several actions, one per cause in the UART's order of priority, between which
`inIsr` keeps everything synchronized with it out and lets the hardware and the other port go on; the tail
that restarts transmission (`Continues`) is the condition on leaving. The UART is a holding register, a shift register
and a receive buffer of one character each (the driver's mode without FIFO), a pending transmit and a
pending modem interrupt (`thri`, `msi`). Disabling and enabling the UART's interrupts, by which the driver
starts transmission, sets `thri` if the holding register is empty. `KeepsRTS` has the precedence of
`||` and `&&` that `modmflow.c:1499-1502` has, not the one its comment has. A close is the phases
`flushing` (not opened, interrupts only taken back, break off), `marked` (interrupts
off, an Xon sent if an Xoff was), `drained` (DTR down) and `closed` (counter zero, RTS down). The next open is one action,
since it is one synchronized routine: `SerialReset` does all of the last flow control again, and leaves alone what the close has
waited for (the counter, the DPC, the timer). A suspend is the phases `stopping` (`EvtIoStop` has run: the queues keep
what they have, the interrupt still works), `draining` (`D0Exit`: interrupts only taken back) and `asleep` (lines saved and
down, whatever arrives is lost); DPCs, timers and timeouts go on in all three. `PoweredUp` puts the lines back, forgets the modem
changes of the time asleep, and pokes the transmitter. `told` is a history variable: the last Xon or Xoff a port has heard since its open or its wake.

*Line settings.* Each request writes the UART in one synchronized routine and is one action; there is no queue, timer or
DPC to interleave with. The divisor is computed as in the code: the denominator in 32 bits (`Wraps`), the quotient cut to a `SHORT`, the
latch as two bytes (`Latched`), the special cases of `utils.c:1800`. `SerialGetDivisorFromBaud` writes the special cases last; testing them first
gives the same result. Line control is a record of the register's fields; 1.5 and 2 stop bits are the same bit. `phase` is
`open`, `asleep` (a suspend of an open port), `closed`, or `down` (a closed port without power). An open
port saves its line control register at a power-down and has it back; a closed one has the last one saved put back, which does not matter
before the next open. The power comes back with registers that hold nothing of use.

*Left out.* Character values other than Xon and Xoff, masks and escapes; `WmiCommData`; logging; performance counters. The
wrapped copies out of the ring (`read.c:1104`, `:1604`) are sequence operations here. A request whose buffer
`WdfRequestRetrieveInputBuffer` or `...OutputBuffer` does not yield is completed at once with that error, before it touches anything
modelled. In `SerialFlow`
the two limits do not change (an open computes them from a buffer size that is no part of it); whether the transmitter was emptied since the wait
mask was last armed is a choice (`emptied`).

*Assumptions of `SerialFlow`.* The interrupt is in time: the UART's receive buffer never overruns. The
hardware drains at a close and at a suspend, so the loop of 320 characters is not left early. The power goes only from a port on which no close
has begun: a port that is closed has nothing to save. `LowerRTSTimer` does not expire a second time before the
callback of the first has run. (If it could, the framework would run one callback for two expiries, the counter would keep a
one for good and a close would hang; the timer is a character time, so this takes a DPC that late.)

## 3. Runs

Each cfg says what it instantiates. The passing ones:

| run | shows | why the bounds suffice |
|---|---|---|
| `read_life` | reads with both timers or ended by the first character, a resize, cancels, purges, overruns and the error character: references, queue, completion and the stream | two reads, so one is current and one queued and every hand-over happens, and a resize between them; three characters into a buffer of two that grows to three: they fill the read, or the buffer, or overrun; the first move of the resize takes none, one or two, and one more arrives, or marks the last one, before the second; reads of two, which the first-character mode cuts to one |
| `read_live` | a cancelled read ends; a comm error ends all that wait; a timed read ends; and the stream again, with comm errors | the interval timer keeps restarting beside the total timer or without one; the line may fall silent, and then nothing else would end the read |
| `write_life` | two writes among two immediate characters: order, counts, references, nobody stranded | one write current, one queued; one immediate character in its callbacks when the next is asked for; a FIFO larger than the write |
| `write_flush` | a write of two characters, an Xoff counter and a flush, with comm errors: a counter changes role, counts, is overtaken, cancelled | the write before or behind the counter, taken back after one character; the flush stops and starts the queue at every point |
| `write_live` | a cancelled request ends; a timed one ends | one request per operation; transmission may be held up for ever |
| `wait_life` | a wait ends once and by somebody; each event is reported once; a satisfied wait ends; one given up ends | the second wait takes what the first left in the history; an event of the interrupt and the one of the last write's end; any number of masks, events and suspends |
| `flow` | with RTS/CTS no character finds the buffer full; nobody stays held off; the write ends; the close ends and leaves nobody stopped; each also through a suspend of either end | a write longer than the typeahead buffer of three; room for the two characters in the sender's hardware, and one less would lose; the receiver holds off with RTS or with Xoff (two initial states); two of a write, a close and a suspend, so that either end sleeps before, in or after the write |
| `toggle` | the counter is exact, RTS covers transmission, a close leaves no path behind | any two requests out of eleven kinds, a suspend or a close with the next open, at any time, and a DPC, a running and an expired timer at once; a receiver that holds off with DTR and Xoff, and is itself deaf without DSR |
| `line_life` | an open port runs with what the driver reports; the divisor is the quotient rounded down, within one percent | the four clocks the code names and a fifth; bauds on both sides of each limit: the denominator's and the divisor's width, one percent, the clock, the special cases; valid and invalid line controls; opens, closes, suspends and power-downs in any number |

`ImplementsStream`, `ImplementsLine` and `ImplementsRegister` are the refinements: the detailed specification, seen
through the mapping at the end of its module, is a behaviour of `ByteStream`, `WriteLine` or `EventRegister`.
The mapping of a read gives the stream what is still in the typeahead buffer plus what the current read has been
given, or a resize in progress has moved; that of a write takes the current one and the queue as the line; that of a wait takes as due
what is in the history plus what is in the buffer of the wait not yet completed.

`NobodyStranded` and `SomebodyEndsIt` are only listed by the runs in which they hold; section 5
says how the first fails with a flush or behind a counter, and the second when a counter times out.
`CHECK_DEADLOCK` is off but for `SerialLine`: each application request is made a bounded number of times, and the system may come to rest.

*Bounds.* `ReadLengths`, `MaxLength`, `MaxBytes`, `MaxCounter` and the sets of requests are the only bounds; in `SerialFlow`, `Lengths` of writes, `MaxRequests`
per end, and `MaxEvents` for requests, closes and suspends of both ends together (an open follows a close and needs no bound); in `SerialLine` nothing but the sets of clocks, bauds and line controls; in the other modules each request is submitted once. Nothing else grows. Symmetry is used on requests of one kind in safety
runs only.

*What the divisor properties exclude.* The special cases, which are what the code says they are, and a divisor of more than 16
bits (`Fits`), for which section 5 has a run. The one percent is for the clocks with a limit of their own and from 9600 baud on, as
the code has it: the limit of 80000 that any other clock gets is one percent of 8 MHz only.

*What the flow properties exclude.* `HandshakeNeverOverruns` is for a receiver that handshakes with RTS and a sender that
obeys CTS, with limits that leave room for three characters wherever RTS may come up (`XoffLimit` at least two, `XonLimit` at least
three below the buffer's size), and neither changes its flow control meanwhile: an Xoff takes
effect too late to promise as much, and `SET_HANDFLOW` accepts any limits up to the size (`ioctl.c:1588-1597`), so that RTS may come up again with
no room for what CTS lets the sender start. The defaults, an eighth and a half of the buffer (`openclos.c:232-233`), have the room. `WritesEnd` excuses a
break, an Xoff the port has not heard since its open or wake (the application asked for it, or its Xon was slept through), and a
peer that is closing (whose lines go down).
`CloseLetsGo` is for a port whose automatic reception stays on: turning it off forgets that an Xoff was sent while its Xon
waits.

*Fairness* (`FairSpec`). In the request models: the callback that holds the lock goes on (weak; nothing can disable
it); a timer that is set expires (weak); callbacks waiting for the lock get it in the end
(strong, since the lock is taken and released meanwhile: DPCs, expired timers and cancel
callbacks are dispatched by the system and wait on a spin lock that is held for short
stretches only). For reads this is asked of the callbacks together, and of the interval timer's apart,
because that one can rearm itself for ever. No fairness is assumed of applications, of the
line, of flow control, of the interrupt or of the power manager; `CancelledEnds` of a wait therefore excuses a
suspend. In `SerialFlow` every part is weakly fair: interrupt routine, UART, the completion DPCs, the DPC and timer that lower RTS, a close that
has begun, and a suspend, which is woken: each group is disabled only by its own steps or for as long as the interrupt runs. There the
application has to go on reading, since a held-off sender is let go only by that; no fairness is asked of writes,
other requests, or of asking for a close, a suspend or an open.

## 4. Proofs

Five components have theorems. In each the invariant that TLC checks is not, or not obviously, inductive, and the module
says what has to be added.

### The read path

`SerialReadProofs` proves, for every set of reads and resizes, all sizes, timeouts and error settings that
satisfy the named assumptions of `SerialRead`, that every step preserves

    ReadInv == TypeOK /\ PlaceInv /\ ReferenceInv /\ IdleInv /\ StartInv /\ BufferInv

None of the safety properties is inductive alone. `ReferenceInv` is the heart of it: each
reference bit is set exactly when the callback or interrupt behind it can still come. To keep it
through `SerialTryToCompleteCurrent` one must know that a callback that comes finds its request
current, hence `IdleInv` (nothing is armed without a current request) and `StartInv` (a request
being started has no bit yet, and what the locals of the starter mean at each `pc`).
For a resize those locals say that the new buffer holds as many characters as are still counted in
the old one, or fewer (the ASSERT of `SerialUpdateAndSwitchToNew`).
`PlaceInv` puts each request in one place, so that ending one or taking the
next cannot complete one twice; `BufferInv` bounds the interrupt's offset, which type correctness rests on
(counts never go below zero). The proof has one lemma per
action; the actions that end a request share `TryToCompleteKeepsInv`, the ones that submit share
`SubmissionKeepsInv`.

### The write path

`SerialWriteProofs` proves, for every set of writes, counters, immediate characters and flushes, any lengths, timeouts
and error settings, that every step preserves

    WriteInv == RequestTypes /\ KindInv /\ PlaceInv /\ SizeInv /\ ReferenceInv /\ StartInv

The shape is that of `ReadInv`, but the three operations share one queue and one set of references, and a counter goes from
one operation to another in the middle of its life. `KindInv` and `PlaceInv` keep them apart: what is current in one
operation is current in no other, so that a cancel routine, which looks at an operation and not at a request, finds its own.
`Referred` ties each bit to its callback, with one exception that is the code's: the timer's bit of a counter may
outlive the timer. `SizeInv` says that the interrupt knows how much is left, and that a write not yet started has sent nothing, from
which the next one's start follows.

*One hypothesis.* The invariant breaks where a second Xoff counter takes the place of one that has not ended
(section 5, `XoffEndsBeforeNext`). `InvariantHolds` therefore supposes that it does not, as the ASSERT of `SerialGetNextWrite`
does; `OneCounterInvariant` and `OneCounterEnds` show that nothing has to be supposed while there is one counter at
most, whatever else is asked for. The other theorems inherit the hypothesis.

*Two properties need more*, and the runs that violate them show why. `SomebodyEndsThem` is for counters without a
timeout (`write_timeout`). `NobodyWaitsAlone` is for writes and immediate characters only (`write_notidle`, and the flush of
section 5); its proof adds to the invariant that the current write is the only request out of the queue that has not ended
(`QueueInv`), so that the framework calls the queue idle exactly when the driver has nothing current and nothing waits.

*The output queue count.* `OutQueueCount` says that `TotalCharsQueued` is the sum of what the requests not yet ended
cost; in the model it holds inside callbacks as well, since a request's end and the subtraction are one action. Its
invariant, `CountInv`, adds that the set of those requests is finite, which holds though `Requests` itself may be infinite. The sum is over a finite set of any size, defined by a fold, so its laws (an element more or less, two
summands that agree) are inductions over finite sets. Those are proved by a smallest counterexample, with the library's theorem that
a well-founded order has minimal elements, since the induction theorem itself is out of reach. `TypeCorrect` follows: `TotalCharsQueued` is
never negative, because each request is subtracted once and was added before.

*The refinement.* `SerialWriteRefinement` proves that `SerialWrite` implements `WriteLine` through the mapping that `SerialWrite` states: the line is
the current write and the queue behind it (`InLine`), and a request's result is what it was completed with (`Settlement`). Where the requests are
is `WriteInv`; what they report is not in it, so the proof adds `ReportInv`: a current write's `Information` is what was sent of it
whenever the interrupt has nothing left of it, its DPC is only queued when all of it is sent, and the status it is about to be completed with goes with that count. It
rests on `WriteInv` for the count (what the interrupt has left and what was sent make up the write), and is kept by the callbacks because
`SerialGrabWriteFromIsr` reports the difference. Each action then is a step of the line or a stutter: a submission is `Join` or `Refuse`,
the interrupt's `Transmit`, `SerialGetNextWrite` is `LeaveFront`, or `Withdraw(1)` if the write was cancelled in progress; a cancellation in the queue is `Withdraw`
and a purge or line error `Purge`, at once, though their callbacks come later; what ends a counter is `EndCounting`. The callbacks that end a
write are stutters: the line sees the end when the next write is taken. A counter whose timer ran out is never settled, which is the finding
of `write_timeout` and not a step of the line.

### The wait mask

`SerialWaitProofs` proves `WaitInv`, whose conjuncts are the shared properties of section 1 for a wait. They are
inductive together only: that the DPC finds a wait rests on nobody ending it before, that on the references,
and those on the DPC being queued when the interrupt gives its buffer back.

`SerialWaitRefinement` proves the refinement itself, for every set of waits and events: `Init` implies the register's
`Init` through the mapping, and under `WaitInv` each action is a step or a stutter of the register. One lemma per group of
actions names the step: an event is `Happen`, a new mask `Watch` (which may overtake the wait), the end of a
wait `Report`, `EndWithNothing` or `Cancel` by what is in its buffer and who ends it. The invariant is needed
for each: a report is `Report` only if what is in the buffer was due and the wait is the one that began.

### Flow control

`SerialFlowProofs` proves, for any buffer size and limits, any flow control and any number of requests,

    FlowInv == phases, requests, and for each end Fit(port[e], phase[e])

`Fit` says that the port has its type; that the counter is `Paths`, the number of DPCs and timers; that while the driver has the
port (`open`, `stopping`, `draining`, `flushing`) RTS covers transmission, and while it sleeps the saved lines do; that once a
close has begun nothing is being written; and that a closed port has no path. The argument is about routines, not actions: each operator *keeps* type, count and cover, one lemma
per routine, and an action is a composition of routines on one port, which `OnePort` lifts to both ends. The
counter goes wrong nowhere because the only decrements are in `SerialPerhapsLowerRTS`, after its caller counted a path or its own path
ended, and in `SerialStartTimer`, where two paths merge. Type correctness needs the phases: an empty write queue has
no next write.

Two more invariants speak of both ends of a cable and of what is between them.

    HandshakeInv == for each end that is Handshaking, ReadyIn and Room
    LetGoInv     == for each end, Wired, and if it is Asking, Owing

`ReadyIn`: RTS is up, or saved for the wake, only while it is not held and three characters have room. `Room`: what is in the buffer and
what is `Coming`, all that arrives up to the last data character in the other end's two registers and the received one, has room. RTS
alone is not inductive, since the sender looks at CTS only when it starts a character; `Room` alone is not either, since a character is
started for RTS being up. The third character is the one received but not yet in the buffer: it is what the code's one-early threshold
(`isr.c:1035`) is for, and the proof is where the condition on `XonLimit` was found.

`Owing`: as long as the last Xon or Xoff on its way to the other end, or heard there, is an Xoff, or an Xoff is to be sent, `SERIAL_RX_XOFF` is
held; from the mark of the close on, that last one is an Xon. `Wired` is what this needs of the hardware: a transmit interrupt is pending only for
an empty holding register, so that no Xoff is overwritten by data; a sleeper has received nothing; a drained port is empty, so
that the Xon reaches the other end before the close is over. A routine that neither sends, receives nor asks is *calm*; one lemma per routine says so, and
`CalmKeeps` and `CalmLets` carry it through both invariants, so that only the interrupt, the hardware, reads, the close, the open and
the suspend have proofs of their own.

### The line settings

`SerialLineProofs` proves, for any clocks from 19200 to 2^28, any LONG as a baud and any line controls,

    LineInv == TypeOK /\ SettingsKept /\ SleepKept /\ Accepted /\ LineControl.break = FALSE

`SettingsKept` speaks of an open port; through a suspend it needs `SleepKept`, which says what is saved. `DivisorIsRight`
rests on `Accepted`: `SerialReset` and `D0Entry` do not look at whether the baud is supported, and need not, since the first baud
is and an unsupported one is refused. The last conjunct is what makes an open put the register
right, and it is also why a break is lost (section 5). The arithmetic is in lemmas (one percent of a clock is the limit on its remainder, or the
remainder is too large to be one that is half the clock at most): an accepted baud is below 2^28, so that
16 times it has not wrapped; the denominator does not exceed the clock, so twice the remainder does not either, and nothing is
rounded up; a quotient of 16 bits survives the cast and the latch.

| theorem | property |
|---|---|
| `ReadInvariant` | `Spec => []ReadInv` |
| `TypeCorrect` | `TypeOK` of `SerialRead` |
| `NoStrayCallback` | `CallbacksFindTheirRead` |
| `InterruptWritesWhereItMay` | `InterruptOwnsALiveRead` |
| `CompletedOnce` | `CompletedForGood` |
| `NoReadStranded` | `NobodyStranded` |
| `InvariantHolds` | `Spec /\ XoffEndsBeforeNext => []WriteInv` |
| `OneCounterEnds`, `OneCounterInvariant` | with one counter at most, `Spec => XoffEndsBeforeNext` and `Spec => []WriteInv` |
| `TypeCorrect` | `TypeOK` of `SerialWrite` |
| `CallbacksFindIt` | `CallbacksFindTheirRequest` |
| `InterruptOwnsIt` | `InterruptOwnsALiveRequest` |
| `CompletedOnce` | `CompletedForGood` of `SerialWrite` |
| `SomebodyEndsThem` | `SomebodyEndsIt`, if no counter has a timeout |
| `NobodyWaitsAlone` | `NobodyStranded` of `SerialWrite`, without flushes and counters |
| `OutQueueIsCounted` | `OutQueueCount` |
| `WriteImplementsLine` | `Spec /\ XoffEndsBeforeNext => ImplementsLine` |
| `OneCounterImplementsLine` | with one counter at most, `Spec => ImplementsLine` |
| `WaitInvariant` | `Spec => []WaitInv` |
| `WaitImplementsRegister` | `ImplementsRegister` |
| `FlowTypes` | `TypeOK` of `SerialFlow` |
| `CountIsExact` | `CountExact` |
| `ClosedIsQuiet` | `NoPathAfterClose` |
| `TogglingIsCovered` | `RtsCoversTransmission` |
| `HandshakeHolds` | `HandshakeNeverOverruns` |
| `CloseIsHeard` | `CloseLetsGo` |
| `LineTypes` | `TypeOK` of `SerialLine` |
| `SettingsAreKept` | `SettingsKept` |
| `DivisorsAreRight` | `DivisorIsRight` |

Model-checked only: liveness (the prover does not treat fairness) and `ImplementsStream`.

## 5. Where the code and its comments disagree

Three are runs that TLC must find violated; `PROJECT.json` quotes the lines.

* `write_timeout`: `SerialTimeoutXoff` does not pass its timer on, so that the reference of the timer stays and
  the counter never completes.
* `write_notidle`: a counting Xoff counter that came through the queue keeps it from being idle, so a new
  write is queued behind nothing, and waits for good.
* `flow_stuck`: an Xon or Xoff asked for while CTS (or DSR, DCD, a break) holds transmission up is not sent when the line comes
  back, unless there is something else to send: `SerialHandleModemUpdate` and the tail of the interrupt look at
  `WriteLength` and `TransmitImmediate` only. The other end, stopped by an earlier Xoff, stays stopped.
The modules state six more, which TLC finds violated in seconds or minutes; they have no run:

* `FlushWaitsForWrites`: a flush (`flush.c:70`) does not wait for the write in progress, nor for those queued: the first write of a run
  is started by its dispatch routine and never enters the queue, and `WdfIoQueueStopSynchronously` waits only for
  requests given out by the queue. Check it as an INVARIANT of `SerialWrite_notidle.cfg` with
  `Flushes = {f1}` and `XoffCounters = {}`.
* `XoffEndsBeforeNext`: a second Xoff counter overwrites one whose last callback has yet to run (`write.c:383` asserts the opposite). Check
  it as a PROPERTY of `SerialWrite_timeout.cfg` with `XoffCounters = {x1, x2}` and `XoffTimeoutChoices = {FALSE}`.
* `NoBufferLeaked`: a resize cancelled in the queue leaks the buffer it brought: `SerialEvtCanceledOnQueue` (`utils.c:827`) looks
  for an `IoctlCode` that `SerialStartOrQueue` does not record for it. Check it as an INVARIANT of `SerialRead_life.cfg`, as the next three
  of `SerialLine_life.cfg`.
* `BreakStaysOn`: setting line control while a break is on ends the break on the wire, since the register is written from `LineControl`
  (`ioctl.c:946`), where the break bit never is; transmission stays stopped for a break, and the status still reports one, though `modmflow.c:724`
  says that the routine turns the break on and records the fact.
* `DivisorIsAppropriate`: a divisor of 17 bits (1 baud at 1843200 Hz) is cut to a `SHORT` (`utils.c:1756`) and the baud accepted, with
  a divisor that is not the "appropriate value" of `utils.c:1693`.
* `RoundsToNearest`: the code under the comment "Round up." (`utils.c:1760`) compares twice the remainder with the clock where the denominator is
  meant; it never rounds up (8900 baud at 1843200 Hz gets 12, and 13 is nearer).

`NobodyStranded` fails in a second way, with one flush and two writes (add `f1` to `Flushes` in
`SerialWrite_notidle.cfg` and drop `x1`): a write that ends while the flush has the queue stopped gets no
successor from `WdfIoQueueRetrieveNextRequest` (`utils.c:198`; the `ASSERTMSG` after it expects
`STATUS_NO_MORE_ENTRIES`), and when the manual queue is started again nobody takes the next write out.

Smaller ones, met on the way and not checked:

* `modmflow.c:1499-1502` and `:489-491` test `Current || Immediate || !QueueEmpty && !TXHolding`; the comments say that writes
  *that are not held up* keep RTS up, which would need parentheses: a held-up current write keeps it up too.
* `modmflow.c:1487-1489` counts on the end of a write to look at RTS again, but `SerialProcessEmptyTransmit` does so
  only if `SERIAL_EV_TXEMPTY` is watched; if the timer's callback runs between the last character and the write's DPC, RTS
  stays up until the next write.
* Sending an Xon clears `SERIAL_TX_XOFF` (`isr.c:578`) although that bit stands for an Xoff received from the other end.
* The Xon a close makes up for an Xoff goes out without raising RTS when transmit toggling is on.
* An Xon that arrives while the system sleeps is lost, and a write held up by the Xoff before it stays held up until the other end
  has another reason for an Xon. `WritesEnd` excuses it.
* `EvtIoStop` leaves a current write its timer; if that ends it while the queues are stopped, `WdfIoQueueRetrieveNextRequest`
  (`utils.c:198`) gives no successor, and the writes queued behind it are stranded, as with a flush above
  (`SerialStartOrQueue` starts a new one only if the queue is empty).
* A timer that lowers RTS while the power is off writes to a register that `D0Entry` overwrites with the saved lines: RTS stays up
  after the wake until the next write ends.
* If `WdfDeviceStopIdle` fails in an open (`openclos.c:204-207`), the buffer allocated before is not freed, and the next open
  overwrites its pointer.
* The limit on the remainder is on its own, not its share of the error: for a clock the code does not name it is 80000 whatever the clock.
* A closed port that wakes from an idle power-down gets back the line control register of the last suspend; if that was
  in a break, the line is in break until the next open.
* `SET_HANDFLOW` accepts an Xon limit at which RTS comes up with less room than the sender's hardware can fill: four characters, `XonLimit`
  and `XoffLimit` two, and the buffer overruns. `HandshakeNeverOverruns` leaves such limits out.
* A `SET_LINE_CONTROL` that is refused for its parity or stop bits has already changed what WMI reports (`WmiCommData`).

## 6. Not modelled, and the plan

Next, in this order:

1. `ImplementsStream` as a theorem from `ReadInv`.
2. `SerialRing`: the ring buffer with its offsets and its wrapped copies, as an
   implementation of the sequence `intBuf`.
3. `EvtIoStop`/`EvtIoResume` over reads and writes in `SerialRead` and `SerialWrite`, whose timers go on meanwhile, and there a
   close that is followed by an open.

Partly modelled: in the interrupt routine, the insertion of line and modem status into the stream
(`EscapeChar`), the replacement of null and error characters and the removal test; in device control, the requests that set or report one
field other than baud rate and line control; at a close or a suspend, hardware that never drains; of the registers saved,
those that flow control does not look at.

Not planned: registry, WMI, PnP resource parsing, logging (no protocol to get
wrong), and the other samples of the repository: each is a driver of its own with its own framework, and none shares code or state with this one.
