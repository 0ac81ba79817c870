----------------------------- MODULE SerialWrite -----------------------------
(***************************************************************************)
(* The write path of the serial driver: writes, Xoff counters (sent as a   *)
(* one-character write, then counting the characters received), immediate  *)
(* characters, and flushes.                                                *)
(*                                                                         *)
(* The three kinds of request that can be in progress at once are the      *)
(* operations in OPS.  What the code keeps in a separate field for each    *)
(* (CurrentWriteRequest, CurrentXoffRequest, CurrentImmediateRequest; the  *)
(* three timers; the three DPCs) is here a function on OPS.                *)
(*                                                                         *)
(* As in SerialRead, callbacks share one lock: pc is "idle" when it is     *)
(* free, and a callback is cut where the interrupt or a flush, which runs  *)
(* without the lock, can come in between.  A definition marked "mutant" is *)
(* a plausible slip in the one below it and is used by no other.           *)
(***************************************************************************)
EXTENDS RequestQueue, Functions

CONSTANTS
    Writes,               \* write requests
    XoffCounters,         \* IOCTL_SERIAL_XOFF_COUNTER requests
    Immediates,           \* IOCTL_SERIAL_IMMEDIATE_CHAR requests
    Flushes,              \* IRP_MJ_FLUSH_BUFFERS requests
    MaxLength,            \* longest write an application asks for
    MaxCounter,           \* largest count an Xoff counter asks for
    TxFifoAmount,         \* characters one transmit interrupt can hand over
    WriteTimeoutChoices,  \* is a write timeout set? (IOCTL_SERIAL_SET_TIMEOUTS)
    XoffTimeoutChoices,   \* does an Xoff counter bring a timeout?
    ErrorAbort,           \* SERIAL_ERROR_ABORT is set in ControlHandShake
    NULL                  \* no request

Queued   == Writes \cup XoffCounters       \* what travels through WriteQueue
Requests == Queued \cup Immediates

OPS  == {"Write", "Xoff", "Immediate"}
REFS == {"ISR", "CANCEL", "TOTAL_TIMER"}

ASSUME WriteRequestsAssumption ==
    /\ NULL \notin Requests
    /\ Writes \cap XoffCounters = {} /\ Queued \cap Immediates = {}
ASSUME WriteBoundsAssumption ==
    MaxLength \in Nat \ {0} /\ MaxCounter \in Nat \ {0} /\ TxFifoAmount \in Nat \ {0}
ASSUME WriteFlagsAssumption ==
    /\ WriteTimeoutChoices \subseteq BOOLEAN /\ WriteTimeoutChoices # {}
    /\ XoffTimeoutChoices \subseteq BOOLEAN /\ ErrorAbort \in BOOLEAN

VARIABLES
    WriteQueue,             \* requests waiting in the write queue
    WriteQueueStopped,      \* a flush has stopped the queue
    viaQueue,               \* requests the driver took out of the write queue
    canceledOnQueue,        \* cancelled while waiting; callback not run yet
    Current,                \* per operation: the request in progress, or NULL
    RefCount,               \* per request: who still refers to it
    cancelState,            \* "off", "on" (marked cancelable), "fired"
    CancelRoutine,          \* per request: operation whose routine is recorded
    Cancelled,              \* per request: a cancel routine has run for it
    Length, Information, Status, Xc,        \* request context, parameters
    completions,            \* how often each request was completed
    submitted, cancelAsked,                 \* what the application did
    Timer,                  \* per operation: "off", "set", "fired"
    CompleteDpc,            \* per operation: its completion DPC is queued
    CommErrorDpc,
    Left,                   \* per operation: characters the interrupt still has
                            \* to send (WriteLength, TransmitImmediate) or to
                            \* count (CountSinceXoff)
    ErrorWord,              \* an unreported error is recorded
    TotalCharsQueued,
    writeTimeout,           \* a write timeout is set
    sent,                   \* per queued request: characters put on the wire
    flushState,             \* per flush: "no", "waiting", "done"
    aheadOfFlush,           \* per flush: writes unfinished when it came
    pc                      \* where the callback holding the lock stands

contextVars == <<Length, Xc, submitted>>
queueVars   == <<WriteQueue, WriteQueueStopped, viaQueue, canceledOnQueue>>
referVars   == <<RefCount, cancelState, CancelRoutine, Cancelled, Timer>>
endVars     == <<Information, Status, completions>>
flushVars   == <<flushState, aheadOfFlush>>
isrVars     == <<Left, CompleteDpc, sent>>
errorVars   == <<ErrorWord, CommErrorDpc>>
vars == <<contextVars, queueVars, referVars, endVars, flushVars, isrVars, errorVars,
          Current, cancelAsked, TotalCharsQueued, writeTimeout, pc>>

Lesser(m, n) == IF m < n THEN m ELSE n
\* Characters a request adds to the output queue.
Cost(r) == IF r \in Writes THEN Length[r] ELSE 1

-------------------------------------------------------------------------------
Init ==
    /\ WriteQueue = <<>> /\ WriteQueueStopped = FALSE
    /\ viaQueue = {} /\ canceledOnQueue = {}
    /\ Current = [op \in OPS |-> NULL]
    /\ RefCount = [r \in Requests |-> {}]
    /\ cancelState = [r \in Requests |-> "off"]
    /\ CancelRoutine = [r \in Requests |-> "none"]
    /\ Cancelled = [r \in Requests |-> FALSE]
    /\ Length = [r \in Writes |-> 0]
    /\ Information = [r \in Requests |-> 0]
    /\ Status = [r \in Requests |-> "PENDING"]
    /\ Xc = [r \in XoffCounters |-> [Counter |-> 0, Timeout |-> FALSE]]
    /\ completions = [r \in Requests |-> 0]
    /\ submitted = {} /\ cancelAsked = {}
    /\ Timer = [op \in OPS |-> "off"]
    /\ CompleteDpc = [op \in OPS |-> FALSE]
    /\ Left = [op \in OPS |-> 0]
    /\ CommErrorDpc = FALSE /\ ErrorWord = FALSE
    /\ TotalCharsQueued = 0
    /\ writeTimeout \in WriteTimeoutChoices
    /\ sent = [r \in Queued |-> 0]
    /\ flushState = [f \in Flushes |-> "no"]
    /\ aheadOfFlush = [f \in Flushes |-> {}]
    /\ pc = "idle"

-------------------------------------------------------------------------------
(* Ending a request *)

\* A request refused, or cancelled on the queue, is completed there and then.
Finish(r, status) ==
    /\ completions' = [completions EXCEPT ![r] = @ + 1]
    /\ Status' = [Status EXCEPT ![r] = status]
    /\ Information' = [Information EXCEPT ![r] = 0]

\* SerialRundownIrpRefs and the Grab routines: the references of r, current as
\* op, that the caller refType can drop.  totalTimer: the caller passes the timer.
ClearedRefsOfFired(op, r, refType, grab, totalTimer) ==   \* mutant: expired counts
    {ref \in REFS :                                       \* as stopped
        \/ ref = "ISR" /\ (refType = "ISR" \/ (grab /\ Left[op] > 0))
        \/ ref = "CANCEL" /\ (refType = "CANCEL" \/ cancelState[r] = "on")
        \/ ref = "TOTAL_TIMER" /\ totalTimer /\ Timer[op] # "off"}

ClearedRefsNotOwn(op, r, refType, grab, totalTimer) ==    \* mutant: a timer keeps
    {ref \in REFS :                                       \* its own
        \/ ref = "ISR" /\ (refType = "ISR" \/ (grab /\ Left[op] > 0))
        \/ ref = "CANCEL" /\ (refType = "CANCEL" \/ cancelState[r] = "on")
        \/ ref = "TOTAL_TIMER" /\ totalTimer /\ Timer[op] = "set"}

ClearedRefsLateCancel(op, r, refType, grab, totalTimer) ==  \* mutant: a cancel
    {ref \in REFS :                                         \* routine keeps its own
        \/ ref = "ISR" /\ (refType = "ISR" \/ (grab /\ Left[op] > 0))
        \/ ref = "CANCEL" /\ cancelState[r] = "on"
        \/ ref = "TOTAL_TIMER" /\ totalTimer
           /\ (refType = "TOTAL_TIMER" \/ Timer[op] = "set")}

ClearedRefs(op, r, refType, grab, totalTimer) ==
    {ref \in REFS :
        \/ ref = "ISR" /\ (refType = "ISR" \/ (grab /\ Left[op] > 0))
        \/ ref = "CANCEL" /\ (refType = "CANCEL" \/ cancelState[r] = "on")
        \/ ref = "TOTAL_TIMER" /\ totalTimer
           /\ (refType = "TOTAL_TIMER" \/ Timer[op] = "set")}

\* SerialGrabWriteFromIsr: what a request taken back has sent so far.  Starting a
\* write also clears the count of the Xoff counter it overtakes.
GrabbedAll(op, r, refType) == Cost(r)      \* mutant: as if all had been sent
GrabbedInformation(op, r, refType) ==
    IF op = "Write" /\ Left[op] > 0 THEN Cost(r) - Left[op]
    ELSE IF refType = "XOFF_REF" THEN 0 ELSE Information[r]

\* SerialGetNextImmediate, or no routine at all for an Xoff counter.
EndWithoutNext(op, after) ==
    /\ Current' = [Current EXCEPT ![op] = NULL]
    /\ completions' = [completions EXCEPT ![Current[op]] = @ + 1]
    /\ TotalCharsQueued' = TotalCharsQueued - (IF op = "Immediate" THEN 1 ELSE 0)
    /\ pc' = after

\* SerialTryToCompleteCurrent.  grab: it is given the Grab routine of op; after:
\* what the caller goes on with.  A write that can be completed is left to
\* SerialGetNextWrite.  (XOFF_REF is set and dropped within this one step.)
TryToCompleteCurrent(op, status, refType, grab, totalTimer, after) ==
    LET r == Current[op]
        refs == RefCount[r] \ ClearedRefs(op, r, refType, grab, totalTimer)
        info == IF grab THEN GrabbedInformation(op, r, refType) ELSE Information[r]
        cancelCleared == refType = "CANCEL" \/ cancelState[r] = "on"
    IN
    /\ RefCount' = [RefCount EXCEPT ![r] = refs]
    /\ cancelState' = [cancelState EXCEPT ![r] = IF cancelCleared THEN "off" ELSE @]
    /\ CancelRoutine' = [CancelRoutine EXCEPT
                           ![r] = IF cancelCleared THEN "none" ELSE @]
    /\ Cancelled' = [Cancelled EXCEPT ![r] = @ \/ status = "CANCELLED"]
    /\ Timer' = [Timer EXCEPT ![op] =
                   IF refType = "TOTAL_TIMER" \/ (totalTimer /\ @ = "set")
                     THEN "off" ELSE @]
    /\ Left' = [Left EXCEPT ![op] = IF grab THEN 0 ELSE @]
    /\ Information' = [Information EXCEPT
                         ![r] = IF refs = {} /\ status = "CANCELLED" THEN 0 ELSE info]
    /\ Status' = [Status EXCEPT ![r] = IF refs = {} THEN status ELSE @]
    /\ \/ refs # {} /\ pc' = after /\ UNCHANGED <<Current, completions, TotalCharsQueued>>
       \/ refs = {} /\ op # "Write" /\ EndWithoutNext(op, after)
       \/ /\ refs = {} /\ op = "Write"
          /\ pc' = IF after = "idle" THEN "next" ELSE "purgeNext"
          /\ UNCHANGED <<Current, completions, TotalCharsQueued>>

\* A sent Xoff counter begins to count, unless it was cancelled meanwhile.
BecomesXoffUnchecked(r) == r \in XoffCounters    \* mutant: however it ended
BecomesXoff(r) == r \in XoffCounters /\ Status[r] = "SUCCESS" /\ ~Cancelled[r]

\* SerialSetCancelRoutine: marking a request already cancelled dispatches its
\* cancel routine at once.
MarkCancelable(r, op) ==
    /\ cancelState' = [cancelState EXCEPT
                         ![r] = IF r \in cancelAsked THEN "fired" ELSE "on"]
    /\ CancelRoutine' = [CancelRoutine EXCEPT ![r] = op]

\* SerialGetNextWrite gives the counter to the interrupt and to its timer.
StartXoff(r) ==
    /\ MarkCancelable(r, "Xoff")
    /\ Left' = [Left EXCEPT !["Xoff"] = Xc[r].Counter]
    /\ Timer' = IF Xc[r].Timeout THEN [Timer EXCEPT !["Xoff"] = "set"] ELSE Timer
    /\ RefCount' = [RefCount EXCEPT ![r] = {"CANCEL", "ISR"} \cup
                      (IF Xc[r].Timeout /\ Timer["Xoff"] # "set"
                         THEN {"TOTAL_TIMER"} ELSE {})]
    /\ UNCHANGED completions

\* WdfIoQueueRetrieveNextRequest gives nothing while the queue is stopped.
NextWriteNone == FALSE                     \* mutant: starts nothing
NextWrite == WriteQueue # <<>> /\ ~WriteQueueStopped

RestWithHead == WriteQueue                 \* mutant: it stays queued
RestOfQueue == Tail(WriteQueue)

UnsentOf(r) == Left["Write"]               \* mutant: only what is still to be sent
CostOf(r) == Cost(r)

\* SerialGetNextWrite: the old write is completed or begins to count, and the
\* head of the queue, if any, becomes current and is started.
SerialGetNextWrite ==
    /\ pc \in {"next", "purgeNext"}
    /\ LET r == Current["Write"]
           next == IF NextWrite THEN Head(WriteQueue) ELSE NULL
       IN
       /\ TotalCharsQueued' = TotalCharsQueued - CostOf(r)
       /\ \/ BecomesXoff(r) /\ StartXoff(r)
          \/ /\ ~BecomesXoff(r)
             /\ completions' = [completions EXCEPT ![r] = @ + 1]
             /\ UNCHANGED <<RefCount, cancelState, CancelRoutine, Timer, Left>>
       /\ Current' = [Current EXCEPT !["Write"] = next,
                                     !["Xoff"] = IF BecomesXoff(r) THEN r ELSE @]
       /\ IF next = NULL
            THEN /\ pc' = (IF pc = "next" THEN "idle" ELSE "purgeXoff")
                 /\ UNCHANGED <<WriteQueue, viaQueue>>
            ELSE /\ WriteQueue' = RestOfQueue
                 /\ viaQueue' = viaQueue \cup {next}
                 /\ pc' = "start"
    /\ UNCHANGED <<contextVars, WriteQueueStopped, canceledOnQueue, Cancelled,
                   Information, Status, flushVars, CompleteDpc, sent, errorVars,
                   cancelAsked, writeTimeout>>

-------------------------------------------------------------------------------
(* The queue handlers *)

\* IsQueueEmpty asks for WDF_IO_QUEUE_IDLE: nothing waits, and every request that
\* was taken out of the queue has been completed.
IsQueueEmpty == WriteQueue = <<>> /\ \A r \in viaQueue : completions[r] > 0

StartOrQueueUnchecked(r) ==                \* mutant: forgets the current one
    /\ IF IsQueueEmpty
         THEN /\ Current' = [Current EXCEPT !["Write"] = r]
              /\ pc' = "start"
              /\ UNCHANGED WriteQueue
         ELSE WriteQueue' = Append(WriteQueue, r) /\ UNCHANGED <<Current, pc>>

\* SerialStartOrQueue.
StartOrQueue(r) ==
    /\ IF IsQueueEmpty /\ Current["Write"] = NULL
         THEN /\ Current' = [Current EXCEPT !["Write"] = r]
              /\ pc' = "start"
              /\ UNCHANGED WriteQueue
         ELSE WriteQueue' = Append(WriteQueue, r) /\ UNCHANGED <<Current, pc>>

\* SerialCompleteIfError: a recorded error refuses new requests.
RefusedForError == ErrorAbort /\ ErrorWord

Refuse(r, status) ==
    /\ Finish(r, status)
    /\ UNCHANGED <<Length, Xc, Current, pc, WriteQueue, TotalCharsQueued>>

submitFrame == <<WriteQueueStopped, viaQueue, canceledOnQueue, flushVars, errorVars,
                 CompleteDpc, sent, Cancelled, cancelAsked, writeTimeout>>

SerialEvtIoWrite(r, n) ==
    /\ pc = "idle" /\ r \in Writes \ submitted
    /\ submitted' = submitted \cup {r}
    /\ \/ RefusedForError /\ Refuse(r, "CANCELLED")
       \/ /\ ~RefusedForError
          /\ Length' = [Length EXCEPT ![r] = n]
          /\ TotalCharsQueued' = TotalCharsQueued + n
          /\ StartOrQueue(r)
          /\ UNCHANGED <<Xc, endVars>>
    /\ UNCHANGED <<submitFrame, RefCount, cancelState, CancelRoutine, Timer, Left>>

\* IOCTL_SERIAL_XOFF_COUNTER.
XoffCounter(r, counter, timeout) ==
    /\ pc = "idle" /\ r \in XoffCounters \ submitted
    /\ submitted' = submitted \cup {r}
    /\ \/ RefusedForError /\ Refuse(r, "CANCELLED")
       \/ /\ ~RefusedForError
          /\ Xc' = [Xc EXCEPT ![r] = [Counter |-> counter, Timeout |-> timeout]]
          /\ TotalCharsQueued' = TotalCharsQueued + 1
          /\ StartOrQueue(r)
          /\ UNCHANGED <<Length, endVars>>
    /\ UNCHANGED <<submitFrame, RefCount, cancelState, CancelRoutine, Timer, Left>>

\* SerialStartImmediate and SerialGiveImmediateToIsr.
StartImmediate(r) ==
    /\ Current' = [Current EXCEPT !["Immediate"] = r]
    /\ MarkCancelable(r, "Immediate")
    /\ Timer' = IF writeTimeout THEN [Timer EXCEPT !["Immediate"] = "set"] ELSE Timer
    /\ RefCount' = [RefCount EXCEPT ![r] = {"CANCEL", "ISR"} \cup
                      (IF writeTimeout /\ Timer["Immediate"] # "set"
                         THEN {"TOTAL_TIMER"} ELSE {})]
    /\ Left' = [Left EXCEPT !["Immediate"] = 1]

\* IOCTL_SERIAL_IMMEDIATE_CHAR: one at a time, and never queued.
ImmediateTakenByIsr == Left["Immediate"] > 0   \* mutant: sent is thought ended
ImmediateTaken == Current["Immediate"] # NULL

ImmediateChar(r) ==
    /\ pc = "idle" /\ r \in Immediates \ submitted
    /\ submitted' = submitted \cup {r}
    /\ \/ /\ RefusedForError \/ ImmediateTaken
          /\ Refuse(r, IF RefusedForError THEN "CANCELLED" ELSE "INVALID_PARAMETER")
          /\ UNCHANGED <<RefCount, cancelState, CancelRoutine, Timer, Left>>
       \/ /\ ~RefusedForError /\ ~ImmediateTaken
          /\ TotalCharsQueued' = TotalCharsQueued + 1
          /\ StartImmediate(r)
          /\ UNCHANGED <<Length, Xc, endVars, pc, WriteQueue>>
    /\ UNCHANGED submitFrame

SetTimeouts(t) ==
    /\ pc = "idle" /\ ~RefusedForError /\ writeTimeout # t
    /\ writeTimeout' = t
    /\ UNCHANGED <<contextVars, queueVars, referVars, endVars, flushVars, isrVars,
                   errorVars, Current, cancelAsked, TotalCharsQueued, pc>>

\* IOCTL_SERIAL_GET_COMMSTATUS reports and clears the recorded errors.
GetCommStatus ==
    /\ pc = "idle" /\ ErrorWord
    /\ ErrorWord' = FALSE
    /\ UNCHANGED <<contextVars, queueVars, referVars, endVars, flushVars, isrVars,
                   CommErrorDpc, Current, cancelAsked, TotalCharsQueued,
                   writeTimeout, pc>>

-------------------------------------------------------------------------------
(* SerialStartWrite.  pc = "start" is its top. *)

callbackFrame == <<contextVars, queueVars, flushVars, sent, errorVars, cancelAsked,
                   writeTimeout>>

XoffIsCounting == Current["Xoff"] # NULL /\ RefCount[Current["Xoff"]] # {}

\* A new write overtakes the Xoff counter that is counting ...
OvertakeXoff ==
    /\ pc = "start"
    /\ \/ /\ XoffIsCounting
          /\ TryToCompleteCurrent("Xoff", "MORE_WRITES", "XOFF_REF", TRUE, TRUE, "give")
       \/ /\ ~XoffIsCounting
          /\ pc' = "give"
          /\ UNCHANGED <<referVars, endVars, Left, Current, TotalCharsQueued>>
    /\ UNCHANGED <<callbackFrame, CompleteDpc>>

\* ... and is then given a cancel routine, its timer, and to the interrupt
\* (SerialGiveWriteToIsr).
SerialStartWrite ==
    /\ pc = "give"
    /\ LET r == Current["Write"]
       IN /\ MarkCancelable(r, "Write")
          /\ Timer' = IF writeTimeout THEN [Timer EXCEPT !["Write"] = "set"] ELSE Timer
          /\ RefCount' = [RefCount EXCEPT ![r] = {"CANCEL", "ISR"} \cup
                            (IF writeTimeout /\ Timer["Write"] # "set"
                               THEN {"TOTAL_TIMER"} ELSE {})]
          /\ Left' = [Left EXCEPT !["Write"] = Cost(r)]
    /\ pc' = "idle"
    /\ UNCHANGED <<callbackFrame, CompleteDpc, Cancelled, endVars, Current,
                   TotalCharsQueued>>

-------------------------------------------------------------------------------
(* The callbacks that end requests.  Each finds the request it was set for;   *)
(* with Current[op] = NULL the code would stop at an ASSERTMSG.               *)

\* SerialCompleteWrite, SerialCompleteXoff, SerialCompleteImmediate: the DPCs.
SerialComplete(op) ==
    /\ pc = "idle" /\ CompleteDpc[op] /\ Current[op] # NULL
    /\ CompleteDpc' = [CompleteDpc EXCEPT ![op] = FALSE]
    /\ TryToCompleteCurrent(op, "SUCCESS", "ISR", FALSE, TRUE, "idle")
    /\ UNCHANGED callbackFrame

\* SerialWriteTimeout, SerialTimeoutImmediate, and SerialTimeoutXoff, which does
\* not pass its timer on.
PassesNoWriteTimer(op) == op = "Immediate" \* mutant: the same slip for writes
PassesTimer(op) == op # "Xoff"
SerialTimeout(op) ==
    /\ pc = "idle" /\ Timer[op] = "fired" /\ Current[op] # NULL
    /\ TryToCompleteCurrent(op, IF op = "Xoff" THEN "COUNTER_TIMEOUT" ELSE "TIMEOUT",
                            "TOTAL_TIMER", TRUE, PassesTimer(op), "idle")
    /\ UNCHANGED <<callbackFrame, CompleteDpc>>

\* SerialCancelCurrentWrite, SerialCancelCurrentXoff, SerialCancelImmediate.
SerialCancelCurrent(r) ==
    /\ pc = "idle" /\ cancelState[r] = "fired" /\ Current[CancelRoutine[r]] # NULL
    /\ TryToCompleteCurrent(CancelRoutine[r], "CANCELLED", "CANCEL", TRUE, TRUE, "idle")
    /\ UNCHANGED <<callbackFrame, CompleteDpc>>

\* SerialPurgeRequests calls the cancel routine of the current request, unless it
\* is dispatched already or none is recorded.
CallsCancelRoutine(r) ==
    /\ r # NULL
    /\ "CANCEL" \notin RefCount[r] \/ cancelState[r] = "on"
    /\ CancelRoutine[r] # "none"

\* SerialFlushRequests on the write queue and the current request of op.  It
\* starts the queue again, whoever stopped it.
FlushWrites(op, after) ==
    LET r == Current[op]
    IN /\ canceledOnQueue' = canceledOnQueue \cup Waiting(WriteQueue)
       /\ WriteQueue' = <<>> /\ WriteQueueStopped' = FALSE
       /\ \/ /\ CallsCancelRoutine(r)
             /\ TryToCompleteCurrent(CancelRoutine[r], "CANCELLED", "CANCEL", TRUE,
                                     TRUE, after)
          \/ /\ ~CallsCancelRoutine(r)
             /\ pc' = after
             /\ UNCHANGED <<referVars, endVars, Left, Current, TotalCharsQueued>>
       /\ UNCHANGED <<contextVars, viaQueue, flushVars, sent, CompleteDpc, ErrorWord,
                      cancelAsked, writeTimeout>>

\* SerialCommError, its part for the writes.
SerialCommError ==
    /\ pc = "idle" /\ CommErrorDpc
    /\ CommErrorDpc' = FALSE
    /\ FlushWrites("Write", "idle")

\* IOCTL_SERIAL_PURGE with SERIAL_PURGE_TXABORT: the writes, then the counter.
StartPurge ==
    /\ pc = "idle" /\ ~RefusedForError
    /\ FlushWrites("Write", "purgeXoff")
    /\ UNCHANGED CommErrorDpc

PurgeXoff ==
    /\ pc = "purgeXoff"
    /\ FlushWrites("Xoff", "idle")
    /\ UNCHANGED CommErrorDpc

CanceledCostOne(r) == 1                    \* mutant: counts requests
CanceledCost(r) == Cost(r)

\* SerialEvtCanceledOnQueue.
SerialEvtCanceledOnQueue(r) ==
    /\ pc = "idle" /\ r \in canceledOnQueue
    /\ canceledOnQueue' = canceledOnQueue \ {r}
    /\ TotalCharsQueued' = TotalCharsQueued - CanceledCost(r)
    /\ Finish(r, "CANCELLED")
    /\ UNCHANGED <<contextVars, WriteQueue, WriteQueueStopped, viaQueue, referVars,
                   flushVars, isrVars, errorVars, Current, cancelAsked, writeTimeout,
                   pc>>

-------------------------------------------------------------------------------
(* SerialFlush, which runs without the lock *)

Unfinished == {r \in submitted \cap Writes : completions[r] = 0}

\* WdfIoQueueStopSynchronously stops the queue ...
FlushStopsQueue(f) ==
    /\ flushState[f] = "no"
    /\ flushState' = [flushState EXCEPT ![f] = "waiting"]
    /\ aheadOfFlush' = [aheadOfFlush EXCEPT ![f] = Unfinished]
    /\ WriteQueueStopped' = TRUE
    /\ UNCHANGED <<contextVars, WriteQueue, viaQueue, canceledOnQueue, referVars,
                   endVars, isrVars, errorVars, Current, cancelAsked,
                   TotalCharsQueued, writeTimeout, pc>>

\* ... and waits for the requests that were taken out of it; then the queue is
\* started and the flush completed.
FlushEnds(f) ==
    /\ flushState[f] = "waiting" /\ \A r \in viaQueue : completions[r] > 0
    /\ flushState' = [flushState EXCEPT ![f] = "done"]
    /\ WriteQueueStopped' = FALSE
    /\ UNCHANGED <<contextVars, WriteQueue, viaQueue, canceledOnQueue, referVars,
                   endVars, isrVars, errorVars, Current, cancelAsked, aheadOfFlush,
                   TotalCharsQueued, writeTimeout, pc>>

-------------------------------------------------------------------------------
(* The interrupt and the environment.  What holds transmission up (TXHolding) *)
(* is left to chance: a transmit interrupt need not come.                     *)

isrFrame == <<contextVars, queueVars, referVars, completions, flushVars, Current,
              cancelAsked, TotalCharsQueued, writeTimeout, pc>>

\* SerialISR, transmit part: the immediate character goes before any write.
TransmitImmediateChar ==
    /\ Left["Immediate"] > 0
    /\ Left' = [Left EXCEPT !["Immediate"] = 0]
    /\ CompleteDpc' = [CompleteDpc EXCEPT !["Immediate"] = TRUE]
    /\ UNCHANGED <<isrFrame, Information, Status, sent, errorVars>>

AmountFifo == TxFifoAmount                 \* mutant: more than is left
AmountToWrite == Lesser(TxFifoAmount, Left["Write"])

TransmitWrite ==
    /\ Left["Write"] > 0 /\ Left["Immediate"] = 0
    /\ LET r == Current["Write"]
           left == Left["Write"] - AmountToWrite
       IN /\ Left' = [Left EXCEPT !["Write"] = left]
          /\ sent' = [sent EXCEPT ![r] = @ + AmountToWrite]
          /\ IF left = 0
               THEN /\ Information' = [Information EXCEPT ![r] = Cost(r)]
                    /\ CompleteDpc' = [CompleteDpc EXCEPT !["Write"] = TRUE]
               ELSE UNCHANGED <<Information, CompleteDpc>>
    /\ UNCHANGED <<isrFrame, Status, errorVars>>

\* SerialPutChar: a character received is counted for the Xoff counter.
CountReceived ==
    /\ Left["Xoff"] > 0
    /\ Left' = [Left EXCEPT !["Xoff"] = @ - 1]
    /\ IF Left["Xoff"] = 1
         THEN /\ Status' = [Status EXCEPT ![Current["Xoff"]] = "SUCCESS"]
              /\ Information' = [Information EXCEPT ![Current["Xoff"]] = 0]
              /\ CompleteDpc' = [CompleteDpc EXCEPT !["Xoff"] = TRUE]
         ELSE UNCHANGED <<Status, Information, CompleteDpc>>
    /\ UNCHANGED <<isrFrame, sent, errorVars>>

\* SerialProcessLSR: an error on the line; without ERROR_ABORT it only counts.
LineError ==
    /\ ErrorAbort
    /\ ErrorWord' = TRUE /\ CommErrorDpc' = TRUE
    /\ UNCHANGED <<isrFrame, isrVars, Information, Status>>

\* The application cancels a request it is waiting for.
CancelRequest(r) ==
    /\ r \in submitted \ cancelAsked /\ completions[r] = 0
    /\ cancelAsked' = cancelAsked \cup {r}
    /\ \/ /\ \E i \in 1 .. Len(WriteQueue) :
                /\ WriteQueue[i] = r
                /\ WriteQueue' = Without(WriteQueue, i)
          /\ canceledOnQueue' = canceledOnQueue \cup {r}
       \/ /\ r \notin Waiting(WriteQueue)
          /\ UNCHANGED <<WriteQueue, canceledOnQueue>>
    /\ cancelState' = [cancelState EXCEPT ![r] = IF @ = "on" THEN "fired" ELSE @]
    /\ UNCHANGED <<contextVars, WriteQueueStopped, viaQueue, RefCount, CancelRoutine,
                   Cancelled, Timer, endVars, flushVars, isrVars, errorVars, Current,
                   TotalCharsQueued, writeTimeout, pc>>

TimerExpires(op) ==
    /\ Timer[op] = "set"
    /\ Timer' = [Timer EXCEPT ![op] = "fired"]
    /\ UNCHANGED <<contextVars, queueVars, RefCount, cancelState, CancelRoutine,
                   Cancelled, endVars, flushVars, isrVars, errorVars, Current,
                   cancelAsked, TotalCharsQueued, writeTimeout, pc>>

-------------------------------------------------------------------------------
SubmitWrite == \E r \in Writes, n \in 1 .. MaxLength : SerialEvtIoWrite(r, n)
SubmitXoff == \E r \in XoffCounters, n \in 1 .. MaxCounter, t \in XoffTimeoutChoices :
                  XoffCounter(r, n, t)
SubmitImmediate == \E r \in Immediates : ImmediateChar(r)

\* A callback that holds the lock goes on.
Continue == SerialGetNextWrite \/ OvertakeXoff \/ SerialStartWrite \/ PurgeXoff

\* A callback that waits for the lock.
Callback ==
    \/ \E op \in OPS : SerialComplete(op) \/ SerialTimeout(op)
    \/ SerialCommError
    \/ \E r \in Requests : SerialCancelCurrent(r) \/ SerialEvtCanceledOnQueue(r)

Next ==
    \/ SubmitWrite \/ SubmitXoff \/ SubmitImmediate \/ StartPurge \/ GetCommStatus
    \/ \E t \in WriteTimeoutChoices : SetTimeouts(t)
    \/ \E f \in Flushes : FlushStopsQueue(f) \/ FlushEnds(f)
    \/ Continue
    \/ Callback
    \/ \E op \in OPS : TimerExpires(op)
    \/ \E r \in Requests : CancelRequest(r)
    \/ TransmitImmediateChar \/ TransmitWrite \/ CountReceived \/ LineError

Spec == Init /\ [][Next]_vars

\* The lock's holder runs on, timers expire, and callbacks waiting for the lock are
\* not put off for ever.  One condition for all of them is enough, and assumes less
\* than one for each: without new requests only so many callbacks can come.  Nobody
\* has to submit, send, receive or cancel.
Fairness ==
    /\ WF_vars(Continue)
    /\ WF_vars(\E op \in OPS : TimerExpires(op))
    /\ SF_vars(Callback)

FairSpec == Spec /\ Fairness

-------------------------------------------------------------------------------
(* Properties *)

RequestTypes ==
    /\ WriteQueue \in Seq(Queued) /\ WriteQueueStopped \in BOOLEAN
    /\ viaQueue \subseteq Queued /\ canceledOnQueue \subseteq Queued
    /\ Current \in [OPS -> Requests \cup {NULL}]
    /\ RefCount \in [Requests -> SUBSET REFS]
    /\ cancelState \in [Requests -> {"off", "on", "fired"}]
    /\ CancelRoutine \in [Requests -> OPS \cup {"none"}]
    /\ Cancelled \in [Requests -> BOOLEAN]
    /\ Length \in [Writes -> Nat] /\ Information \in [Requests -> Nat]
    /\ Status \in [Requests -> {"PENDING", "SUCCESS", "TIMEOUT", "CANCELLED",
                                "INVALID_PARAMETER", "MORE_WRITES",
                                "COUNTER_TIMEOUT"}]
    /\ Xc \in [XoffCounters -> [Counter : Nat, Timeout : BOOLEAN]]
    /\ completions \in [Requests -> Nat]
    /\ submitted \subseteq Requests /\ cancelAsked \subseteq Requests
    /\ Timer \in [OPS -> {"off", "set", "fired"}]
    /\ CompleteDpc \in [OPS -> BOOLEAN] /\ Left \in [OPS -> Nat]
    /\ CommErrorDpc \in BOOLEAN /\ ErrorWord \in BOOLEAN
    /\ writeTimeout \in WriteTimeoutChoices
    /\ sent \in [Queued -> Nat]
    /\ flushState \in [Flushes -> {"no", "waiting", "done"}]
    /\ aheadOfFlush \in [Flushes -> SUBSET Writes]
    /\ pc \in {"idle", "next", "purgeNext", "start", "give", "purgeXoff"}

\* Every variable has its type; in particular no count drops below zero.
TypeOK == RequestTypes /\ TotalCharsQueued \in Nat

References(op, ref) == Current[op] # NULL /\ ref \in RefCount[Current[op]]

\* Whatever can still call back for an operation finds its own request current in
\* that operation, with the reference it is going to drop.  An Xoff counter changes
\* operation in the middle of its life, with its cancel routine and its timer (the
\* ASSERTMSG of SerialTryToCompleteCurrent, the ASSERT in SERIAL_CLEAR_REFERENCE).
CallbacksFindTheirRequest ==
    /\ \A op \in OPS :
          /\ Timer[op] # "off" => References(op, "TOTAL_TIMER")
          /\ CompleteDpc[op] => References(op, "ISR")
    /\ \A r \in Requests : cancelState[r] # "off" =>
          /\ CancelRoutine[r] # "none"
          /\ Current[CancelRoutine[r]] = r /\ "CANCEL" \in RefCount[r]

\* The interrupt only sends from, or counts for, a request in progress that has
\* neither been completed nor handed to its DPC.
InterruptOwnsALiveRequest ==
    \A op \in OPS : Left[op] > 0 =>
        /\ References(op, "ISR") /\ ~CompleteDpc[op]
        /\ completions[Current[op]] = 0
        /\ op = "Write" => Left[op] = Cost(Current[op]) - sent[Current[op]]

\* TotalCharsQueued is the size of all the writes, counters and immediate characters
\* the driver has and has not ended, queued, in progress or cancelled on the queue
\* (serial.h: "the number of characters that are in all of the write irps"; the
\* ASSERTs of SerialGetCommStatus, SerialGetNextWrite and SerialGetNextImmediate).
OutQueueCount ==
    LET owed == Waiting(WriteQueue) \cup canceledOnQueue
                  \cup ({Current["Write"], Current["Immediate"]} \ {NULL})
    IN TotalCharsQueued = SumFunctionOnSet([r \in Requests |-> Cost(r)], owed)

\* A request is completed once, and by then nothing refers to it (the ASSERT of
\* SerialCompleteRequest) and it waits nowhere.
CompletedForGood ==
    \A r \in Requests : completions[r] > 0 =>
        /\ completions[r] = 1 /\ RefCount[r] = {}
        /\ \A op \in OPS : r # Current[op]
        /\ r \notin canceledOnQueue \cup Waiting(WriteQueue)

\* With the lock free and the queue running, a request only waits in the queue
\* behind a current one (SerialStartOrQueue: the current pointer "will be set with
\* to Request if what CurrentOpRequest points to is NULL").
NobodyStranded ==
    pc = "idle" /\ ~WriteQueueStopped /\ WriteQueue # <<>> =>
        Current["Write"] # NULL

\* A current request has somebody left who will end it; in particular the total
\* timer has not been and gone while its reference stays (SerialTimeoutXoff "is
\* merely used to truely complete an xoff counter request, if its timer has run
\* out").
SomebodyEndsIt ==
    pc = "idle" => \A op \in OPS : Current[op] # NULL =>
        LET r == Current[op]
        IN /\ RefCount[r] # {}
           /\ "ISR" \in RefCount[r] => Left[op] > 0 \/ CompleteDpc[op]
           /\ "TOTAL_TIMER" \in RefCount[r] => Timer[op] # "off"
           /\ "CANCEL" \in RefCount[r] => cancelState[r] # "off"

\* An Xoff counter has ended before another takes its place (the ASSERT of
\* SerialGetNextWrite).
XoffEndsBeforeNext ==
    [][Current["Xoff"] # NULL =>
          Current'["Xoff"] \in {NULL, Current["Xoff"]}]_vars

\* When a flush completes, so have all the writes that came before it.
FlushWaitsForWrites ==
    \A f \in Flushes : flushState[f] = "done" =>
        \A r \in aheadOfFlush[f] : completions[r] > 0

\* A cancelled request ends.
CancelledEnds ==
    \A r \in Requests : r \in cancelAsked ~> completions[r] = 1

\* A write or an immediate character given a timer ends, whatever holds up the line.
TimedWriteEnds ==
    \A r \in Writes \cup Immediates :
        "TOTAL_TIMER" \in RefCount[r] ~> completions[r] = 1

-------------------------------------------------------------------------------
(* The requests, as WriteLine sees them *)

InLine == (IF Current["Write"] = NULL THEN <<>> ELSE <<Current["Write"]>>)
            \o WriteQueue

SentSize == [r \in Queued |-> Cost(r)]

Settlement(r) ==
    IF r \in canceledOnQueue THEN [status |-> "CANCELLED", count |-> 0]
    ELSE IF completions[r] > 0 THEN [status |-> Status[r], count |-> Information[r]]
    ELSE [status |-> IF r = Current["Xoff"] THEN "counting" ELSE "none", count |-> 0]

Results == [r \in Queued |-> Settlement(r)]

Line == INSTANCE WriteLine
          WITH line <- InLine, size <- SentSize, result <- Results

\* The write path implements the line: first come, first sent, never two mixed on
\* the wire, and the count reported is the count sent.
ImplementsLine == Line!Spec

===============================================================================
