------------------------------ MODULE SerialRead ------------------------------
(***************************************************************************)
(* The read path of the serial driver: the life of a read (or of a resize  *)
(* of the typeahead buffer, which travels through the same queue) from     *)
(* SerialEvtIoRead to SerialCompleteRequest.                               *)
(*                                                                         *)
(* Three kinds of actors run here.                                         *)
(*   - Callbacks at dispatch level: queue handlers, cancel routines,       *)
(*     timers and DPCs.  All of them hold the one lock of the device       *)
(*     (WdfSynchronizationScopeDevice and AutomaticSerialization), so at   *)
(*     most one is running.  pc says where it stands; "idle" is the lock   *)
(*     being free.  A callback is cut in several steps exactly where it    *)
(*     reads or writes something the interrupt also touches.               *)
(*   - The interrupt (ReceiveChar), which runs between any two steps; a    *)
(*     routine run by WdfInterruptSynchronize is one step.                 *)
(*   - The environment: applications submit and cancel, timers expire.     *)
(*                                                                         *)
(* A definition marked "mutant" is a plausible slip in the definition      *)
(* below it; no other definition uses it.  Substituting it there must      *)
(* break a property of the runs.                                           *)
(***************************************************************************)
EXTENDS RequestQueue, FiniteSets

CONSTANTS
    Reads,            \* read requests
    Resizes,          \* IOCTL_SERIAL_SET_QUEUE_SIZE requests
    ReadLengths,      \* lengths of reads an application asks for
    MaxBytes,         \* bound: characters the line delivers
    InitialSize,      \* size of the typeahead buffer made at open
    NewSizes,         \* sizes a resize may ask for
    TimeoutChoices,   \* values IOCTL_SERIAL_SET_TIMEOUTS may install
    ErrorAbort,       \* SERIAL_ERROR_ABORT is set in ControlHandShake
    ErrorCharOn,      \* SERIAL_ERROR_CHAR is set in FlowReplace
    NULL              \* no request

Requests == Reads \cup Resizes

TimeoutValues == {"zero", "some", "max"}

ASSUME RequestsAssumption ==
    /\ NULL \notin Requests
    /\ Reads \cap Resizes = {}
ASSUME BoundsAssumption ==
    /\ ReadLengths \subseteq Nat \ {0}
    /\ MaxBytes \in Nat
    /\ InitialSize \in Nat \ {0}
    /\ NewSizes \subseteq Nat \ {0}
ASSUME FlagsAssumption == ErrorAbort \in BOOLEAN /\ ErrorCharOn \in BOOLEAN
\* IOCTL_SERIAL_SET_TIMEOUTS refuses the three values being MAXULONG at once.
ASSUME TimeoutsAssumption ==
    /\ TimeoutChoices \subseteq
         [interval : TimeoutValues, multiplier : TimeoutValues,
          constant : TimeoutValues]
    /\ TimeoutChoices # {}
    /\ \A t \in TimeoutChoices :
         ~(t.interval = "max" /\ t.multiplier = "max" /\ t.constant = "max")

VARIABLES
    ReadQueue,              \* requests waiting in the read queue
    canceledOnQueue,        \* cancelled while waiting; callback not run yet
    CurrentReadRequest,     \* the request in progress, or NULL
    RefCount,               \* per request: who still refers to it
    cancelState,            \* "off", "on" (marked cancelable), "fired"
    cancelAsked,            \* requests the application has cancelled
    CancelRoutine,          \* per request: a cancel routine is recorded
    Length, Information, SystemBuffer, Status,   \* request context
    completions,            \* how often each request was completed
    submitted,              \* requests handed to the driver
    pool,                   \* resize buffers allocated and not freed
    ReadRequestTotalTimer, ReadRequestIntervalTimer,   \* "off" "set" "fired"
    CompleteReadDpc, CommErrorDpc,                     \* queued or not
    ReadBufferBase,         \* request the interrupt copies into, or NULL
    CurrentCharSlot,        \* offset of the next character in that request
    intBuf,                 \* contents of the typeahead buffer
    BufferSize,
    InterruptReadBuffer,    \* NULL, or the resize whose buffer is in use
    CountOnLastRead, ReadByIsr,
    ErrorWord,              \* an unreported error is recorded
    received,               \* characters the line has delivered so far
    Timeouts,
    pc,                     \* where the running callback stands
    NumberNeededForRead, CharsCopied,    \* locals of the routine starting one
    useTotalTimer, useIntervalTimer

requestVars == <<RefCount, cancelState, CancelRoutine, Length, Information,
                 SystemBuffer, Status, completions>>
envVars     == <<cancelAsked, submitted, pool, received, Timeouts>>
queueVars   == <<ReadQueue, canceledOnQueue, CurrentReadRequest>>
timerVars   == <<ReadRequestTotalTimer, ReadRequestIntervalTimer>>
dpcVars     == <<CompleteReadDpc, CommErrorDpc>>
isrVars     == <<ReadBufferBase, CurrentCharSlot, intBuf, BufferSize,
                 InterruptReadBuffer, CountOnLastRead, ReadByIsr, ErrorWord>>
localVars   == <<pc, NumberNeededForRead, CharsCopied, useTotalTimer,
                 useIntervalTimer>>
vars == <<requestVars, envVars, queueVars, timerVars, dpcVars, isrVars,
          localVars>>

REFS == {"ISR", "CANCEL", "TOTAL_TIMER", "INT_TIMER"}

\* The markers the completing routines leave for the interval timer.
SERIAL_COMPLETE_READ_CANCEL   == -1
SERIAL_COMPLETE_READ_TOTAL    == -2
SERIAL_COMPLETE_READ_COMPLETE == -3

\* Counts the interval timer only compares with zero are kept as 0 or 1.
Flag(n) == IF n > 0 THEN 1 ELSE 0
\* A character count out of a buffer: what is there, but no more than needed.
CharsToGetUncapped(there, needed) == there          \* mutant: no cap
CharsToGet(there, needed) == IF there > needed THEN needed ELSE there
Drop(s, n) == SubSeq(s, n + 1, Len(s))
\* Characters are told apart by the order they came in; 0 is ErrorChar.
ErrorChar == 0

-------------------------------------------------------------------------------
Init ==
    /\ ReadQueue = <<>> /\ canceledOnQueue = {} /\ CurrentReadRequest = NULL
    /\ RefCount = [r \in Requests |-> {}]
    /\ cancelState = [r \in Requests |-> "off"]
    /\ cancelAsked = {} /\ submitted = {} /\ pool = {}
    /\ CancelRoutine = [r \in Requests |-> FALSE]
    /\ Length = [r \in Requests |-> 0]
    /\ Information = [r \in Requests |-> 0]
    /\ SystemBuffer = [r \in Requests |-> <<>>]
    /\ Status = [r \in Requests |-> "PENDING"]
    /\ completions = [r \in Requests |-> 0]
    /\ ReadRequestTotalTimer = "off" /\ ReadRequestIntervalTimer = "off"
    /\ CompleteReadDpc = FALSE /\ CommErrorDpc = FALSE
    /\ ReadBufferBase = NULL /\ CurrentCharSlot = 0 /\ intBuf = <<>>
    /\ BufferSize = InitialSize /\ InterruptReadBuffer = NULL
    /\ CountOnLastRead = 0 /\ ReadByIsr = 0 /\ ErrorWord = FALSE
    /\ received = 0
    /\ Timeouts \in TimeoutChoices
    /\ pc = "idle" /\ NumberNeededForRead = 0 /\ CharsCopied = 0
    /\ useTotalTimer = FALSE /\ useIntervalTimer = FALSE

-------------------------------------------------------------------------------
(* Requests *)

\* SerialCompleteRequest with the given status and byte count.
Complete(r, status, info) ==
    /\ completions' = [completions EXCEPT ![r] = @ + 1]
    /\ Status' = [Status EXCEPT ![r] = status]
    /\ Information' = [Information EXCEPT ![r] = info]

\* SerialGetNextRequest: the head of the queue becomes current and is
\* started by the caller, which keeps the lock.  (The old request is
\* completed by the conjunct beside this one.)
GetNextRequestPeeking(queue, whenNone) ==       \* mutant: it stays queued
    IF queue = <<>>
      THEN CurrentReadRequest' = NULL /\ ReadQueue' = <<>> /\ pc' = whenNone
      ELSE CurrentReadRequest' = Head(queue) /\ ReadQueue' = queue /\ pc' = "start"

GetNextRequestNone(queue, whenNone) ==          \* mutant: starts nothing
    CurrentReadRequest' = NULL /\ ReadQueue' = queue /\ pc' = whenNone

GetNextRequest(queue, whenNone) ==
    IF queue = <<>>
      THEN /\ CurrentReadRequest' = NULL
           /\ ReadQueue' = <<>>
           /\ pc' = whenNone
      ELSE /\ CurrentReadRequest' = Head(queue)
           /\ ReadQueue' = Tail(queue)
           /\ pc' = "start"

\* WdfTimerStop(FALSE) succeeds only on a timer that has not expired yet.
Stopped(timer) == IF timer = "set" THEN "off" ELSE timer

\* What SerialGrabReadFromIsr and SerialRundownIrpRefs take off the current
\* request's references on behalf of the caller refType.
CancelRefClearedLate(r, refType) ==        \* mutant: the routine keeps its own
    "CANCEL" \in RefCount[r] /\ cancelState[r] = "on"

CancelRefCleared(r, refType) ==
    \/ refType = "CANCEL"
    \/ "CANCEL" \in RefCount[r] /\ cancelState[r] = "on"

ClearedRefsOfFired(r, refType, grab) ==    \* mutant: expired counts as stopped
    {ref \in REFS :
        \/ ref = "ISR" /\ (refType = "ISR" \/ (grab /\ ReadBufferBase # NULL))
        \/ ref = "CANCEL" /\ CancelRefCleared(r, refType)
        \/ ref = "TOTAL_TIMER" /\ ReadRequestTotalTimer # "off"
        \/ ref = "INT_TIMER" /\ (\/ refType = "INT_TIMER"
                                 \/ ReadRequestIntervalTimer = "set")}

ClearedRefsNotOwn(r, refType, grab) ==     \* mutant: the total timer keeps its own
    {ref \in REFS :
        \/ ref = "ISR" /\ (refType = "ISR" \/ (grab /\ ReadBufferBase # NULL))
        \/ ref = "CANCEL" /\ CancelRefCleared(r, refType)
        \/ ref = "TOTAL_TIMER" /\ ReadRequestTotalTimer = "set"
        \/ ref = "INT_TIMER" /\ (\/ refType = "INT_TIMER"
                                 \/ ReadRequestIntervalTimer = "set")}

ClearedRefs(r, refType, grab) ==
    {ref \in REFS :
        \/ ref = "ISR" /\ (refType = "ISR" \/ (grab /\ ReadBufferBase # NULL))
        \/ ref = "CANCEL" /\ CancelRefCleared(r, refType)
        \/ ref = "TOTAL_TIMER" /\ (\/ refType = "TOTAL_TIMER"
                                   \/ ReadRequestTotalTimer = "set")
        \/ ref = "INT_TIMER" /\ (\/ refType = "INT_TIMER"
                                 \/ ReadRequestIntervalTimer = "set")}

\* SerialTryToCompleteCurrent for the current read, called with the lock held.
\* grab says whether it is given SerialGrabReadFromIsr; queue is the read
\* queue as the caller left it; whenNone is what the caller does next if there
\* is no request to start.
TryToCompleteCurrent(status, refType, grab, queue, whenNone) ==
    LET r == CurrentReadRequest
        grabbed == grab /\ ReadBufferBase # NULL
        refs == RefCount[r] \ ClearedRefs(r, refType, grab)
        \* Length - ((LastCharSlot - CurrentCharSlot) + 1)
        info == IF grabbed THEN Length[r] - (Length[r] - 1 - CurrentCharSlot + 1)
                           ELSE Information[r]
    IN
    /\ RefCount' = [RefCount EXCEPT ![r] = refs]
    /\ CancelRoutine' = [CancelRoutine EXCEPT
                           ![r] = @ /\ ~CancelRefCleared(r, refType)]
    /\ cancelState' = [cancelState EXCEPT
                           ![r] = IF CancelRefCleared(r, refType) THEN "off" ELSE @]
    /\ ReadRequestTotalTimer' =
         IF refType = "TOTAL_TIMER" THEN "off" ELSE Stopped(ReadRequestTotalTimer)
    /\ ReadRequestIntervalTimer' =
         IF refType = "INT_TIMER" THEN "off" ELSE Stopped(ReadRequestIntervalTimer)
    /\ IF grabbed THEN ReadBufferBase' = NULL /\ CurrentCharSlot' = 0 /\ intBuf' = <<>>
                  ELSE UNCHANGED <<ReadBufferBase, CurrentCharSlot, intBuf>>
    /\ IF refs = {}
         THEN /\ Complete(r, status, IF status = "CANCELLED" THEN 0 ELSE info)
              /\ GetNextRequest(queue, whenNone)
         ELSE /\ Information' = [Information EXCEPT ![r] = info]
              /\ ReadQueue' = queue
              /\ pc' = whenNone
              /\ UNCHANGED <<CurrentReadRequest, Status, completions>>
    /\ UNCHANGED <<Length, SystemBuffer, BufferSize, InterruptReadBuffer,
                   ReadByIsr>>

-------------------------------------------------------------------------------
(* The queue handlers *)

StartOrQueueUnchecked(r) ==                \* mutant: forgets the current one
    /\ IF ReadQueue = <<>>
         THEN CurrentReadRequest' = r /\ pc' = "start" /\ UNCHANGED ReadQueue
         ELSE ReadQueue' = Append(ReadQueue, r) /\ UNCHANGED <<CurrentReadRequest, pc>>
    /\ UNCHANGED canceledOnQueue

\* SerialStartOrQueue.
StartOrQueue(r) ==
    /\ IF ReadQueue = <<>> /\ CurrentReadRequest = NULL
         THEN CurrentReadRequest' = r /\ pc' = "start" /\ UNCHANGED ReadQueue
         ELSE ReadQueue' = Append(ReadQueue, r) /\ UNCHANGED <<CurrentReadRequest, pc>>
    /\ UNCHANGED canceledOnQueue

\* SerialCompleteIfError: a recorded error refuses new requests.
RefusedForError == ErrorAbort /\ ErrorWord

SerialEvtIoRead(r, n) ==
    /\ pc = "idle" /\ r \notin submitted
    /\ submitted' = submitted \cup {r}
    /\ IF RefusedForError
         THEN /\ Complete(r, "CANCELLED", 0)
              /\ UNCHANGED <<Length, queueVars, pc>>
         ELSE /\ Length' = [Length EXCEPT ![r] = n]
              /\ StartOrQueue(r)
              /\ UNCHANGED <<Information, Status, completions>>
    /\ UNCHANGED <<RefCount, cancelState, CancelRoutine, SystemBuffer, cancelAsked,
                   pool, received, Timeouts, timerVars, dpcVars, isrVars,
                   NumberNeededForRead, CharsCopied, useTotalTimer, useIntervalTimer>>

\* IOCTL_SERIAL_SET_QUEUE_SIZE: nothing to do when the buffer is already large
\* enough; otherwise allocate (which may fail) and take the read queue.
SetQueueSize(r, n) ==
    /\ pc = "idle" /\ r \notin submitted
    /\ submitted' = submitted \cup {r}
    /\ \/ /\ RefusedForError
          /\ Complete(r, "CANCELLED", 0)
          /\ UNCHANGED <<Length, pool, queueVars, pc>>
       \/ /\ ~RefusedForError /\ n <= BufferSize
          /\ Complete(r, "SUCCESS", 0)
          /\ UNCHANGED <<Length, pool, queueVars, pc>>
       \/ /\ ~RefusedForError /\ n > BufferSize
          /\ Complete(r, "INSUFFICIENT_RESOURCES", 0)
          /\ UNCHANGED <<Length, pool, queueVars, pc>>
       \/ /\ ~RefusedForError /\ n > BufferSize
          /\ pool' = pool \cup {r}
          /\ Length' = [Length EXCEPT ![r] = n]
          /\ StartOrQueue(r)
          /\ UNCHANGED <<Information, Status, completions>>
    /\ UNCHANGED <<RefCount, cancelState, CancelRoutine, SystemBuffer, cancelAsked,
                   received, Timeouts, timerVars, dpcVars, isrVars,
                   NumberNeededForRead, CharsCopied, useTotalTimer, useIntervalTimer>>

SetTimeouts(t) ==
    /\ pc = "idle" /\ ~RefusedForError /\ Timeouts # t
    /\ Timeouts' = t
    /\ UNCHANGED <<requestVars, cancelAsked, submitted, pool, received, queueVars,
                   timerVars, dpcVars, isrVars, localVars>>

\* IOCTL_SERIAL_GET_COMMSTATUS reports and clears the recorded errors.
GetCommStatus ==
    /\ pc = "idle" /\ ErrorWord
    /\ ErrorWord' = FALSE
    /\ UNCHANGED <<requestVars, envVars, queueVars, timerVars, dpcVars,
                   ReadBufferBase, CurrentCharSlot, intBuf, BufferSize,
                   InterruptReadBuffer, CountOnLastRead, ReadByIsr, localVars>>

-------------------------------------------------------------------------------
(* SerialStartRead.  pc = "start" is the top of its loop, with the lock held. *)

\* How the timeouts in force at the start decide the course of a read.
ReadMode(t) ==
    LET quick == t.interval = "max"
        bothZero == t.constant = "zero" /\ t.multiplier = "zero"
        noConstantMax == quick /\ ~bothZero /\ t.constant # "max"
    IN [returnWithWhatsPresent |-> quick /\ bothZero,
        os2ssreturn |-> noConstantMax,
        crunchDownToOne |-> noConstantMax /\ t.multiplier = "max",
        useTotalTimer |-> noConstantMax \/ (~quick /\ ~bothZero),
        useIntervalTimer |-> t.interval = "some"]

\* SerialGetCharsFromIntBuffer: n characters go behind those already there.
CopiedInto(r, needed, chars) ==
    [SystemBuffer EXCEPT ![r] = SubSeq(@, 1, Length[r] - needed) \o chars]

\* What the characters already copied leave in the typeahead buffer.
CreditedAll == <<>>                        \* mutant: zeroes the count
Credited == Drop(intBuf, CharsCopied)

\* The first copy, made without holding off the interrupt.  The characters
\* copied stay counted in the typeahead buffer until the next step.
StartRead ==
    /\ pc = "start" /\ CurrentReadRequest \in Reads
    /\ LET r == CurrentReadRequest
           mode == ReadMode(Timeouts)
           n == CharsToGet(Len(intBuf), Length[r])
           enough == \/ mode.returnWithWhatsPresent
                     \/ n = Length[r]
                     \/ mode.os2ssreturn /\ Information[r] + n > 0
           crunch == ~enough /\ mode.crunchDownToOne
       IN /\ CharsCopied' = n
          /\ SystemBuffer' = CopiedInto(r, Length[r], SubSeq(intBuf, 1, n))
          /\ Information' = [Information EXCEPT ![r] = @ + n]
          /\ NumberNeededForRead' = IF crunch THEN 1 ELSE Length[r] - n
          /\ Length' = [Length EXCEPT ![r] = IF crunch THEN 1 ELSE @]
          /\ RefCount' = [RefCount EXCEPT ![r] = IF enough THEN @ ELSE {}]
          /\ useTotalTimer' = (~enough /\ mode.useTotalTimer)
          /\ useIntervalTimer' = (~enough /\ mode.useIntervalTimer)
          /\ pc' = IF enough THEN "update" ELSE "switch"
    /\ ReadRequestTotalTimer' = Stopped(ReadRequestTotalTimer)
    /\ ReadRequestIntervalTimer' = Stopped(ReadRequestIntervalTimer)
    /\ UNCHANGED <<cancelState, CancelRoutine, Status, completions, envVars,
                   queueVars, dpcVars, isrVars>>

\* SerialUpdateInterruptBuffer credits the copied characters and the loop
\* completes the read.
UpdateInterruptBuffer ==
    /\ pc = "update"
    /\ intBuf' = Credited
    /\ Complete(CurrentReadRequest, "SUCCESS", Information[CurrentReadRequest])
    /\ GetNextRequest(ReadQueue, "idle")
    /\ CharsCopied' = 0 /\ NumberNeededForRead' = 0
    /\ UNCHANGED <<RefCount, cancelState, CancelRoutine, Length, SystemBuffer,
                   envVars, canceledOnQueue, timerVars, dpcVars, ReadBufferBase,
                   CurrentCharSlot, BufferSize, InterruptReadBuffer,
                   CountOnLastRead, ReadByIsr, ErrorWord, useTotalTimer,
                   useIntervalTimer>>

\* SerialUpdateAndSwitchToUser, synchronised with the interrupt: take what
\* arrived meanwhile and, if that is not enough, point the interrupt at the
\* user's buffer.
UpdateAndSwitchToUser ==
    /\ pc = "switch"
    /\ LET r == CurrentReadRequest
           rest == Credited
           n == CharsToGet(Len(rest), NumberNeededForRead)
           needed == NumberNeededForRead - n
           info == Information[r] + n
       IN /\ intBuf' = Drop(rest, n)
          /\ SystemBuffer' =
               CopiedInto(r, NumberNeededForRead, SubSeq(rest, 1, n))
          /\ CharsCopied' = 0
          /\ IF needed > 0
               THEN /\ CountOnLastRead' = Flag(info)
                    /\ ReadByIsr' = 0
                    /\ ReadBufferBase' = r
                    /\ CurrentCharSlot' = info
                    /\ RefCount' = [RefCount EXCEPT ![r] = @ \cup {"ISR"}]
                    /\ Information' = [Information EXCEPT ![r] = info]
                    /\ NumberNeededForRead' = needed
                    /\ pc' = "arm"
                    /\ UNCHANGED <<ReadQueue, CurrentReadRequest, Status,
                                   completions, useTotalTimer, useIntervalTimer>>
               ELSE /\ Complete(r, "SUCCESS", info)
                    /\ GetNextRequest(ReadQueue, "idle")
                    /\ NumberNeededForRead' = 0
                    /\ useTotalTimer' = FALSE /\ useIntervalTimer' = FALSE
                    /\ UNCHANGED <<CountOnLastRead, ReadByIsr, ReadBufferBase,
                                   CurrentCharSlot, RefCount>>
    /\ UNCHANGED <<cancelState, CancelRoutine, Length, envVars, canceledOnQueue,
                   timerVars, dpcVars, BufferSize, InterruptReadBuffer, ErrorWord>>

\* The rest of SerialStartRead for a read left to the interrupt: mark it
\* cancelable (the framework dispatches the cancel routine at once, to run when
\* the lock is free, if the request is cancelled already) and set the timers.
\* A timer that was still queued would take no reference.
ArmRead ==
    /\ pc = "arm"
    /\ LET r == CurrentReadRequest
           total == useTotalTimer /\ ReadRequestTotalTimer # "set"
           interval == useIntervalTimer /\ ReadRequestIntervalTimer # "set"
       IN /\ cancelState' = [cancelState EXCEPT
                              ![r] = IF r \in cancelAsked THEN "fired" ELSE "on"]
          /\ CancelRoutine' = [CancelRoutine EXCEPT ![r] = TRUE]
          /\ RefCount' = [RefCount EXCEPT ![r] =
                            @ \cup {"CANCEL"}
                              \cup (IF total THEN {"TOTAL_TIMER"} ELSE {})
                              \cup (IF interval THEN {"INT_TIMER"} ELSE {})]
    /\ ReadRequestTotalTimer' =
         IF useTotalTimer THEN "set" ELSE ReadRequestTotalTimer
    /\ ReadRequestIntervalTimer' =
         IF useIntervalTimer THEN "set" ELSE ReadRequestIntervalTimer
    /\ pc' = "idle" /\ NumberNeededForRead' = 0
    /\ useTotalTimer' = FALSE /\ useIntervalTimer' = FALSE
    /\ UNCHANGED <<Length, Information, SystemBuffer, Status, completions, envVars,
                   queueVars, dpcVars, isrVars, CharsCopied>>

\* SerialMoveToNewIntBuffer: the rest goes behind what was moved before.
MovedToStart(moved, rest) ==               \* mutant: NewBuffer, not + NumberMoved
    rest \o Drop(moved, Len(rest))
SerialMoveToNewIntBuffer(moved, rest) == moved \o rest

\* SerialResizeBuffer: a buffer that is no larger is thrown away, else the
\* characters present are copied into the one the resize brought (its
\* SystemBuffer here), without holding off the interrupt.  They stay counted in
\* the old buffer, CharsCopied of them (NumberMoved) ...
StartResize ==
    /\ pc = "start" /\ CurrentReadRequest \in Resizes
    /\ LET r == CurrentReadRequest
       IN IF Length[r] <= BufferSize
            THEN /\ pool' = pool \ {r}
                 /\ Complete(r, "SUCCESS", 0)
                 /\ GetNextRequest(ReadQueue, "idle")
                 /\ UNCHANGED <<SystemBuffer, CharsCopied>>
            ELSE /\ pc' = "switchNew"
                 /\ Information' = [Information EXCEPT ![r] = 0]
                 /\ SystemBuffer' = [SystemBuffer EXCEPT
                                        ![r] = SerialMoveToNewIntBuffer(<<>>, intBuf)]
                 /\ CharsCopied' = Len(intBuf)
                 /\ UNCHANGED <<pool, Status, completions, ReadQueue,
                                CurrentReadRequest>>
    /\ UNCHANGED <<RefCount, cancelState, CancelRoutine, Length, cancelAsked,
                   submitted, received, Timeouts, canceledOnQueue, timerVars,
                   dpcVars, isrVars, NumberNeededForRead, useTotalTimer,
                   useIntervalTimer>>

\* ... and SerialUpdateAndSwitchToNew, synchronised with the interrupt, moves what
\* came since and installs the new buffer, whereupon the old one is freed.  What an
\* overrun wrote meanwhile over a character already moved is lost.  From here on
\* intBuf is what the new buffer holds.
UpdateAndSwitchToNew ==
    /\ pc = "switchNew"
    /\ intBuf' = SerialMoveToNewIntBuffer(SystemBuffer[CurrentReadRequest],
                                           Credited)
    /\ CharsCopied' = 0
    /\ SystemBuffer' = [SystemBuffer EXCEPT ![CurrentReadRequest] = <<>>]
    /\ BufferSize' = Length[CurrentReadRequest]
    /\ InterruptReadBuffer' = CurrentReadRequest
    /\ pool' = pool \ {InterruptReadBuffer}
    /\ ReadBufferBase' = NULL
    /\ Complete(CurrentReadRequest, "SUCCESS", 0)
    /\ GetNextRequest(ReadQueue, "idle")
    /\ UNCHANGED <<RefCount, cancelState, CancelRoutine, Length,
                   cancelAsked, submitted, received, Timeouts, canceledOnQueue,
                   timerVars, dpcVars, CurrentCharSlot, CountOnLastRead,
                   ReadByIsr, ErrorWord, NumberNeededForRead, useTotalTimer,
                   useIntervalTimer>>

-------------------------------------------------------------------------------
(* The callbacks that end a read: each waits for the lock (pc = "idle"). *)

callbackFrame == <<envVars, CommErrorDpc, ErrorWord, NumberNeededForRead,
                   CharsCopied, useTotalTimer, useIntervalTimer>>

\* SerialCompleteRead, the DPC the interrupt queues when it fills the buffer.
SerialCompleteRead ==
    /\ pc = "idle" /\ CompleteReadDpc
    /\ CompleteReadDpc' = FALSE
    /\ CountOnLastRead' = SERIAL_COMPLETE_READ_COMPLETE
    /\ TryToCompleteCurrent("SUCCESS", "ISR", FALSE, ReadQueue, "idle")
    /\ UNCHANGED <<callbackFrame, canceledOnQueue>>

\* The cancel routine works on the current request, whichever it is.
SerialCancelCurrentRead(r) ==
    /\ pc = "idle" /\ cancelState[r] = "fired"
    /\ CountOnLastRead' = SERIAL_COMPLETE_READ_CANCEL
    /\ TryToCompleteCurrent("CANCELLED", "CANCEL", TRUE, ReadQueue, "idle")
    /\ UNCHANGED <<callbackFrame, canceledOnQueue, CompleteReadDpc>>

\* SerialReadTimeout, the total timer's callback.
SerialReadTimeout ==
    /\ pc = "idle" /\ ReadRequestTotalTimer = "fired"
    /\ CountOnLastRead' = SERIAL_COMPLETE_READ_TOTAL
    /\ TryToCompleteCurrent("TIMEOUT", "TOTAL_TIMER", TRUE, ReadQueue, "idle")
    /\ UNCHANGED <<callbackFrame, canceledOnQueue, CompleteReadDpc>>

\* SerialIntervalReadTimeout, the interval timer's callback.  If another
\* routine left its marker, the read is over and the callback completes it
\* with that routine's status.
MarkerStatus ==
    [m \in {SERIAL_COMPLETE_READ_CANCEL, SERIAL_COMPLETE_READ_TOTAL,
            SERIAL_COMPLETE_READ_COMPLETE} |->
        CASE m = SERIAL_COMPLETE_READ_TOTAL    -> "TIMEOUT"
          [] m = SERIAL_COMPLETE_READ_COMPLETE -> "SUCCESS"
          [] m = SERIAL_COMPLETE_READ_CANCEL   -> "CANCELLED"]

IntervalFinish ==
    /\ pc = "idle" /\ ReadRequestIntervalTimer = "fired" /\ CountOnLastRead < 0
    /\ TryToCompleteCurrent(MarkerStatus[CountOnLastRead], "INT_TIMER", TRUE,
                            ReadQueue, "idle")
    /\ UNCHANGED <<callbackFrame, canceledOnQueue, CompleteReadDpc, CountOnLastRead>>

\* Otherwise it looks at the interrupt's count, without holding it off:
\* characters came in, the time is over, or the timer is set again.
IntervalCheck ==
    /\ pc = "idle" /\ ReadRequestIntervalTimer = "fired" /\ CountOnLastRead >= 0
    /\ \/ /\ ReadByIsr > 0
          /\ pc' = "countByIsr" /\ ReadRequestIntervalTimer' = "off"
       \/ /\ ReadByIsr = 0 /\ CountOnLastRead > 0    \* the interval has passed
          /\ pc' = "expire" /\ ReadRequestIntervalTimer' = "off"
       \/ /\ ReadByIsr = 0                           \* no character, or too early
          /\ pc' = "idle" /\ ReadRequestIntervalTimer' = "set"
    /\ UNCHANGED <<requestVars, envVars, queueVars, ReadRequestTotalTimer, dpcVars,
                   isrVars, NumberNeededForRead, CharsCopied, useTotalTimer,
                   useIntervalTimer>>

\* SerialUpdateReadByIsr, then the timer is set again.
UpdateReadByIsr ==
    /\ pc = "countByIsr"
    /\ CountOnLastRead' = ReadByIsr /\ ReadByIsr' = 0
    /\ ReadRequestIntervalTimer' = "set"
    /\ pc' = "idle"
    /\ UNCHANGED <<requestVars, envVars, queueVars, ReadRequestTotalTimer, dpcVars,
                   ReadBufferBase, CurrentCharSlot, intBuf, BufferSize,
                   InterruptReadBuffer, ErrorWord, NumberNeededForRead, CharsCopied,
                   useTotalTimer, useIntervalTimer>>

\* The interval is over: the read is timed out on the strength of a count that
\* may have changed since.
IntervalExpire ==
    /\ pc = "expire"
    /\ TryToCompleteCurrent("TIMEOUT", "INT_TIMER", TRUE, ReadQueue, "idle")
    /\ UNCHANGED <<callbackFrame, canceledOnQueue, CompleteReadDpc, CountOnLastRead>>

-------------------------------------------------------------------------------
(* Aborting everything: comm errors and purges *)

\* SerialFlushRequests on the read queue.  Purging the queue leaves its
\* requests to SerialEvtCanceledOnQueue; the current one is ended by its own
\* cancel routine, called here, unless that routine is dispatched already or
\* none is recorded.
CallsNoCancelRoutine(r) == FALSE           \* mutant: only cleans the queue
CallsCancelRoutine(r) ==
    /\ r # NULL
    /\ "CANCEL" \notin RefCount[r] \/ cancelState[r] = "on"
    /\ CancelRoutine[r]

FlushReads(whenNone) ==
    LET r == CurrentReadRequest
    IN /\ canceledOnQueue' = canceledOnQueue \cup Waiting(ReadQueue)
       /\ IF CallsCancelRoutine(r)
            THEN /\ CountOnLastRead' = SERIAL_COMPLETE_READ_CANCEL
                 /\ TryToCompleteCurrent("CANCELLED", "CANCEL", TRUE, <<>>, whenNone)
            ELSE /\ ReadQueue' = <<>> /\ pc' = whenNone
                 /\ UNCHANGED <<requestVars, CurrentReadRequest, timerVars,
                                ReadBufferBase, CurrentCharSlot, intBuf,
                                BufferSize, InterruptReadBuffer, CountOnLastRead,
                                ReadByIsr>>

\* SerialCommError, the DPC queued for an error when the owner asked for abort.
SerialCommError ==
    /\ pc = "idle" /\ CommErrorDpc
    /\ CommErrorDpc' = FALSE
    /\ FlushReads("idle")
    /\ UNCHANGED <<envVars, ErrorWord, NumberNeededForRead, CharsCopied,
                   useTotalTimer, useIntervalTimer, CompleteReadDpc>>

\* IOCTL_SERIAL_PURGE, SerialStartPurge: abort the reads, clear the typeahead
\* buffer, or the one and then the other.
StartPurge(mask) ==
    /\ pc = "idle" /\ ~RefusedForError
    /\ IF "RXABORT" \in mask
         THEN FlushReads(IF "RXCLEAR" \in mask THEN "clear" ELSE "idle")
         ELSE /\ pc' = "clear"
              /\ UNCHANGED <<requestVars, queueVars, timerVars, ReadBufferBase,
                             CurrentCharSlot, intBuf, BufferSize,
                             InterruptReadBuffer, CountOnLastRead, ReadByIsr>>
    /\ UNCHANGED <<callbackFrame, CompleteReadDpc>>

\* SerialPurgeInterruptBuff: a buffer the interrupt is not filling is emptied.
PurgeInterruptBuff ==
    /\ pc = "clear"
    /\ IF ReadBufferBase = NULL THEN CurrentCharSlot' = 0 /\ intBuf' = <<>>
                                ELSE UNCHANGED <<CurrentCharSlot, intBuf>>
    /\ pc' = "idle"
    /\ UNCHANGED <<requestVars, envVars, queueVars, timerVars, dpcVars,
                   ReadBufferBase, BufferSize, InterruptReadBuffer,
                   CountOnLastRead, ReadByIsr, ErrorWord, NumberNeededForRead,
                   CharsCopied, useTotalTimer, useIntervalTimer>>

\* The I/O control code SerialStartOrQueue leaves in the request context: it
\* records only those of the immediate character and of the Xoff counter.
IoctlCode(r) == "none"
IOCTL_SERIAL_SET_QUEUE_SIZE == "SET_QUEUE_SIZE"

\* SerialEvtCanceledOnQueue: a resize gives back the buffer it brought, if its
\* context says it is a resize.
SerialEvtCanceledOnQueue(r) ==
    /\ pc = "idle" /\ r \in canceledOnQueue
    /\ canceledOnQueue' = canceledOnQueue \ {r}
    /\ pool' = IF r \in Resizes /\ IoctlCode(r) = IOCTL_SERIAL_SET_QUEUE_SIZE
                 THEN pool \ {r} ELSE pool
    /\ Complete(r, "CANCELLED", 0)
    /\ UNCHANGED <<RefCount, cancelState, CancelRoutine, Length, SystemBuffer,
                   cancelAsked, submitted, received, Timeouts, ReadQueue,
                   CurrentReadRequest, timerVars, dpcVars, isrVars, localVars>>

-------------------------------------------------------------------------------
(* The interrupt and the environment *)

\* SerialPutChar, from the interrupt, for the character c: into the buffer of the
\* read it owns, the last place of which switches back to the typeahead buffer
\* and queues the DPC ...
PutInUserBuffer(c) ==
    /\ ReadBufferBase # NULL
    /\ SystemBuffer' = [SystemBuffer EXCEPT ![ReadBufferBase] =
                           Append(SubSeq(@, 1, CurrentCharSlot), c)]
    /\ ReadByIsr' = 1
    /\ IF CurrentCharSlot = Length[ReadBufferBase] - 1
         THEN /\ ReadBufferBase' = NULL /\ CurrentCharSlot' = 0 /\ intBuf' = <<>>
              /\ Information' = [Information EXCEPT
                    ![CurrentReadRequest] = Length[CurrentReadRequest]]
              /\ CompleteReadDpc' = TRUE
         ELSE /\ CurrentCharSlot' = CurrentCharSlot + 1
              /\ UNCHANGED <<ReadBufferBase, intBuf, Information, CompleteReadDpc>>
    /\ UNCHANGED <<ErrorWord, CommErrorDpc>>

\* ... into the typeahead buffer ...
PutInTypeahead(c) ==
    /\ ReadBufferBase = NULL /\ Len(intBuf) < BufferSize
    /\ intBuf' = Append(intBuf, c)
    /\ UNCHANGED <<SystemBuffer, ReadByIsr, ReadBufferBase, CurrentCharSlot,
                   Information, CompleteReadDpc, ErrorWord, CommErrorDpc>>

\* ... or, that being full, nowhere.
Overrun ==
    /\ ReadBufferBase = NULL /\ Len(intBuf) >= BufferSize
    /\ ErrorWord' = TRUE
    /\ intBuf' = IF ErrorCharOn THEN [intBuf EXCEPT ![Len(intBuf)] = ErrorChar]
                               ELSE intBuf
    /\ CommErrorDpc' = (CommErrorDpc \/ ErrorAbort)
    /\ UNCHANGED <<SystemBuffer, ReadByIsr, ReadBufferBase, CurrentCharSlot,
                   Information, CompleteReadDpc>>

ReceiveChar ==
    /\ received < MaxBytes
    /\ received' = received + 1
    /\ PutInUserBuffer(received') \/ PutInTypeahead(received') \/ Overrun
    /\ UNCHANGED <<RefCount, cancelState, CancelRoutine, Length, Status,
                   completions, cancelAsked, submitted, pool, Timeouts, queueVars,
                   timerVars, BufferSize, InterruptReadBuffer, CountOnLastRead,
                   localVars>>

\* The application cancels a request it is waiting for.  A queued request is
\* taken off the queue, a cancelable one has its cancel routine dispatched;
\* both callbacks then wait for the lock.
CancelRequest(r) ==
    /\ r \in submitted \ cancelAsked /\ completions[r] = 0
    /\ cancelAsked' = cancelAsked \cup {r}
    /\ \/ /\ \E i \in 1 .. Len(ReadQueue) :
                /\ ReadQueue[i] = r
                /\ ReadQueue' = Without(ReadQueue, i)
          /\ canceledOnQueue' = canceledOnQueue \cup {r}
       \/ /\ r \notin Waiting(ReadQueue)
          /\ UNCHANGED <<ReadQueue, canceledOnQueue>>
    /\ cancelState' = [cancelState EXCEPT ![r] = IF @ = "on" THEN "fired" ELSE @]
    /\ UNCHANGED <<RefCount, CancelRoutine, Length, Information, SystemBuffer,
                   Status, completions, submitted, pool, received, Timeouts,
                   CurrentReadRequest, timerVars, dpcVars, isrVars, localVars>>

TotalTimerExpires ==
    /\ ReadRequestTotalTimer = "set"
    /\ ReadRequestTotalTimer' = "fired"
    /\ UNCHANGED <<requestVars, envVars, queueVars, ReadRequestIntervalTimer,
                   dpcVars, isrVars, localVars>>

IntervalTimerExpires ==
    /\ ReadRequestIntervalTimer = "set"
    /\ ReadRequestIntervalTimer' = "fired"
    /\ UNCHANGED <<requestVars, envVars, queueVars, ReadRequestTotalTimer,
                   dpcVars, isrVars, localVars>>

-------------------------------------------------------------------------------
SubmitRead == \E r \in Reads, n \in ReadLengths : SerialEvtIoRead(r, n)
SubmitResize == \E r \in Resizes, n \in NewSizes : SetQueueSize(r, n)
Purge == \E mask \in SUBSET {"RXABORT", "RXCLEAR"} \ {{}} : StartPurge(mask)

\* A callback that holds the lock goes on.
Continue ==
    \/ StartRead \/ UpdateInterruptBuffer \/ UpdateAndSwitchToUser \/ ArmRead
    \/ StartResize \/ UpdateAndSwitchToNew \/ UpdateReadByIsr \/ IntervalExpire
    \/ PurgeInterruptBuff

SerialIntervalReadTimeout == IntervalFinish \/ IntervalCheck

\* A callback, other than that of the interval timer, that waits for the lock.
Callback ==
    \/ SerialCompleteRead \/ SerialReadTimeout \/ SerialCommError
    \/ \E r \in Requests : SerialCancelCurrentRead(r) \/ SerialEvtCanceledOnQueue(r)

Next ==
    \/ SubmitRead \/ SubmitResize \/ Purge \/ GetCommStatus
    \/ \E t \in TimeoutChoices : SetTimeouts(t)
    \/ Continue
    \/ Callback \/ SerialIntervalReadTimeout
    \/ \E r \in Requests : CancelRequest(r)
    \/ ReceiveChar \/ TotalTimerExpires \/ IntervalTimerExpires

Spec == Init /\ [][Next]_vars

\* The callback holding the lock runs on; timers that are set expire; callbacks
\* waiting for the lock are not put off for ever (strong fairness, since the lock
\* keeps being taken and released).  The interval timer has a condition of its own,
\* because it can rearm itself for ever; for the others one is enough, since only so
\* many of them can come.  Nobody has to submit, cancel, purge or send a character.
Fairness ==
    /\ WF_vars(Continue)
    /\ WF_vars(TotalTimerExpires) /\ WF_vars(IntervalTimerExpires)
    /\ SF_vars(SerialIntervalReadTimeout)
    /\ SF_vars(Callback)

FairSpec == Spec /\ Fairness

-------------------------------------------------------------------------------
(* Properties *)

\* Every variable has its type.
TypeOK ==
    /\ ReadQueue \in Seq(Requests)
    /\ canceledOnQueue \subseteq Requests
    /\ CurrentReadRequest \in Requests \cup {NULL}
    /\ RefCount \in [Requests -> SUBSET REFS]
    /\ cancelState \in [Requests -> {"off", "on", "fired"}]
    /\ CancelRoutine \in [Requests -> BOOLEAN]
    /\ cancelAsked \subseteq Requests /\ submitted \subseteq Requests
    /\ pool \subseteq Resizes
    /\ Length \in [Requests -> Nat] /\ Information \in [Requests -> Nat]
    /\ SystemBuffer \in [Requests -> Seq(Nat)]
    /\ Status \in [Requests -> {"PENDING", "SUCCESS", "TIMEOUT", "CANCELLED",
                                "INSUFFICIENT_RESOURCES"}]
    /\ completions \in [Requests -> Nat]
    /\ ReadRequestTotalTimer \in {"off", "set", "fired"}
    /\ ReadRequestIntervalTimer \in {"off", "set", "fired"}
    /\ CompleteReadDpc \in BOOLEAN /\ CommErrorDpc \in BOOLEAN
    /\ ReadBufferBase \in Reads \cup {NULL}
    /\ CurrentCharSlot \in Nat /\ intBuf \in Seq(Nat) /\ BufferSize \in Nat
    /\ InterruptReadBuffer \in Resizes \cup {NULL}
    /\ CountOnLastRead \in -3 .. 1 /\ ReadByIsr \in 0 .. 1
    /\ ErrorWord \in BOOLEAN /\ received \in Nat
    /\ Timeouts \in TimeoutChoices
    /\ pc \in {"idle", "start", "update", "switch", "arm", "switchNew",
               "countByIsr", "expire", "clear"}
    /\ NumberNeededForRead \in Nat /\ CharsCopied \in Nat
    /\ useTotalTimer \in BOOLEAN /\ useIntervalTimer \in BOOLEAN

References(ref) ==
    CurrentReadRequest # NULL /\ ref \in RefCount[CurrentReadRequest]

\* Whatever can still call back for a read finds that very read current, with
\* the reference it is going to drop: no timer, DPC or cancel routine outlives
\* its request or hits the next one (the ASSERTMSG at the top of
\* SerialTryToCompleteCurrent and the ASSERT in SERIAL_CLEAR_REFERENCE).
CallbacksFindTheirRead ==
    /\ ReadRequestTotalTimer # "off" => References("TOTAL_TIMER")
    /\ ReadRequestIntervalTimer # "off" => References("INT_TIMER")
    /\ CompleteReadDpc => References("ISR")
    /\ \A r \in Requests :
         cancelState[r] # "off" => r = CurrentReadRequest /\ References("CANCEL")

\* The interrupt only ever writes into the buffer of the read in progress, at a
\* place inside it, and only while nothing is left in the typeahead buffer.
InterruptOwnsALiveRead ==
    ReadBufferBase # NULL =>
        /\ ReadBufferBase = CurrentReadRequest
        /\ completions[ReadBufferBase] = 0
        /\ References("ISR") /\ ~CompleteReadDpc
        /\ CurrentCharSlot < Length[ReadBufferBase]
        /\ intBuf = <<>>

\* A request is completed once, and by then nothing refers to it (the ASSERT of
\* SerialCompleteRequest) and it waits nowhere.
CompletedForGood ==
    \A r \in Requests : completions[r] > 0 =>
        /\ completions[r] = 1 /\ RefCount[r] = {}
        /\ r # CurrentReadRequest
        /\ r \notin canceledOnQueue \cup Waiting(ReadQueue)

\* With the lock free, a request only waits in the queue behind a current one,
\* and somebody still refers to the current one and will end it.
NobodyStranded ==
    pc = "idle" =>
        /\ ReadQueue # <<>> => CurrentReadRequest # NULL
        /\ CurrentReadRequest # NULL => RefCount[CurrentReadRequest] # {}

\* Each buffer a resize allocated belongs to a resize still to be done or is the
\* typeahead buffer in use.
NoBufferLeaked ==
    \A r \in pool : completions[r] = 0 \/ r = InterruptReadBuffer

\* A cancelled request ends.
CancelledEnds ==
    \A r \in Requests : r \in cancelAsked ~> completions[r] = 1

\* A read with a total timer ends, whatever the line does.
TimedReadEnds ==
    \A r \in Reads : "TOTAL_TIMER" \in RefCount[r] ~> completions[r] = 1

\* A comm error ends every request that is waiting when it is raised.
CommErrorEndsAll ==
    \A r \in Requests : (CommErrorDpc /\ r \in submitted) ~> completions[r] = 1

-------------------------------------------------------------------------------
(* The invariant the properties follow from: it holds initially, every step   *)
(* preserves it, and it implies each of the safety properties above.          *)

\* Each request is in one place: not submitted, in the queue, cancelled on the
\* queue, current, or completed.  One that has not been started is untouched.
PlaceInv ==
    /\ NoRepeats(ReadQueue)
    /\ \A r \in Waiting(ReadQueue) :
          /\ r \in submitted /\ r \notin canceledOnQueue
          /\ r # CurrentReadRequest
          /\ completions[r] = 0 /\ Information[r] = 0
    /\ \A r \in canceledOnQueue : r \in submitted /\ completions[r] = 0
    /\ CurrentReadRequest # NULL =>
          /\ CurrentReadRequest \in submitted \ canceledOnQueue
          /\ completions[CurrentReadRequest] = 0
    /\ \A r \in Requests \ submitted : completions[r] = 0 /\ Information[r] = 0
    /\ \A r \in Requests : completions[r] <= 1

\* The reference bits say exactly who will still call back.
ReferenceInv ==
    \A r \in Requests :
        /\ "ISR" \in RefCount[r] <=>
              r = CurrentReadRequest /\ (ReadBufferBase # NULL \/ CompleteReadDpc)
        /\ "CANCEL" \in RefCount[r] <=> cancelState[r] # "off"
        /\ cancelState[r] # "off" => r = CurrentReadRequest
        /\ "TOTAL_TIMER" \in RefCount[r] <=>
              r = CurrentReadRequest /\ ReadRequestTotalTimer # "off"
        /\ "INT_TIMER" \in RefCount[r] <=>
              /\ r = CurrentReadRequest
              /\ ReadRequestIntervalTimer # "off" \/ pc \in {"countByIsr", "expire"}

\* Without a current request nothing is armed and nothing waits.
IdleInv ==
    CurrentReadRequest = NULL =>
        /\ ReadQueue = <<>> /\ pc \in {"idle", "clear"}
        /\ ReadRequestTotalTimer = "off" /\ ReadRequestIntervalTimer = "off"
        /\ ReadBufferBase = NULL /\ ~CompleteReadDpc

Starting == {"start", "update", "switch", "switchNew"}

\* Where a callback stands in starting the current request.
StartInv ==
    /\ CurrentReadRequest # NULL =>
          (pc \in Starting <=> RefCount[CurrentReadRequest] = {})
    /\ pc = "start" => Information[CurrentReadRequest] = 0
    /\ pc \in {"update", "switch"} =>
          CurrentReadRequest \in Reads /\ CharsCopied <= Len(intBuf)
    /\ pc = "switch" =>
          LET r == CurrentReadRequest
          IN /\ Information[r] = Length[r] - NumberNeededForRead
             /\ Len(SystemBuffer[r]) >= Information[r]
    /\ pc = "switchNew" =>
          /\ CurrentReadRequest \in Resizes
          /\ CharsCopied = Len(SystemBuffer[CurrentReadRequest])
          /\ CharsCopied <= Len(intBuf)
    /\ pc = "arm" => RefCount[CurrentReadRequest] = {"ISR"}
    /\ pc \in {"countByIsr", "expire"} => ReadRequestIntervalTimer = "off"

\* What the interrupt fills.
BufferInv ==
    ReadBufferBase # NULL =>
        /\ ReadBufferBase = CurrentReadRequest /\ ~CompleteReadDpc
        /\ CurrentCharSlot < Length[ReadBufferBase]
        /\ CurrentCharSlot <= Len(SystemBuffer[ReadBufferBase])
        /\ intBuf = <<>>

ReadInv == TypeOK /\ PlaceInv /\ ReferenceInv /\ IdleInv /\ StartInv /\ BufferInv

-------------------------------------------------------------------------------
(* The characters, as ByteStream sees them *)

\* The characters a read has been given, or a resize has moved to its buffer.
CurrentChars ==
    LET r == CurrentReadRequest
    IN IF r = NULL THEN <<>>
       ELSE SubSeq(SystemBuffer[r], 1,
                   IF r \in Resizes THEN CharsCopied
                   ELSE IF ReadBufferBase = NULL THEN Information[r]
                   ELSE CurrentCharSlot)

StreamResult ==
    [r \in Reads |->
        IF completions[r] = 0 THEN [state |-> "waiting", chars |-> <<>>]
        ELSE IF Status[r] = "CANCELLED" THEN [state |-> "aborted", chars |-> <<>>]
        ELSE [state |-> "delivered",
              chars |-> SubSeq(SystemBuffer[r], 1, Information[r])]]

Stream == INSTANCE ByteStream
            WITH pending <- CurrentChars \o Credited,
                 result <- StreamResult

\* The read path implements the byte stream: reads get the characters in the
\* order they arrived, none twice and none missing, except those an overrun, a
\* cancelled read or a purge takes away.
ImplementsStream == Stream!Spec
===============================================================================
