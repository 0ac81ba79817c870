------------------------------ MODULE SerialWait ------------------------------
(***************************************************************************)
(* The wait mask of the serial driver: IOCTL_SERIAL_SET_WAIT_MASK,         *)
(* IOCTL_SERIAL_WAIT_ON_MASK, the events noted by the interrupt, the DPC   *)
(* and the cancel routine that end a wait, and a system suspend that takes *)
(* the cancel routine away from a wait and gives it back.                  *)
(*                                                                         *)
(* SerialStartMask never leaves a request in MaskQueue: each runs to its   *)
(* end, or becomes the current wait, under the lock of the callbacks (pc   *)
(* is "idle" when it is free).  So CurrentMaskRequest is not a variable.   *)
(* A definition marked "mutant" is a plausible slip in the one below it    *)
(* and is used by no other.                                                *)
(***************************************************************************)
EXTENDS Integers

CONSTANTS
    Waits,         \* IOCTL_SERIAL_WAIT_ON_MASK requests
    LineEvents,    \* events the interrupt sees on the line or in the buffer
    NULL           \* no request

Events == LineEvents \cup {"TXEMPTY"}
REFS == {"ISR", "CANCEL"}

ASSUME WaitAssumption == NULL \notin Waits

VARIABLES
    IsrWaitMask,            \* the events waited for
    HistoryMask,            \* events that happened and were not reported yet
    IrpMaskLocation,        \* the wait whose buffer the interrupt may fill
    CurrentWaitRequest,
    EmptiedTransmit,        \* the interrupt has sent since the wait began
    CommWaitDpc,
    RefCount, cancelState,  \* as in SerialRead: "off", "on", "fired"
    buffer,                 \* per wait: the mask written to its buffer
    Information,            \* per wait: bytes to return, 0 or 4
    Status, completions,
    submitted, cancelAsked,
    MarkCancelableOnResume,
    tick,                   \* history: flips when the interrupt looks for events
    power,                  \* "D0", "Stopping" (EvtIoStop done), "Dx"
    pc                      \* "idle", or "give" between the two halves of a wait

isrVars  == <<IsrWaitMask, HistoryMask, IrpMaskLocation, EmptiedTransmit, CommWaitDpc>>
endVars  == <<Status, completions, CurrentWaitRequest>>
refVars  == <<RefCount, cancelState, MarkCancelableOnResume>>
userVars == <<submitted, cancelAsked>>
vars == <<isrVars, endVars, refVars, userVars, buffer, Information, tick, power, pc>>

-------------------------------------------------------------------------------
\* A fresh open has cleared the masks.
Init ==
    /\ IsrWaitMask = {} /\ HistoryMask = {} /\ IrpMaskLocation = NULL
    /\ CurrentWaitRequest = NULL /\ EmptiedTransmit = FALSE /\ CommWaitDpc = FALSE
    /\ RefCount = [w \in Waits |-> {}] /\ cancelState = [w \in Waits |-> "off"]
    /\ buffer = [w \in Waits |-> {}] /\ Information = [w \in Waits |-> 0]
    /\ Status = [w \in Waits |-> "PENDING"] /\ completions = [w \in Waits |-> 0]
    /\ submitted = {} /\ cancelAsked = {}
    /\ MarkCancelableOnResume = [w \in Waits |-> FALSE]
    /\ tick = FALSE /\ power = "D0" /\ pc = "idle"

Complete(w, status) ==
    /\ completions' = [completions EXCEPT ![w] = @ + 1]
    /\ Status' = [Status EXCEPT ![w] = status]

\* The interrupt hands mask to the wait whose buffer it holds.
FillBuffer(mask) ==
    /\ buffer' = [buffer EXCEPT ![IrpMaskLocation] = mask]
    /\ Information' = [Information EXCEPT ![IrpMaskLocation] = 4]
    /\ IrpMaskLocation' = NULL
    /\ CommWaitDpc' = TRUE

-------------------------------------------------------------------------------
(* Requests *)

\* IOCTL_SERIAL_SET_WAIT_MASK (a recorded error may refuse it: no change), with
\* SerialFinishOldWait: a wait not satisfied yet ends with an empty mask.
SetWaitMask(mask) ==
    /\ pc = "idle" /\ power = "D0"
    /\ IF IrpMaskLocation # NULL
         THEN FillBuffer({})
         ELSE UNCHANGED <<buffer, Information, IrpMaskLocation, CommWaitDpc>>
    /\ HistoryMask' = HistoryMask \cap mask
    /\ IsrWaitMask' = mask
    /\ UNCHANGED <<EmptiedTransmit, endVars, refVars, userVars, tick, power, pc>>

SecondWaitAccepted == IsrWaitMask # {}        \* mutant: forgets the wait in progress
WaitAccepted == IsrWaitMask # {} /\ CurrentWaitRequest = NULL

MarkCancelable(w) ==
    /\ RefCount' = [RefCount EXCEPT ![w] = @ \cup {"CANCEL"}]
    /\ cancelState' = [cancelState EXCEPT
                         ![w] = IF w \in cancelAsked THEN "fired" ELSE "on"]

\* IOCTL_SERIAL_WAIT_ON_MASK: refused for a recorded error, refused by
\* SerialStartMask, or made current.
WaitOnMask(w) ==
    /\ pc = "idle" /\ power = "D0" /\ w \in Waits \ submitted
    /\ submitted' = submitted \cup {w}
    /\ \/ /\ Complete(w, "CANCELLED")
          /\ UNCHANGED <<CurrentWaitRequest, RefCount, cancelState, pc>>
       \/ /\ ~WaitAccepted
          /\ Complete(w, "INVALID_PARAMETER")
          /\ UNCHANGED <<CurrentWaitRequest, RefCount, cancelState, pc>>
       \/ /\ WaitAccepted
          /\ MarkCancelable(w)
          /\ CurrentWaitRequest' = w
          /\ pc' = "give"
          /\ UNCHANGED <<completions, Status>>
    /\ UNCHANGED <<isrVars, MarkCancelableOnResume, buffer, Information, cancelAsked,
                   tick, power>>

\* The events that are given to the wait stay in HistoryMask.
HistoryNotCleared == HistoryMask           \* mutant: reported twice
HistoryCleared == {}

\* SerialGiveWaitToIsr.
SerialGiveWaitToIsr ==
    /\ pc = "give"
    /\ LET w == CurrentWaitRequest
       IN
       /\ RefCount' = [RefCount EXCEPT ![w] = @ \cup {"ISR"}]
       /\ \/ /\ HistoryMask = {}
             /\ EmptiedTransmit' = FALSE
             /\ IrpMaskLocation' = w
             /\ UNCHANGED <<buffer, Information, HistoryMask, CommWaitDpc, Status>>
          \/ /\ HistoryMask # {}
             /\ buffer' = [buffer EXCEPT ![w] = HistoryMask]
             /\ Information' = [Information EXCEPT ![w] = 4]
             /\ Status' = [Status EXCEPT ![w] = "SUCCESS"]
             /\ HistoryMask' = HistoryCleared
             /\ CommWaitDpc' = TRUE
             /\ UNCHANGED <<EmptiedTransmit, IrpMaskLocation>>
    /\ pc' = "idle"
    /\ UNCHANGED <<IsrWaitMask, completions, CurrentWaitRequest, cancelState,
                   MarkCancelableOnResume, userVars, tick, power>>

-------------------------------------------------------------------------------
(* The interrupt *)

\* The lines that every event goes through: events watched are added to the
\* history, and a wait that is ready takes all of it.
NoteEvents(S) ==
    LET history == HistoryMask \cup (S \cap IsrWaitMask)
    IN
    /\ tick' = ~tick
    /\ \/ /\ IrpMaskLocation # NULL /\ history # {}
          /\ FillBuffer(history)
          /\ HistoryMask' = {}
       \/ /\ IrpMaskLocation = NULL \/ history = {}
          /\ HistoryMask' = history
          /\ UNCHANGED <<buffer, Information, IrpMaskLocation, CommWaitDpc>>

eventFrame == <<IsrWaitMask, EmptiedTransmit, endVars, refVars, userVars, power, pc>>

LineEvent(S) ==
    /\ power # "Dx"
    /\ NoteEvents(S)
    /\ UNCHANGED eventFrame

\* SerialISR sends characters.
TransmitInterrupt ==
    /\ power # "Dx" /\ ~EmptiedTransmit
    /\ EmptiedTransmit' = TRUE
    /\ UNCHANGED <<IsrWaitMask, HistoryMask, IrpMaskLocation, CommWaitDpc, endVars,
                   refVars, userVars, buffer, Information, tick, power, pc>>

\* SerialProcessEmptyTransmit, called when the last write ends.
SerialProcessEmptyTransmit ==
    /\ pc = "idle"
    /\ EmptiedTransmit /\ "TXEMPTY" \in IsrWaitMask
    /\ NoteEvents({"TXEMPTY"})
    /\ UNCHANGED eventFrame

-------------------------------------------------------------------------------
(* The end of a wait *)

\* SerialTryToCompleteCurrent for a wait, which has no next: refs is what the
\* caller leaves, and the last reference completes it.
TryToCompleteCurrent(refs, status) ==
    LET w == CurrentWaitRequest
    IN
    /\ RefCount' = [RefCount EXCEPT ![w] = refs]
    /\ IF refs = {}
         THEN /\ completions' = [completions EXCEPT ![w] = @ + 1]
              /\ Status' = [Status EXCEPT ![w] = status]
              /\ CurrentWaitRequest' = NULL
         ELSE UNCHANGED endVars

\* SerialGrabWaitFromIsr drops the interrupt's reference if it holds the buffer.
Grabbed(w) == IF IrpMaskLocation = w THEN {"ISR"} ELSE {}

\* SerialCancelWait.
SerialCancelWait(w) ==
    /\ pc = "idle" /\ cancelState[w] = "fired"
    /\ cancelState' = [cancelState EXCEPT ![w] = "off"]
    /\ LET refs == RefCount[w] \ (Grabbed(w) \cup {"CANCEL"})
       IN
       /\ TryToCompleteCurrent(refs, "CANCELLED")
       /\ Information' = [Information EXCEPT
              ![w] = IF refs = {} THEN 0 ELSE IF IrpMaskLocation = w THEN 4 ELSE @]
    /\ buffer' = [buffer EXCEPT ![w] = IF IrpMaskLocation = w THEN {} ELSE @]
    /\ IrpMaskLocation' = IF IrpMaskLocation = w THEN NULL ELSE IrpMaskLocation
    /\ UNCHANGED <<IsrWaitMask, HistoryMask, EmptiedTransmit, CommWaitDpc,
                   MarkCancelableOnResume, userVars, tick, power, pc>>

\* SerialCompleteWait, the DPC: a cancel routine that has not started is stopped.
RefsLeftCancelable(w) == RefCount[w] \ {"ISR"}   \* mutant: forgets its reference
RefsLeft(w) ==
    RefCount[w] \ ({"ISR"} \cup (IF cancelState[w] = "on" THEN {"CANCEL"} ELSE {}))

SerialCompleteWait ==
    /\ pc = "idle" /\ CommWaitDpc
    /\ CommWaitDpc' = FALSE
    /\ LET w == CurrentWaitRequest
       IN
       /\ TryToCompleteCurrent(RefsLeft(w), "SUCCESS")
       /\ cancelState' = [cancelState EXCEPT ![w] = IF @ = "on" THEN "off" ELSE @]
    /\ UNCHANGED <<IsrWaitMask, HistoryMask, IrpMaskLocation, EmptiedTransmit, buffer,
                   Information, MarkCancelableOnResume, userVars, tick, power, pc>>

-------------------------------------------------------------------------------
(* Cancellation and power *)

\* The application gives a wait up; a cancelable request's routine is dispatched.
CancelIo(w) ==
    /\ w \in submitted \ cancelAsked /\ completions[w] = 0
    /\ cancelAsked' = cancelAsked \cup {w}
    /\ cancelState' = [cancelState EXCEPT ![w] = IF @ = "on" THEN "fired" ELSE @]
    /\ UNCHANGED <<isrVars, endVars, RefCount, MarkCancelableOnResume, submitted, buffer,
                   Information, tick, power, pc>>

\* SerialEvtIoStop, for the wait in progress if it is cancelable.
SerialEvtIoStop ==
    /\ pc = "idle" /\ power = "D0"
    /\ power' = "Stopping"
    /\ LET w == CurrentWaitRequest
       IN IF w # NULL /\ cancelState[w] = "on"
            THEN /\ cancelState' = [cancelState EXCEPT ![w] = "off"]
                 /\ RefCount' = [RefCount EXCEPT ![w] = @ \ {"CANCEL"}]
                 /\ MarkCancelableOnResume' = [MarkCancelableOnResume EXCEPT ![w] = TRUE]
            ELSE UNCHANGED refVars
    /\ UNCHANGED <<isrVars, endVars, userVars, buffer, Information, tick, pc>>

\* SerialEvtDeviceD0Exit: from here on there is no interrupt.
SerialEvtDeviceD0Exit ==
    /\ power = "Stopping"
    /\ power' = "Dx"
    /\ UNCHANGED <<isrVars, endVars, refVars, userVars, buffer, Information, tick, pc>>

ResumedUnmarked == FALSE                   \* mutant: the wait stays uncancelable
Resumed == CurrentWaitRequest # NULL /\ MarkCancelableOnResume[CurrentWaitRequest]

\* SerialEvtDeviceD0Entry, then SerialEvtIoResume for the wait in progress.
SerialEvtIoResume ==
    /\ pc = "idle" /\ power = "Dx"
    /\ power' = "D0"
    /\ IF Resumed
         THEN /\ MarkCancelable(CurrentWaitRequest)
              /\ MarkCancelableOnResume' =
                    [MarkCancelableOnResume EXCEPT ![CurrentWaitRequest] = FALSE]
         ELSE UNCHANGED refVars
    /\ UNCHANGED <<isrVars, endVars, userVars, buffer, Information, tick, pc>>

-------------------------------------------------------------------------------
Callback ==
    \/ SerialGiveWaitToIsr \/ SerialCompleteWait
    \/ \E w \in Waits : SerialCancelWait(w)

Next ==
    \/ Callback
    \/ \E mask \in SUBSET Events : SetWaitMask(mask)
    \/ \E w \in Waits : WaitOnMask(w) \/ CancelIo(w)
    \/ \E S \in SUBSET LineEvents : LineEvent(S)
    \/ TransmitInterrupt \/ SerialProcessEmptyTransmit
    \/ SerialEvtIoStop \/ SerialEvtDeviceD0Exit \/ SerialEvtIoResume

Spec == Init /\ [][Next]_vars

\* A dispatched callback gets the lock some time.  Nothing is assumed of the line,
\* the application or the power manager.
Fairness ==
    /\ WF_vars(SerialGiveWaitToIsr) /\ SF_vars(SerialCompleteWait)
    /\ \A w \in Waits : SF_vars(SerialCancelWait(w))
FairSpec == Spec /\ Fairness

-------------------------------------------------------------------------------
(* Properties *)

TypeOK ==
    /\ IsrWaitMask \subseteq Events /\ HistoryMask \subseteq Events
    /\ IrpMaskLocation \in Waits \cup {NULL} /\ CurrentWaitRequest \in Waits \cup {NULL}
    /\ EmptiedTransmit \in BOOLEAN /\ CommWaitDpc \in BOOLEAN
    /\ RefCount \in [Waits -> SUBSET REFS]
    /\ cancelState \in [Waits -> {"off", "on", "fired"}]
    /\ buffer \in [Waits -> SUBSET Events] /\ Information \in [Waits -> {0, 4}]
    /\ Status \in [Waits -> {"PENDING", "SUCCESS", "CANCELLED", "INVALID_PARAMETER"}]
    /\ completions \in [Waits -> {0, 1}]
    /\ submitted \subseteq Waits /\ cancelAsked \subseteq submitted
    /\ MarkCancelableOnResume \in [Waits -> BOOLEAN] /\ tick \in BOOLEAN
    /\ power \in {"D0", "Stopping", "Dx"} /\ pc \in {"idle", "give"}

\* The interrupt holds the buffer of the current wait or of none; while it holds
\* one, nothing is left unreported and no DPC is on its way (the ASSERTs of
\* SerialStartMask and SerialGiveWaitToIsr).
InterruptOwnsALiveWait ==
    IrpMaskLocation # NULL =>
        /\ IrpMaskLocation = CurrentWaitRequest /\ pc = "idle"
        /\ HistoryMask = {} /\ ~CommWaitDpc
        /\ buffer[CurrentWaitRequest] = {}

\* The DPC and the cancel routine, which look at CurrentWaitRequest, find the wait
\* they were sent for, with their reference; only a wait given up is cancelled.
CallbacksFindTheirWait ==
    /\ CommWaitDpc => CurrentWaitRequest # NULL /\ pc = "idle"
    /\ \A w \in Waits : cancelState[w] # "off" =>
          /\ w = CurrentWaitRequest /\ "CANCEL" \in RefCount[w]
          /\ cancelState[w] = "fired" => w \in cancelAsked

\* A reference has somebody behind it, and a wait in progress is referred to by the
\* interrupt or its DPC, or else by a cancel routine on its way.
SomebodyEndsIt ==
    CurrentWaitRequest # NULL =>
        /\ "ISR" \in RefCount[CurrentWaitRequest] <=>
              IrpMaskLocation # NULL \/ CommWaitDpc
        /\ "CANCEL" \in RefCount[CurrentWaitRequest] =>
              cancelState[CurrentWaitRequest] # "off"
        /\ \/ pc = "give"
           \/ IrpMaskLocation # NULL \/ CommWaitDpc
           \/ cancelState[CurrentWaitRequest] = "fired"

\* A wait is completed once, when it is neither current nor referred to; in the
\* history is only what is watched (serial.h, at HistoryMask).
CompletedOnce ==
    /\ HistoryMask \subseteq IsrWaitMask
    /\ pc = "give" => CurrentWaitRequest # NULL
    /\ \A w \in Waits :
          /\ completions[w] = (IF w \in submitted /\ w # CurrentWaitRequest THEN 1 ELSE 0)
          /\ w # CurrentWaitRequest => RefCount[w] = {}
          /\ w \notin submitted => w # CurrentWaitRequest /\ buffer[w] = {}
          /\ w = CurrentWaitRequest /\ pc = "give" =>
                buffer[w] = {} /\ ~CommWaitDpc /\ "ISR" \notin RefCount[w]

\* All of it together is inductive: whatever the interrupt, the cancel routine, a
\* new mask and a suspend do to a wait, it is ended once and by somebody.
WaitInv ==
    /\ TypeOK
    /\ InterruptOwnsALiveWait
    /\ CallbacksFindTheirWait
    /\ SomebodyEndsIt
    /\ CompletedOnce

\* What an application sees of a wait.
Outcome(w) ==
    IF w \notin submitted THEN "no"
    ELSE IF w = CurrentWaitRequest
      THEN IF pc = "give" \/ IrpMaskLocation = w \/ buffer[w] # {}
             THEN "waiting" ELSE "overtaken"
    ELSE IF Status[w] = "SUCCESS" THEN IF buffer[w] # {} THEN "reported" ELSE "nothing"
    ELSE IF Status[w] = "CANCELLED" /\ w \in cancelAsked THEN "cancelled" ELSE "refused"

Due(e) == (IF e \in HistoryMask THEN 1 ELSE 0)
        + (IF CurrentWaitRequest # NULL
             THEN (IF e \in buffer[CurrentWaitRequest] THEN 1 ELSE 0) ELSE 0)

\* The wait mask reports every event that is watched, once, in the next wait, except
\* those dropped by a new mask or lost with a cancelled wait (EventRegister).
Register == INSTANCE EventRegister WITH
    watched <- IsrWaitMask,
    due <- [e \in Events |-> Due(e)],
    outcome <- [w \in Waits |-> Outcome(w)],
    withdrawn <- cancelAsked
ImplementsRegister == Register!Spec

\* A wait that was satisfied, overtaken by a new mask, or given up, ends, unless the
\* system is suspended first.
SatisfiedEnds == \A w \in Waits :
    CurrentWaitRequest = w /\ pc = "idle" /\ IrpMaskLocation = NULL
        ~> CurrentWaitRequest # w
CancelledEnds == \A w \in Waits :
    w \in cancelAsked ~> completions[w] = 1 \/ power # "D0"
===============================================================================
