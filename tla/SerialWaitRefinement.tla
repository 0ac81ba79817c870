-------------------------- MODULE SerialWaitRefinement --------------------------
(***************************************************************************)
(* SerialWait implements EventRegister, for any set of waits and of events *)
(* on the line: the proof that ImplementsRegister holds of every behaviour *)
(* of Spec, action by action.                                              *)
(***************************************************************************)
EXTENDS SerialWaitProofs

USE WaitAssumption

-------------------------------------------------------------------------------
(* What an application sees does not change. *)

SameDue == \A e \in Events : Due(e)' = Due(e)
SameOutcome == \A w \in Waits : Outcome(w)' = Outcome(w)
RegisterStep == [Register!Next]_Register!regVars

LEMMA Stutter ==
    ASSUME SameDue, SameOutcome, UNCHANGED <<IsrWaitMask, cancelAsked, tick>>
    PROVE  RegisterStep
  BY DEF SameDue, SameOutcome, RegisterStep, Register!regVars

LEMMA InitRefines == Init => Register!Init
  BY DEF Init, Register!Init, Due, Outcome

\* An event is Happen(S), given to a wait or not.
LEMMA EventsRefine ==
    ASSUME WaitInv, NEW S \in SUBSET Events, NoteEvents(S), UNCHANGED eventFrame
    PROVE  RegisterStep
  <1> USE DEF WaitInv, eventFrame, endVars, userVars
  <1> DEFINE w == CurrentWaitRequest
             history == HistoryMask \cup (S \cap IsrWaitMask)
  <1>1. CASE IrpMaskLocation # NULL /\ history # {} /\ FillBuffer(history) /\ HistoryMask' = {}
    <2>1. w \in Waits /\ IrpMaskLocation = w /\ HistoryMask = {} /\ buffer[w] = {}
      BY <1>1 DEF InterruptOwnsALiveWait, TypeOK
    <2>2. buffer' = [buffer EXCEPT ![w] = history] /\ w' = w /\ pc' = pc
      BY <1>1, <2>1 DEF FillBuffer
    <2>3. \A e \in Events : Due(e)' = (IF e \in history THEN 1 ELSE 0) /\ Due(e) = 0
      BY <1>1, <2>1, <2>2 DEF Due, TypeOK
    <2>4. SameOutcome
      BY <1>1, <2>1, <2>2 DEF SameOutcome, Outcome, TypeOK
    <2>5. Register!Happen(S)
      BY <2>1, <2>3, <2>4 DEF Register!Happen, NoteEvents, SameOutcome
    <2> QED
      BY <2>5 DEF RegisterStep, Register!Next
  <1>2. CASE (IrpMaskLocation = NULL \/ history = {}) /\ HistoryMask' = history
             /\ UNCHANGED <<buffer, Information, IrpMaskLocation, CommWaitDpc>>
    <2>1. \A e \in Events : IF e \in S \cap IsrWaitMask
                              THEN Due(e)' \in {Due(e), Due(e) + 1} /\ Due(e)' > 0
                              ELSE Due(e)' = Due(e)
      BY <1>2 DEF Due
    <2>2. SameOutcome
      BY <1>2 DEF SameOutcome, Outcome
    <2>3. Register!Happen(S)
      BY <2>1, <2>2 DEF Register!Happen, NoteEvents, SameOutcome
    <2> QED
      BY <2>3 DEF RegisterStep, Register!Next
  <1> QED
    BY <1>1, <1>2 DEF NoteEvents

LEMMA SetWaitMaskRefines ==
    ASSUME WaitInv, NEW mask \in SUBSET Events, SetWaitMask(mask)
    PROVE  RegisterStep
  <1> USE DEF WaitInv, SetWaitMask, endVars, userVars
  <1> DEFINE w == CurrentWaitRequest
  <1>1. \A e \in Events : Due(e)' \in (IF e \in mask THEN {Due(e)} ELSE {Due(e), Due(e) - 1})
    <2>1. CASE IrpMaskLocation # NULL
      BY <2>1 DEF Due, FillBuffer, InterruptOwnsALiveWait, TypeOK
    <2>2. CASE IrpMaskLocation = NULL
      BY <2>2 DEF Due
    <2> QED
      BY <2>1, <2>2
  <1>2. CASE IrpMaskLocation # NULL
    <2>1. w \in Waits /\ IrpMaskLocation = w /\ buffer[w] = {} /\ pc = "idle"
          /\ w \in submitted
      BY <1>2 DEF InterruptOwnsALiveWait, CompletedOnce, TypeOK
    <2>2. buffer' = [buffer EXCEPT ![w] = {}] /\ IrpMaskLocation' = NULL
      BY <1>2, <2>1 DEF FillBuffer
    <2>3. Outcome(w) = "waiting" /\ Outcome(w)' = "overtaken"
      BY <2>1, <2>2 DEF Outcome, TypeOK
    <2>4. \A v \in Waits \ {w} : Outcome(v)' = Outcome(v)
      BY <2>1, <2>2 DEF Outcome, TypeOK
    <2>5. Register!Watch(mask)
      BY <1>1, <2>1, <2>3, <2>4 DEF Register!Watch
    <2> QED
      BY <2>5 DEF RegisterStep, Register!Next
  <1>3. CASE IrpMaskLocation = NULL
    <2>1. SameOutcome
      BY <1>3 DEF SameOutcome, Outcome
    <2>2. Register!Watch(mask)
      BY <1>1, <2>1 DEF Register!Watch, SameOutcome
    <2> QED
      BY <2>2 DEF RegisterStep, Register!Next
  <1> QED
    BY <1>2, <1>3

\* A request is refused, or becomes the wait in progress.
LEMMA WaitOnMaskRefines ==
    ASSUME WaitInv, WaitInv', NEW w \in Waits, WaitOnMask(w)
    PROVE  RegisterStep
  <1> USE DEF WaitInv, WaitOnMask, isrVars
  <1>0. w \notin submitted /\ w # CurrentWaitRequest /\ submitted' = submitted \cup {w}
        /\ w # NULL /\ Outcome(w) = "no"
    BY DEF CompletedOnce, Outcome
  <1>1. CASE Complete(w, "CANCELLED") \/ Complete(w, "INVALID_PARAMETER")
    <2>1. CurrentWaitRequest' = CurrentWaitRequest /\ pc' = pc
      <3>1. CASE CurrentWaitRequest' = w
        BY <1>0, <1>1, <3>1 DEF Complete, CompletedOnce, TypeOK, WaitAccepted
      <3> QED
        BY <3>1
    <2>2. SameDue
      BY <2>1 DEF SameDue, Due
    <2>3. Outcome(w)' = "refused"
      <3>1. Status'[w] \in {"CANCELLED", "INVALID_PARAMETER"} /\ w \notin cancelAsked
        BY <1>1 DEF Complete, TypeOK
      <3> QED
        BY <1>0, <2>1, <3>1 DEF Outcome
    <2>4. \A v \in Waits \ {w} : Outcome(v)' = Outcome(v)
      BY <1>0, <1>1, <2>1 DEF Outcome, Complete, TypeOK
    <2>5. Register!Refuse(w)
      BY <1>0, <2>2, <2>3, <2>4 DEF Register!Refuse, SameDue
    <2> QED
      BY <2>5 DEF RegisterStep, Register!Next
  <1>2. CASE /\ WaitAccepted /\ CurrentWaitRequest' = w /\ pc' = "give"
             /\ UNCHANGED <<completions, Status>>
    <2>1. CurrentWaitRequest = NULL /\ buffer[w] = {} /\ IsrWaitMask # {}
      BY <1>0, <1>2 DEF WaitAccepted, CompletedOnce
    <2>2. SameDue
      BY <1>0, <1>2, <2>1 DEF SameDue, Due
    <2>3. Outcome(w)' = "waiting"
      BY <1>0, <1>2 DEF Outcome
    <2>4. \A v \in Waits \ {w} : Outcome(v)' = Outcome(v)
      BY <1>0, <1>2, <2>1 DEF Outcome
    <2>5. \A v \in Waits : Outcome(v) \notin {"waiting", "overtaken"}
      BY <2>1 DEF Outcome
    <2>6. Register!Begin(w)
      BY <1>0, <2>1, <2>2, <2>3, <2>4, <2>5 DEF Register!Begin, SameDue
    <2> QED
      BY <2>6 DEF RegisterStep, Register!Next
  <1> QED
    BY <1>1, <1>2

\* Events that were in the history are in the buffer now: the application has not seen it.
LEMMA GiveWaitRefines ==
    ASSUME WaitInv, SerialGiveWaitToIsr
    PROVE  RegisterStep
  <1> USE DEF WaitInv, SerialGiveWaitToIsr, userVars
  <1> DEFINE w == CurrentWaitRequest
  <1>1. w \in Waits /\ w' = w /\ buffer[w] = {} /\ Outcome(w) = "waiting" /\ w \in submitted
    BY DEF CompletedOnce, TypeOK, Outcome
  <1>2. \A v \in Waits \ {w} : Outcome(v)' = Outcome(v)
    BY <1>1 DEF Outcome, TypeOK
  <1>3. CASE HistoryMask = {} /\ IrpMaskLocation' = w /\ UNCHANGED <<buffer, HistoryMask>>
    <2>1. Outcome(w)' = "waiting"
      BY <1>1, <1>3 DEF Outcome
    <2>2. SameDue
      BY <1>1, <1>3 DEF SameDue, Due
    <2> QED
      BY <1>1, <1>2, <2>1, <2>2, Stutter DEF SameOutcome
  <1>4. CASE /\ HistoryMask # {} /\ buffer' = [buffer EXCEPT ![w] = HistoryMask]
             /\ HistoryMask' = {}
    <2>1. Outcome(w)' = "waiting"
      BY <1>1, <1>4 DEF Outcome, TypeOK
    <2>2. SameDue
      BY <1>1, <1>4 DEF SameDue, Due, TypeOK
    <2> QED
      BY <1>1, <1>2, <2>1, <2>2, Stutter DEF SameOutcome
  <1> QED
    BY <1>3, <1>4 DEF HistoryCleared

\* What the wait had been given is lost with it, unless the DPC is to report it.
LEMMA CancelWaitRefines ==
    ASSUME WaitInv, NEW w \in Waits, SerialCancelWait(w)
    PROVE  RegisterStep
  <1> USE DEF WaitInv, SerialCancelWait, userVars
  <1> DEFINE refs == RefCount[w] \ (Grabbed(w) \cup {"CANCEL"})
  <1>1. w = CurrentWaitRequest /\ w \in submitted /\ w \in cancelAsked
    BY DEF CallbacksFindTheirWait, CompletedOnce
  <1>2. CASE refs = {}
    <2>1. /\ CurrentWaitRequest' = NULL /\ HistoryMask' = HistoryMask
          /\ Status' = [Status EXCEPT ![w] = "CANCELLED"]
      BY <1>1, <1>2 DEF TryToCompleteCurrent
    <2>2. Outcome(w) \in {"waiting", "overtaken"} /\ Outcome(w)' = "cancelled"
      BY <1>1, <2>1 DEF Outcome, TypeOK
    <2>3. \A v \in Waits \ {w} : Outcome(v)' = Outcome(v)
      BY <1>1, <2>1 DEF Outcome, TypeOK
    <2>4. /\ \A e \in buffer[w] : Due(e) > 0
          /\ \A e \in Events : Due(e)' = (IF e \in buffer[w] THEN Due(e) - 1 ELSE Due(e))
      BY <1>1, <2>1 DEF Due
    <2>5. Register!Cancel(w, buffer[w]) /\ buffer[w] \in SUBSET Events
      BY <1>1, <2>2, <2>3, <2>4 DEF Register!Cancel, TypeOK
    <2> QED
      BY <2>5 DEF RegisterStep, Register!Next
  <1>3. CASE refs # {}
    <2>1. IrpMaskLocation # w
      BY <1>3 DEF Grabbed, TypeOK, REFS
    <2>2. UNCHANGED <<CurrentWaitRequest, Status, IrpMaskLocation, HistoryMask>>
          /\ buffer' = buffer
      BY <1>1, <1>3, <2>1 DEF TryToCompleteCurrent, endVars, TypeOK
    <2>3. SameDue /\ SameOutcome
      BY <2>2 DEF SameDue, SameOutcome, Due, Outcome
    <2> QED
      BY <2>3, Stutter
  <1> QED
    BY <1>2, <1>3

\* The DPC ends the wait, with what is in its buffer, or leaves it to the cancel routine.
LEMMA CompleteWaitRefines ==
    ASSUME WaitInv, SerialCompleteWait
    PROVE  RegisterStep
  <1> USE DEF WaitInv, SerialCompleteWait, userVars
  <1>1. PICK w \in Waits : w = CurrentWaitRequest /\ w \in submitted /\ IrpMaskLocation # w
    BY DEF CallbacksFindTheirWait, InterruptOwnsALiveWait, CompletedOnce, TypeOK
  <1>2. CASE RefsLeft(w) = {}
    <2>1. CurrentWaitRequest' = NULL /\ Status' = [Status EXCEPT ![w] = "SUCCESS"]
      BY <1>1, <1>2 DEF TryToCompleteCurrent
    <2>2. \A v \in Waits \ {w} : Outcome(v)' = Outcome(v)
      BY <1>1, <2>1 DEF Outcome, TypeOK
    <2>3. /\ \A e \in buffer[w] : Due(e) > 0
          /\ \A e \in Events : Due(e)' = (IF e \in buffer[w] THEN Due(e) - 1 ELSE Due(e))
      BY <1>1, <2>1 DEF Due
    <2>4. CASE buffer[w] # {}
      <3>1. Outcome(w) = "waiting" /\ Outcome(w)' = "reported"
        BY <1>1, <2>1, <2>4 DEF Outcome, TypeOK
      <3>2. Register!Report(w, buffer[w]) /\ buffer[w] \in SUBSET Events
        BY <1>1, <2>2, <2>3, <2>4, <3>1 DEF Register!Report, TypeOK
      <3> QED
        BY <1>1, <3>2 DEF RegisterStep, Register!Next
    <2>5. CASE buffer[w] = {}
      <3>1. Outcome(w) = "overtaken" /\ Outcome(w)' = "nothing"
        BY <1>1, <2>1, <2>5 DEF Outcome, TypeOK
      <3>2. Register!EndWithNothing(w)
        BY <1>1, <2>2, <2>3, <2>5, <3>1 DEF Register!EndWithNothing
      <3> QED
        BY <1>1, <3>2 DEF RegisterStep, Register!Next
    <2> QED
      BY <2>4, <2>5
  <1>3. CASE RefsLeft(w) # {}
    <2>1. UNCHANGED <<CurrentWaitRequest, Status>>
      BY <1>1, <1>3 DEF TryToCompleteCurrent, endVars
    <2>2. SameDue /\ SameOutcome
      BY <2>1 DEF SameDue, SameOutcome, Due, Outcome
    <2> QED
      BY <2>2, Stutter
  <1> QED
    BY <1>2, <1>3

LEMMA CancelIoRefines ==
    ASSUME WaitInv, NEW w \in Waits, CancelIo(w)
    PROVE  RegisterStep
  <1> USE DEF WaitInv, CancelIo, isrVars, endVars
  <1>1. w = CurrentWaitRequest
    BY DEF CompletedOnce
  <1>2. SameDue /\ SameOutcome
    BY <1>1 DEF SameDue, SameOutcome, Due, Outcome
  <1>3. Register!Withdraw(w)
    BY <1>2 DEF Register!Withdraw, SameDue, SameOutcome
  <1> QED
    BY <1>3 DEF RegisterStep, Register!Next

\* Power, and the transmitter, are nothing to the application.
LEMMA OthersRefine ==
    ASSUME TransmitInterrupt \/ SerialEvtIoStop \/ SerialEvtDeviceD0Exit
             \/ SerialEvtIoResume \/ UNCHANGED vars
    PROVE  RegisterStep
  <1> USE DEF isrVars, endVars, userVars
  <1>1. UNCHANGED <<IsrWaitMask, HistoryMask, IrpMaskLocation, CurrentWaitRequest, Status,
                    buffer, submitted, cancelAsked, tick, pc>>
    BY DEF TransmitInterrupt, SerialEvtIoStop, SerialEvtDeviceD0Exit, SerialEvtIoResume, vars
  <1>2. SameDue /\ SameOutcome
    BY <1>1 DEF SameDue, SameOutcome, Due, Outcome
  <1> QED
    BY <1>1, <1>2, Stutter

LEMMA NextRefines == WaitInv /\ WaitInv' /\ [Next]_vars => RegisterStep
  <1> SUFFICES ASSUME WaitInv, WaitInv', [Next]_vars PROVE RegisterStep
    OBVIOUS
  <1>1. CASE Callback
    BY <1>1, GiveWaitRefines, CompleteWaitRefines, CancelWaitRefines DEF Callback
  <1>2. CASE \E mask \in SUBSET Events : SetWaitMask(mask)
    BY <1>2, SetWaitMaskRefines
  <1>3. CASE \E w \in Waits : WaitOnMask(w) \/ CancelIo(w)
    BY <1>3, WaitOnMaskRefines, CancelIoRefines
  <1>4. CASE \E S \in SUBSET LineEvents : LineEvent(S)
    BY <1>4, EventsRefine DEF LineEvent, Events
  <1>5. CASE SerialProcessEmptyTransmit
    BY <1>5, EventsRefine DEF SerialProcessEmptyTransmit, Events
  <1>6. CASE \/ TransmitInterrupt \/ SerialEvtIoStop \/ SerialEvtDeviceD0Exit
             \/ SerialEvtIoResume \/ UNCHANGED vars
    BY <1>6, OthersRefine
  <1> QED
    BY <1>1, <1>2, <1>3, <1>4, <1>5, <1>6 DEF Next

-------------------------------------------------------------------------------
\* The wait mask reports every watched event once, in the next wait, except those that a
\* new mask drops or that are lost with a cancelled wait.
THEOREM WaitImplementsRegister == Spec => ImplementsRegister
  <1>1. Spec => Register!Init
    BY InitRefines DEF Spec
  <1>2. WaitInv /\ WaitInv' /\ [Next]_vars => [Register!Next]_Register!regVars
    BY NextRefines DEF RegisterStep
  <1> QED
    BY <1>1, <1>2, WaitInvariant, PTL DEF Spec, ImplementsRegister, Register!Spec
===============================================================================
