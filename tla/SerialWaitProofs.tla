---------------------------- MODULE SerialWaitProofs ----------------------------
(***************************************************************************)
(* WaitInv is inductive: for any set of waits and of events, what the      *)
(* interrupt, the DPC, the cancel routine, a new mask and a suspend do to  *)
(* a wait leaves somebody to end it, once.                                 *)
(***************************************************************************)
EXTENDS SerialWait, TLAPS

USE WaitAssumption

-------------------------------------------------------------------------------
LEMMA InitKeeps == Init => WaitInv
  <1> SUFFICES ASSUME Init PROVE WaitInv
    OBVIOUS
  <1>1. TypeOK
    BY DEF Init, TypeOK
  <1>2. InterruptOwnsALiveWait /\ CallbacksFindTheirWait /\ SomebodyEndsIt
    BY DEF Init, InterruptOwnsALiveWait, CallbacksFindTheirWait, SomebodyEndsIt
  <1>3. CompletedOnce
    BY DEF Init, CompletedOnce
  <1> QED
    BY <1>1, <1>2, <1>3 DEF WaitInv

\* A new mask, with what it does to a wait that is not satisfied.
LEMMA SetWaitMaskKeeps ==
    ASSUME NEW mask \in SUBSET Events, WaitInv, SetWaitMask(mask) PROVE WaitInv'
  <1>1. TypeOK'
    <2>1. CASE IrpMaskLocation # NULL
      BY <2>1 DEF WaitInv, TypeOK, endVars, refVars, userVars, SetWaitMask, FillBuffer
    <2>2. CASE IrpMaskLocation = NULL
      BY <2>2 DEF WaitInv, TypeOK, endVars, refVars, userVars, SetWaitMask
    <2> QED
      BY <2>1, <2>2
  <1>2. InterruptOwnsALiveWait'
    BY DEF InterruptOwnsALiveWait, SetWaitMask, FillBuffer
  <1>3. CallbacksFindTheirWait'
    BY DEF WaitInv, InterruptOwnsALiveWait, CallbacksFindTheirWait, endVars, refVars,
           userVars, SetWaitMask
  <1>4. SomebodyEndsIt'
    BY DEF WaitInv, SomebodyEndsIt, endVars, refVars, SetWaitMask, FillBuffer
  <1>5. CompletedOnce'
    BY DEF WaitInv, TypeOK, CompletedOnce, endVars, refVars, userVars, SetWaitMask,
           FillBuffer
  <1> QED
    BY <1>1, <1>2, <1>3, <1>4, <1>5 DEF WaitInv

LEMMA WaitOnMaskKeeps ==
    ASSUME NEW w \in Waits, WaitInv, WaitOnMask(w) PROVE WaitInv'
  <1>1. TypeOK'
    BY DEF WaitInv, TypeOK, CompletedOnce, REFS, isrVars, WaitOnMask, MarkCancelable,
           Complete
  <1>2. InterruptOwnsALiveWait'
    BY DEF WaitInv, InterruptOwnsALiveWait, isrVars, WaitOnMask, WaitAccepted
  <1>3. CallbacksFindTheirWait'
    BY DEF WaitInv, TypeOK, CallbacksFindTheirWait, isrVars, WaitOnMask, WaitAccepted,
           MarkCancelable
  <1>4. SomebodyEndsIt'
    BY DEF WaitInv, TypeOK, InterruptOwnsALiveWait, CallbacksFindTheirWait, SomebodyEndsIt,
           CompletedOnce, isrVars, WaitOnMask, WaitAccepted, MarkCancelable
  <1>5. CompletedOnce'
    BY DEF WaitInv, TypeOK, CallbacksFindTheirWait, CompletedOnce, isrVars, WaitOnMask,
           WaitAccepted, MarkCancelable, Complete
  <1> QED
    BY <1>1, <1>2, <1>3, <1>4, <1>5 DEF WaitInv

LEMMA GiveWaitKeeps ==
    ASSUME WaitInv, SerialGiveWaitToIsr PROVE WaitInv'
  <1>1. TypeOK'
    <2>1. CASE HistoryMask = {}
      BY <2>1 DEF WaitInv, TypeOK, REFS, userVars, SerialGiveWaitToIsr
    <2>2. CASE HistoryMask # {}
      <3> DEFINE w == CurrentWaitRequest
      <3>1. w \in Waits
        BY DEF WaitInv, TypeOK, CompletedOnce, SerialGiveWaitToIsr
      <3>2. Information' \in [Waits -> {0, 4}] /\ buffer' \in [Waits -> SUBSET Events]
        BY <2>2, <3>1 DEF WaitInv, TypeOK, SerialGiveWaitToIsr
      <3>3. RefCount' \in [Waits -> SUBSET REFS]
        BY <3>1 DEF WaitInv, TypeOK, SerialGiveWaitToIsr, REFS
      <3>4. Status' \in [Waits -> {"PENDING", "SUCCESS", "CANCELLED", "INVALID_PARAMETER"}]
        BY <2>2, <3>1 DEF WaitInv, TypeOK, SerialGiveWaitToIsr
      <3> QED
        BY <2>2, <3>1, <3>2, <3>3, <3>4
           DEF WaitInv, TypeOK, SerialGiveWaitToIsr, HistoryCleared, userVars
    <2> QED
      BY <2>1, <2>2
  <1>2. InterruptOwnsALiveWait'
    BY DEF WaitInv, TypeOK, InterruptOwnsALiveWait, CompletedOnce, SerialGiveWaitToIsr
  <1>3. CallbacksFindTheirWait'
    BY DEF WaitInv, CallbacksFindTheirWait, CompletedOnce, userVars, SerialGiveWaitToIsr
  <1>4. SomebodyEndsIt'
    BY DEF WaitInv, TypeOK, SomebodyEndsIt, SerialGiveWaitToIsr
  <1>5. CompletedOnce'
    BY DEF WaitInv, TypeOK, CompletedOnce, userVars, SerialGiveWaitToIsr, HistoryCleared
  <1> QED
    BY <1>1, <1>2, <1>3, <1>4, <1>5 DEF WaitInv

\* Both kinds of event go through the same lines.
LEMMA EventsKeep ==
    ASSUME NEW S \in SUBSET Events, WaitInv, NoteEvents(S) /\ UNCHANGED eventFrame
    PROVE  WaitInv'
  <1>1. TypeOK'
    <2>1. CASE UNCHANGED IrpMaskLocation
      BY <2>1
         DEF WaitInv, TypeOK, endVars, refVars, userVars, NoteEvents, eventFrame, FillBuffer
    <2>2. CASE IrpMaskLocation # NULL
      <3>1. CASE FillBuffer(HistoryMask \cup (S \cap IsrWaitMask)) /\ HistoryMask' = {}
        <4>1. buffer' \in [Waits -> SUBSET Events]
          BY <2>2, <3>1 DEF WaitInv, TypeOK, FillBuffer
        <4>2. Information' \in [Waits -> {0, 4}]
          BY <2>2, <3>1 DEF WaitInv, TypeOK, FillBuffer
        <4> QED
          BY <3>1, <4>1, <4>2
             DEF WaitInv, TypeOK, endVars, refVars, userVars, NoteEvents, eventFrame,
                 FillBuffer
      <3>2. CASE UNCHANGED IrpMaskLocation
        BY <2>1, <3>2
      <3> QED
        BY <3>1, <3>2 DEF NoteEvents
    <2> QED
      BY <2>1, <2>2 DEF NoteEvents
  <1>2. InterruptOwnsALiveWait'
    BY DEF WaitInv, InterruptOwnsALiveWait, endVars, NoteEvents, eventFrame, FillBuffer
  <1>3. CallbacksFindTheirWait'
    BY DEF WaitInv, InterruptOwnsALiveWait, CallbacksFindTheirWait, endVars, refVars,
           userVars, NoteEvents, eventFrame
  <1>4. SomebodyEndsIt'
    BY DEF WaitInv, SomebodyEndsIt, endVars, refVars, NoteEvents, eventFrame, FillBuffer
  <1>5. CompletedOnce'
    BY DEF WaitInv, TypeOK, InterruptOwnsALiveWait, CompletedOnce, endVars, refVars,
           userVars, NoteEvents, eventFrame, FillBuffer
  <1> QED
    BY <1>1, <1>2, <1>3, <1>4, <1>5 DEF WaitInv

LEMMA TransmitKeeps ==
    ASSUME WaitInv, TransmitInterrupt PROVE WaitInv'
  <1>1. TypeOK'
    BY DEF WaitInv, TypeOK, endVars, refVars, userVars, TransmitInterrupt
  <1>2. InterruptOwnsALiveWait'
    BY DEF WaitInv, InterruptOwnsALiveWait, endVars, TransmitInterrupt
  <1>3. CallbacksFindTheirWait'
    BY DEF WaitInv, CallbacksFindTheirWait, endVars, refVars, userVars, TransmitInterrupt
  <1>4. SomebodyEndsIt'
    BY DEF WaitInv, SomebodyEndsIt, endVars, refVars, TransmitInterrupt
  <1>5. CompletedOnce'
    BY DEF WaitInv, CompletedOnce, endVars, refVars, userVars, TransmitInterrupt
  <1> QED
    BY <1>1, <1>2, <1>3, <1>4, <1>5 DEF WaitInv

LEMMA CancelWaitKeeps ==
    ASSUME NEW w \in Waits, WaitInv, SerialCancelWait(w) PROVE WaitInv'
  <1>1. TypeOK'
    BY DEF WaitInv, TypeOK, CallbacksFindTheirWait, CompletedOnce, endVars, userVars,
           SerialCancelWait, TryToCompleteCurrent
  <1>2. InterruptOwnsALiveWait'
    BY DEF WaitInv, InterruptOwnsALiveWait, CallbacksFindTheirWait, SerialCancelWait
  <1>3. CallbacksFindTheirWait'
    BY DEF WaitInv, TypeOK, InterruptOwnsALiveWait, CallbacksFindTheirWait, SomebodyEndsIt,
           endVars, SerialCancelWait, TryToCompleteCurrent, Grabbed
  <1>4. SomebodyEndsIt'
    BY DEF WaitInv, TypeOK, SomebodyEndsIt, CompletedOnce, REFS, endVars, SerialCancelWait,
           TryToCompleteCurrent, Grabbed
  <1>5. CompletedOnce'
    BY DEF WaitInv, TypeOK, CompletedOnce, endVars, userVars, SerialCancelWait,
           TryToCompleteCurrent
  <1> QED
    BY <1>1, <1>2, <1>3, <1>4, <1>5 DEF WaitInv

LEMMA CompleteWaitKeeps ==
    ASSUME WaitInv, SerialCompleteWait PROVE WaitInv'
  <1>1. TypeOK'
    <2> DEFINE w == CurrentWaitRequest
    <2>1. w \in Waits /\ completions[w] = 0
      BY DEF WaitInv, TypeOK, CallbacksFindTheirWait, CompletedOnce, SerialCompleteWait
    <2>2. RefCount' \in [Waits -> SUBSET REFS]
      BY <2>1 DEF WaitInv, TypeOK, SerialCompleteWait, TryToCompleteCurrent, RefsLeft
    <2>3. completions' \in [Waits -> {0, 1}]
      BY <2>1 DEF WaitInv, TypeOK, endVars, SerialCompleteWait, TryToCompleteCurrent
    <2>4. Status' \in [Waits -> {"PENDING", "SUCCESS", "CANCELLED", "INVALID_PARAMETER"}]
      BY <2>1 DEF WaitInv, TypeOK, endVars, SerialCompleteWait, TryToCompleteCurrent
    <2>5. cancelState' \in [Waits -> {"off", "on", "fired"}]
      BY <2>1 DEF WaitInv, TypeOK, SerialCompleteWait
    <2>6. CurrentWaitRequest' \in Waits \cup {NULL}
      BY <2>1 DEF endVars, SerialCompleteWait, TryToCompleteCurrent
    <2> QED
      BY <2>2, <2>3, <2>4, <2>5, <2>6 DEF WaitInv, TypeOK, userVars, SerialCompleteWait
  <1>2. InterruptOwnsALiveWait'
    BY DEF WaitInv, InterruptOwnsALiveWait, SerialCompleteWait
  <1>3. CallbacksFindTheirWait'
    BY DEF WaitInv, TypeOK, CallbacksFindTheirWait, endVars, userVars, SerialCompleteWait,
           TryToCompleteCurrent, RefsLeft
  <1>4. SomebodyEndsIt'
    BY DEF WaitInv, TypeOK, InterruptOwnsALiveWait, SomebodyEndsIt, REFS, endVars,
           SerialCompleteWait, TryToCompleteCurrent, RefsLeft
  <1>5. CompletedOnce'
    BY DEF WaitInv, TypeOK, CompletedOnce, endVars, userVars, SerialCompleteWait,
           TryToCompleteCurrent
  <1> QED
    BY <1>1, <1>2, <1>3, <1>4, <1>5 DEF WaitInv

LEMMA CancelIoKeeps ==
    ASSUME NEW w \in Waits, WaitInv, CancelIo(w) PROVE WaitInv'
  <1>1. TypeOK'
    BY DEF WaitInv, TypeOK, isrVars, endVars, CancelIo
  <1>2. InterruptOwnsALiveWait'
    BY DEF WaitInv, InterruptOwnsALiveWait, isrVars, endVars, CancelIo
  <1>3. CallbacksFindTheirWait'
    BY DEF WaitInv, CallbacksFindTheirWait, isrVars, endVars, CancelIo
  <1>4. SomebodyEndsIt'
    BY DEF WaitInv, SomebodyEndsIt, isrVars, endVars, CancelIo
  <1>5. CompletedOnce'
    BY DEF WaitInv, CompletedOnce, isrVars, endVars, CancelIo
  <1> QED
    BY <1>1, <1>2, <1>3, <1>4, <1>5 DEF WaitInv

LEMMA IoStopKeeps ==
    ASSUME WaitInv, SerialEvtIoStop PROVE WaitInv'
  <1>1. TypeOK'
    <2>1. RefCount' \in [Waits -> SUBSET REFS]
      BY DEF WaitInv, TypeOK, refVars, SerialEvtIoStop
    <2>2. cancelState' \in [Waits -> {"off", "on", "fired"}]
      BY DEF WaitInv, TypeOK, refVars, SerialEvtIoStop
    <2>3. MarkCancelableOnResume' \in [Waits -> BOOLEAN]
      BY DEF WaitInv, TypeOK, refVars, SerialEvtIoStop
    <2> QED
      BY <2>1, <2>2, <2>3 DEF WaitInv, TypeOK, isrVars, endVars, userVars, SerialEvtIoStop
  <1>2. InterruptOwnsALiveWait'
    BY DEF WaitInv, InterruptOwnsALiveWait, isrVars, endVars, SerialEvtIoStop
  <1>3. CallbacksFindTheirWait'
    BY DEF WaitInv, TypeOK, CallbacksFindTheirWait, isrVars, endVars, refVars, userVars,
           SerialEvtIoStop
  <1>4. SomebodyEndsIt'
    BY DEF WaitInv, TypeOK, SomebodyEndsIt, isrVars, endVars, refVars, SerialEvtIoStop
  <1>5. CompletedOnce'
    BY DEF WaitInv, TypeOK, CompletedOnce, isrVars, endVars, refVars, userVars,
           SerialEvtIoStop
  <1> QED
    BY <1>1, <1>2, <1>3, <1>4, <1>5 DEF WaitInv

LEMMA IoResumeKeeps ==
    ASSUME WaitInv, SerialEvtIoResume PROVE WaitInv'
  <1>1. TypeOK'
    <2>1. CASE Resumed
      <3>1. RefCount' \in [Waits -> SUBSET REFS]
        BY <2>1 DEF WaitInv, TypeOK, REFS, SerialEvtIoResume, MarkCancelable
      <3>2. cancelState' \in [Waits -> {"off", "on", "fired"}]
        BY <2>1 DEF WaitInv, TypeOK, SerialEvtIoResume, MarkCancelable
      <3>3. MarkCancelableOnResume' \in [Waits -> BOOLEAN]
        BY <2>1 DEF WaitInv, TypeOK, SerialEvtIoResume
      <3> QED
        BY <2>1, <3>1, <3>2, <3>3
           DEF WaitInv, TypeOK, isrVars, endVars, userVars, SerialEvtIoResume
    <2>2. CASE ~Resumed
      BY <2>2 DEF WaitInv, TypeOK, isrVars, endVars, refVars, userVars, SerialEvtIoResume
    <2> QED
      BY <2>1, <2>2
  <1>2. InterruptOwnsALiveWait'
    BY DEF WaitInv, InterruptOwnsALiveWait, isrVars, endVars, SerialEvtIoResume
  <1>3. CallbacksFindTheirWait'
    BY DEF WaitInv, TypeOK, CallbacksFindTheirWait, isrVars, endVars, refVars, userVars,
           SerialEvtIoResume, MarkCancelable
  <1>4. SomebodyEndsIt'
    <2>1. CASE Resumed
      <3> DEFINE w == CurrentWaitRequest
      <3>1. w \in Waits /\ CurrentWaitRequest' = w
        BY <2>1 DEF WaitInv, TypeOK, Resumed, SerialEvtIoResume, endVars
      <3>2. RefCount'[w] = RefCount[w] \cup {"CANCEL"} /\ cancelState'[w] \in {"on", "fired"}
        BY <2>1, <3>1 DEF WaitInv, TypeOK, SerialEvtIoResume, MarkCancelable
      <3>3. cancelState'[w] = "fired" \/ w \notin cancelAsked
        BY <2>1, <3>1 DEF WaitInv, TypeOK, SerialEvtIoResume, MarkCancelable
      <3> QED
        BY <2>1, <3>1, <3>2, <3>3
           DEF WaitInv, CallbacksFindTheirWait, SomebodyEndsIt, isrVars, SerialEvtIoResume
    <2>2. CASE ~Resumed
      BY <2>2 DEF WaitInv, SomebodyEndsIt, isrVars, endVars, refVars, SerialEvtIoResume
    <2> QED
      BY <2>1, <2>2
  <1>5. CompletedOnce'
    BY DEF WaitInv, TypeOK, CompletedOnce, isrVars, endVars, refVars, userVars,
           SerialEvtIoResume, MarkCancelable
  <1> QED
    BY <1>1, <1>2, <1>3, <1>4, <1>5 DEF WaitInv

LEMMA D0ExitKeeps == ASSUME WaitInv, SerialEvtDeviceD0Exit PROVE WaitInv'
  BY DEF WaitInv, TypeOK, InterruptOwnsALiveWait, CallbacksFindTheirWait, SomebodyEndsIt,
         CompletedOnce, isrVars, endVars, refVars, userVars, SerialEvtDeviceD0Exit

LEMMA NextKeeps == WaitInv /\ [Next]_vars => WaitInv'
  <1> SUFFICES ASSUME WaitInv, [Next]_vars PROVE WaitInv'
    OBVIOUS
  <1>1. CASE Callback
    BY <1>1, GiveWaitKeeps, CompleteWaitKeeps, CancelWaitKeeps DEF Callback
  <1>2. CASE \E mask \in SUBSET Events : SetWaitMask(mask)
    BY <1>2, SetWaitMaskKeeps
  <1>3. CASE \E w \in Waits : WaitOnMask(w) \/ CancelIo(w)
    BY <1>3, WaitOnMaskKeeps, CancelIoKeeps
  <1>4. CASE \E S \in SUBSET LineEvents : LineEvent(S)
    BY <1>4, EventsKeep DEF LineEvent, Events
  <1>5. CASE SerialProcessEmptyTransmit
    BY <1>5, EventsKeep DEF SerialProcessEmptyTransmit, Events
  <1>6. CASE \/ TransmitInterrupt \/ SerialEvtIoStop
             \/ SerialEvtDeviceD0Exit \/ SerialEvtIoResume
    BY <1>6, TransmitKeeps, IoStopKeeps, D0ExitKeeps, IoResumeKeeps
  <1>7. CASE UNCHANGED vars
    BY <1>7 DEF vars, isrVars, endVars, refVars, userVars, WaitInv, TypeOK,
           InterruptOwnsALiveWait, CallbacksFindTheirWait, SomebodyEndsIt, CompletedOnce
  <1> QED
    BY <1>1, <1>2, <1>3, <1>4, <1>5, <1>6, <1>7 DEF Next

-------------------------------------------------------------------------------
\* Every wait is ended once, by somebody who holds a reference to it, and the callbacks
\* that look at the current wait find the one they were sent for.
THEOREM WaitInvariant == Spec => []WaitInv
  BY InitKeeps, NextKeeps, PTL DEF Spec
===============================================================================
