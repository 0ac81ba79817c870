--------------------------- MODULE SerialReadProofs ---------------------------
(***************************************************************************)
(* SerialRead keeps its invariant, for any number of requests, any sizes   *)
(* and any set of timeouts; the safety properties follow from it.          *)
(***************************************************************************)
EXTENDS SerialRead, RequestQueueLemmas, TLAPS

-------------------------------------------------------------------------------
(* Sequences: what the helpers of SerialRead return. *)

LEMMA DropProperties ==
    ASSUME NEW S, NEW s \in Seq(S), NEW n \in Nat
    PROVE  /\ Drop(s, n) \in Seq(S)
           /\ Len(Drop(s, n)) = IF n <= Len(s) THEN Len(s) - n ELSE 0
  <1>1. Len(s) \in Nat
    BY LenProperties
  <1>2. \A i \in n + 1 .. Len(s) : s[i] \in S
    BY <1>1, ElementOfSeq
  <1> QED
    BY <1>1, <1>2, SubSeqProperties DEF Drop

LEMMA PrefixProperties ==
    ASSUME NEW S, NEW s \in Seq(S), NEW n \in 0 .. Len(s)
    PROVE  SubSeq(s, 1, n) \in Seq(S) /\ Len(SubSeq(s, 1, n)) = n
  <1>1. Len(s) \in Nat
    BY LenProperties
  <1>2. \A i \in 1 .. n : s[i] \in S
    BY <1>1, ElementOfSeq
  <1> QED
    BY <1>1, <1>2, SubSeqProperties

-------------------------------------------------------------------------------
(* What ReadInv says of a request that is not current, and how the parts of   *)
(* the invariant survive the end of the current request.                      *)

Statuses == {"PENDING", "SUCCESS", "TIMEOUT", "CANCELLED",
             "INSUFFICIENT_RESOURCES"}

LEMMA NotCurrent ==
    ASSUME ReadInv, NEW r \in Requests, r # CurrentReadRequest
    PROVE  RefCount[r] = {} /\ cancelState[r] = "off"
  <1>1. RefCount[r] \subseteq REFS
    BY DEF ReadInv, TypeOK
  <1>2. REFS = {"ISR", "CANCEL", "TOTAL_TIMER", "INT_TIMER"}
    BY DEF REFS
  <1> QED
    BY <1>1, <1>2 DEF ReadInv, ReferenceInv

LEMMA NextRequest ==
    ASSUME NEW queue \in Seq(Requests), NoRepeats(queue), NEW whenNone,
           GetNextRequest(queue, whenNone)
    PROVE  /\ ReadQueue' \in Seq(Requests) /\ NoRepeats(ReadQueue')
           /\ Waiting(ReadQueue') \subseteq Waiting(queue)
           /\ CurrentReadRequest' \notin Waiting(ReadQueue')
           /\ \/ /\ CurrentReadRequest' = NULL
                 /\ ReadQueue' = <<>> /\ pc' = whenNone
              \/ /\ CurrentReadRequest' \in Waiting(queue) /\ pc' = "start"
                 /\ CurrentReadRequest' \in Requests
  <1>1. CASE queue = <<>>
    BY <1>1, EmptyQueue DEF GetNextRequest
  <1>2. CASE queue # <<>>
    <2>1. /\ Head(queue) \in Requests /\ Head(queue) \in Waiting(queue)
          /\ Tail(queue) \in Seq(Requests) /\ NoRepeats(Tail(queue))
          /\ Waiting(Tail(queue)) = Waiting(queue) \ {Head(queue)}
      BY <1>2, TailProperties
    <2> QED
      BY <1>2, <2>1 DEF GetNextRequest
  <1> QED
    BY <1>1, <1>2

\* The current request is completed, nothing refers to any request any more and
\* the head of the queue, if there is one, is started.
LEMMA CurrentEnds ==
    ASSUME ReadInv, CurrentReadRequest # NULL,
           NEW status \in Statuses, NEW info \in Nat,
           Complete(CurrentReadRequest, status, info),
           NEW queue \in {ReadQueue, <<>>}, NEW whenNone \in {"idle", "clear"},
           GetNextRequest(queue, whenNone),
           canceledOnQueue' =
             canceledOnQueue \cup (Waiting(ReadQueue) \ Waiting(queue)),
           submitted' = submitted,
           RefCount' \in [Requests -> SUBSET REFS],
           \A r \in Requests : RefCount'[r] = {} /\ cancelState'[r] = "off",
           ReadRequestTotalTimer' = "off", ReadRequestIntervalTimer' = "off",
           ~CompleteReadDpc', ReadBufferBase' = NULL
    PROVE  PlaceInv' /\ ReferenceInv' /\ IdleInv' /\ StartInv' /\ BufferInv'
  <1> DEFINE c == CurrentReadRequest
  <1>1. /\ TypeOK /\ PlaceInv /\ c \in Requests
        /\ ReadQueue \in Seq(Requests) /\ canceledOnQueue \subseteq Requests
        /\ completions \in [Requests -> Nat]
        /\ Information \in [Requests -> Nat]
    BY DEF ReadInv, TypeOK
  <1>2. queue \in Seq(Requests) /\ NoRepeats(queue)
        /\ Waiting(queue) \subseteq Waiting(ReadQueue)
    BY <1>1, EmptyQueue DEF PlaceInv
  <1>3. /\ ReadQueue' \in Seq(Requests) /\ NoRepeats(ReadQueue')
        /\ Waiting(ReadQueue') \subseteq Waiting(queue)
        /\ CurrentReadRequest' \notin Waiting(ReadQueue')
        /\ \/ /\ CurrentReadRequest' = NULL
              /\ ReadQueue' = <<>> /\ pc' = whenNone
           \/ /\ CurrentReadRequest' \in Waiting(queue) /\ pc' = "start"
              /\ CurrentReadRequest' \in Requests
    BY <1>2, NextRequest
  <1>4. Waiting(ReadQueue) \subseteq Requests
    BY <1>1, WaitingInQueue
  <1>5. /\ completions' = [completions EXCEPT ![c] = @ + 1]
        /\ Information' = [Information EXCEPT ![c] = info]
    BY DEF Complete
  <1>6. PlaceInv'
    <2>1. \A r \in Requests : r # c =>
             completions'[r] = completions[r] /\ Information'[r] = Information[r]
      BY <1>1, <1>5
    <2>2. completions'[c] = 1 /\ c \in submitted /\ c \notin canceledOnQueue
      BY <1>1, <1>5 DEF PlaceInv
    <2>3. c \notin Waiting(ReadQueue)
      BY <1>1 DEF PlaceInv
    <2>4. \A r \in Waiting(ReadQueue') :
             /\ r \in submitted' /\ r \notin canceledOnQueue'
             /\ r # CurrentReadRequest'
             /\ completions'[r] = 0 /\ Information'[r] = 0
      BY <1>1, <1>2, <1>3, <1>4, <2>1, <2>3 DEF PlaceInv
    <2>5. \A r \in canceledOnQueue' : r \in submitted' /\ completions'[r] = 0
      BY <1>1, <1>4, <2>1, <2>2, <2>3 DEF PlaceInv
    <2>6. CurrentReadRequest' # NULL =>
             /\ CurrentReadRequest' \in submitted' \ canceledOnQueue'
             /\ completions'[CurrentReadRequest'] = 0
      BY <1>1, <1>2, <1>3, <1>4, <2>1, <2>3 DEF PlaceInv
    <2>7. \A r \in Requests \ submitted' :
             completions'[r] = 0 /\ Information'[r] = 0
      BY <1>1, <2>1, <2>2 DEF PlaceInv
    <2>8. \A r \in Requests : completions'[r] <= 1
      <3>1. \A r \in Requests : completions[r] <= 1
        BY <1>1 DEF PlaceInv
      <3> QED
        BY <2>1, <2>2, <3>1
    <2> QED
      BY <1>3, <2>4, <2>5, <2>6, <2>7, <2>8 DEF PlaceInv
  <1>7. ReferenceInv'
    BY <1>3 DEF ReferenceInv
  <1>8. IdleInv'
    BY <1>1, <1>3, RequestsAssumption DEF IdleInv
  <1>9. StartInv'
    <2>1. CurrentReadRequest' # NULL => Information'[CurrentReadRequest'] = 0
      BY <1>1, <1>2, <1>3, <1>4, <1>5 DEF PlaceInv
    <2>2. CurrentReadRequest' # NULL => pc' = "start"
      BY <1>3
    <2>3. CurrentReadRequest' = NULL => pc' \in {"idle", "clear"}
      BY <1>3, RequestsAssumption
    <2> QED
      BY <1>3, <2>1, <2>2, <2>3 DEF StartInv, Starting
  <1>10. BufferInv'
    BY DEF BufferInv
  <1> QED
    BY <1>6, <1>7, <1>8, <1>9, <1>10

\* SerialTryToCompleteCurrent, called by whoever has just lost its reference,
\* keeps the invariant.
LEMMA TryToCompleteKeepsInv ==
    ASSUME ReadInv, CurrentReadRequest # NULL, pc \in {"idle", "expire"},
           NEW status \in Statuses, NEW refType \in REFS, NEW grab \in BOOLEAN,
           NEW queue \in {ReadQueue, <<>>}, NEW whenNone \in {"idle", "clear"},
           TryToCompleteCurrent(status, refType, grab, queue, whenNone),
           canceledOnQueue' =
             canceledOnQueue \cup (Waiting(ReadQueue) \ Waiting(queue)),
           UNCHANGED envVars, UNCHANGED ErrorWord,
           UNCHANGED <<NumberNeededForRead, CharsCopied, useTotalTimer,
                       useIntervalTimer>>,
           CommErrorDpc' \in BOOLEAN, CountOnLastRead' \in -3 .. 1,
           \/ refType = "ISR" /\ ~grab /\ CompleteReadDpc /\ CompleteReadDpc' = FALSE
           \/ refType # "ISR" /\ grab /\ CompleteReadDpc' = CompleteReadDpc,
           pc = "expire" => refType = "INT_TIMER"
    PROVE  ReadInv'
  <1> DEFINE c == CurrentReadRequest
             cleared == ClearedRefs(c, refType, grab)
             refs == RefCount[c] \ cleared
             grabbed == grab /\ ReadBufferBase # NULL
             info == IF grabbed
                       THEN Length[c] - (Length[c] - 1 - CurrentCharSlot + 1)
                       ELSE Information[c]
  <1>1. TypeOK /\ PlaceInv /\ ReferenceInv /\ StartInv /\ BufferInv
    BY DEF ReadInv
  <1>2. /\ c \in Requests /\ RefCount[c] \subseteq REFS
        /\ RefCount \in [Requests -> SUBSET REFS]
        /\ cancelState \in [Requests -> {"off", "on", "fired"}]
        /\ CancelRoutine \in [Requests -> BOOLEAN]
        /\ ReadQueue \in Seq(Requests) /\ canceledOnQueue \subseteq Requests
        /\ Length \in [Requests -> Nat] /\ Information \in [Requests -> Nat]
        /\ CurrentCharSlot \in Nat
        /\ completions \in [Requests -> Nat] /\ Status \in [Requests -> Statuses]
    BY <1>1 DEF TypeOK, Statuses
  <1>3. /\ RefCount' = [RefCount EXCEPT ![c] = refs]
        /\ CancelRoutine' = [CancelRoutine EXCEPT
                                ![c] = @ /\ ~CancelRefCleared(c, refType)]
        /\ cancelState' = [cancelState EXCEPT
                              ![c] = IF CancelRefCleared(c, refType) THEN "off" ELSE @]
        /\ ReadRequestTotalTimer' =
             IF refType = "TOTAL_TIMER" THEN "off" ELSE Stopped(ReadRequestTotalTimer)
        /\ ReadRequestIntervalTimer' =
             IF refType = "INT_TIMER" THEN "off" ELSE Stopped(ReadRequestIntervalTimer)
        /\ IF grabbed
             THEN ReadBufferBase' = NULL /\ CurrentCharSlot' = 0 /\ intBuf' = <<>>
             ELSE UNCHANGED <<ReadBufferBase, CurrentCharSlot, intBuf>>
        /\ IF refs = {}
             THEN /\ Complete(c, status, IF status = "CANCELLED" THEN 0 ELSE info)
                  /\ GetNextRequest(queue, whenNone)
             ELSE /\ Information' = [Information EXCEPT ![c] = info]
                  /\ ReadQueue' = queue
                  /\ pc' = whenNone
                  /\ UNCHANGED <<CurrentReadRequest, Status, completions>>
        /\ UNCHANGED <<Length, SystemBuffer, BufferSize, InterruptReadBuffer,
                       ReadByIsr>>
    BY DEF TryToCompleteCurrent
  <1>4. info \in Nat
    BY <1>2
  <1> HIDE DEF info
  <1>5. queue \in Seq(Requests) /\ NoRepeats(queue)
        /\ Waiting(queue) \subseteq Waiting(ReadQueue)
    BY <1>1, <1>2, EmptyQueue DEF PlaceInv
  <1>6. Waiting(ReadQueue) \subseteq Requests
    BY <1>2, WaitingInQueue
  \* What is left of the references, bit by bit.
  <1>7. "ISR" \in refs <=> ReadBufferBase' # NULL \/ CompleteReadDpc'
    BY <1>1, <1>2, <1>3 DEF ClearedRefs, ReferenceInv, BufferInv, REFS
  <1>8. "CANCEL" \in refs <=> cancelState'[c] # "off"
    BY <1>1, <1>2, <1>3 DEF ClearedRefs, CancelRefCleared, ReferenceInv, REFS
  <1>9. "TOTAL_TIMER" \in refs <=> ReadRequestTotalTimer' # "off"
    BY <1>1, <1>2, <1>3 DEF ClearedRefs, ReferenceInv, Stopped, REFS, TypeOK
  <1>10. "INT_TIMER" \in refs <=> ReadRequestIntervalTimer' # "off"
    <2>1. refType # "INT_TIMER" => pc = "idle"
      OBVIOUS
    <2>2. "INT_TIMER" \in RefCount[c] <=>
            ReadRequestIntervalTimer # "off" \/ pc \in {"countByIsr", "expire"}
      BY <1>1, <1>2 DEF ReferenceInv
    <2>3. "INT_TIMER" \in cleared <=>
            refType = "INT_TIMER" \/ ReadRequestIntervalTimer = "set"
      BY DEF ClearedRefs, REFS
    <2> QED
      BY <1>3, <2>1, <2>2, <2>3 DEF Stopped
  <1>11. /\ refs \subseteq REFS
         /\ \A r \in Requests : r # c =>
               RefCount'[r] = {} /\ cancelState'[r] = "off"
    BY <1>2, <1>3, NotCurrent
  <1>12. refs = {} <=> /\ "ISR" \notin refs /\ "CANCEL" \notin refs
                       /\ "TOTAL_TIMER" \notin refs /\ "INT_TIMER" \notin refs
    BY <1>11 DEF REFS
  <1>13. RefCount' \in [Requests -> SUBSET REFS] /\ RefCount'[c] = refs
    BY <1>2, <1>3, <1>11
  <1>14. cancelState' \in [Requests -> {"off", "on", "fired"}]
    BY <1>2, <1>3
  <1> HIDE DEF refs, cleared
  <1>15. /\ canceledOnQueue' \subseteq Requests
         /\ CancelRoutine' \in [Requests -> BOOLEAN]
         /\ cancelAsked' \subseteq Requests /\ submitted' \subseteq Requests
         /\ pool' \subseteq Resizes
         /\ Length' \in [Requests -> Nat] /\ SystemBuffer' \in [Requests -> Seq(Nat)]
         /\ ReadRequestTotalTimer' \in {"off", "set", "fired"}
         /\ ReadRequestIntervalTimer' \in {"off", "set", "fired"}
         /\ CompleteReadDpc' \in BOOLEAN /\ CommErrorDpc' \in BOOLEAN
         /\ ReadBufferBase' \in Reads \cup {NULL}
         /\ CurrentCharSlot' \in Nat /\ intBuf' \in Seq(Nat) /\ BufferSize' \in Nat
         /\ InterruptReadBuffer' \in Resizes \cup {NULL}
         /\ CountOnLastRead' \in -3 .. 1 /\ ReadByIsr' \in 0 .. 1
         /\ ErrorWord' \in BOOLEAN /\ received' \in Nat
         /\ Timeouts' \in TimeoutChoices
         /\ NumberNeededForRead' \in Nat /\ CharsCopied' \in Nat
         /\ useTotalTimer' \in BOOLEAN /\ useIntervalTimer' \in BOOLEAN
    <2>1. CancelRoutine' \in [Requests -> BOOLEAN]
      BY <1>2, <1>3
    <2>2. <<>> \in Seq(Nat)
      BY EmptySeq
    <2>3. /\ ReadRequestTotalTimer' \in {"off", "set", "fired"}
          /\ ReadRequestIntervalTimer' \in {"off", "set", "fired"}
      BY <1>1, <1>3 DEF TypeOK, Stopped
    <2>4. /\ ReadBufferBase' \in Reads \cup {NULL}
          /\ CurrentCharSlot' \in Nat /\ intBuf' \in Seq(Nat)
      <3>1. /\ ReadBufferBase \in Reads \cup {NULL}
            /\ CurrentCharSlot \in Nat /\ intBuf \in Seq(Nat)
        BY <1>1 DEF TypeOK
      <3>2. CASE grabbed
        BY <1>3, <2>2, <3>2
      <3>3. CASE ~grabbed
        <4>1. /\ ReadBufferBase' = ReadBufferBase
              /\ CurrentCharSlot' = CurrentCharSlot /\ intBuf' = intBuf
          BY <1>3, <3>3
        <4> QED BY <3>1, <4>1
      <3> QED
        BY <3>2, <3>3
    <2>5. CompleteReadDpc' \in BOOLEAN
      BY <1>1 DEF TypeOK
    <2>6. canceledOnQueue' \subseteq Requests
      BY <1>2, <1>6
    <2>7. /\ cancelAsked' \subseteq Requests /\ submitted' \subseteq Requests
          /\ pool' \subseteq Resizes /\ received' \in Nat
          /\ Timeouts' \in TimeoutChoices
      BY <1>1 DEF TypeOK, envVars
    <2>8. /\ Length' \in [Requests -> Nat] /\ SystemBuffer' \in [Requests -> Seq(Nat)]
          /\ BufferSize' \in Nat /\ InterruptReadBuffer' \in Resizes \cup {NULL}
          /\ ReadByIsr' \in 0 .. 1
      BY <1>1, <1>3 DEF TypeOK
    <2>9. /\ ErrorWord' \in BOOLEAN
          /\ NumberNeededForRead' \in Nat /\ CharsCopied' \in Nat
          /\ useTotalTimer' \in BOOLEAN /\ useIntervalTimer' \in BOOLEAN
      BY <1>1 DEF TypeOK
    <2> QED
      BY <2>1, <2>3, <2>4, <2>5, <2>6, <2>7, <2>8, <2>9
  <1>16. TypeOK'
    <2>1. CASE refs = {}
      <3>1. Complete(c, status, IF status = "CANCELLED" THEN 0 ELSE info)
            /\ GetNextRequest(queue, whenNone)
        BY <1>3, <2>1
      <3>2. /\ completions' \in [Requests -> Nat] /\ Status' \in [Requests -> Statuses]
            /\ Information' \in [Requests -> Nat]
        BY <1>2, <1>4, <3>1 DEF Complete
      <3>3. /\ ReadQueue' \in Seq(Requests)
            /\ CurrentReadRequest' \in Requests \cup {NULL}
            /\ pc' \in {"start", "idle", "clear"}
        BY <1>5, <3>1, NextRequest
      <3> QED
        BY <1>13, <1>14, <1>15, <3>2, <3>3 DEF TypeOK, Statuses
    <2>2. CASE refs # {}
      <3>1. Information' \in [Requests -> Nat]
        BY <1>2, <1>3, <1>4, <2>2
      <3>2. /\ completions' = completions /\ Status' = Status
            /\ ReadQueue' \in Seq(Requests) /\ CurrentReadRequest' = c
            /\ pc' \in {"idle", "clear"}
        BY <1>3, <1>5, <2>2
      <3> QED
        BY <1>2, <1>13, <1>14, <1>15, <3>1, <3>2 DEF TypeOK, Statuses
    <2> QED BY <2>1, <2>2
  <1>17. CASE refs = {}
    <2>1. Complete(c, status, IF status = "CANCELLED" THEN 0 ELSE info)
          /\ GetNextRequest(queue, whenNone)
      BY <1>3, <1>17
    <2>2. (IF status = "CANCELLED" THEN 0 ELSE info) \in Nat
      BY <1>4
    <2>3. /\ ReadRequestTotalTimer' = "off" /\ ReadRequestIntervalTimer' = "off"
          /\ ~CompleteReadDpc' /\ ReadBufferBase' = NULL
      BY <1>7, <1>9, <1>10, <1>17
    <2>4. \A r \in Requests : RefCount'[r] = {} /\ cancelState'[r] = "off"
      BY <1>8, <1>11, <1>13, <1>17
    <2>5. PlaceInv' /\ ReferenceInv' /\ IdleInv' /\ StartInv' /\ BufferInv'
      BY <1>13, <2>1, <2>2, <2>3, <2>4, CurrentEnds DEF envVars
    <2> QED
      BY <1>16, <2>5 DEF ReadInv
  <1>18. CASE refs # {}
    <2>1. /\ Information' = [Information EXCEPT ![c] = info]
          /\ ReadQueue' = queue /\ pc' = whenNone
          /\ CurrentReadRequest' = c /\ completions' = completions
          /\ submitted' = submitted
      BY <1>3, <1>18 DEF envVars
    <2>2. PlaceInv'
      <3>1. c \notin Waiting(ReadQueue) /\ c \notin canceledOnQueue /\ c \in submitted
        BY <1>1 DEF PlaceInv
      <3>2. \A r \in Requests : r # c => Information'[r] = Information[r]
        BY <1>2, <2>1
      <3>3. \A r \in Waiting(queue) :
               /\ r \in submitted' /\ r \notin canceledOnQueue'
               /\ r # CurrentReadRequest'
               /\ completions'[r] = 0 /\ Information'[r] = 0
        BY <1>1, <1>5, <1>6, <2>1, <3>1, <3>2 DEF PlaceInv
      <3>4. \A r \in canceledOnQueue' : r \in submitted' /\ completions'[r] = 0
        BY <1>1, <2>1 DEF PlaceInv
      <3>5. c \notin canceledOnQueue' /\ completions'[c] = 0
        BY <1>1, <2>1, <3>1 DEF PlaceInv
      <3>6. \A r \in Requests \ submitted' :
               completions'[r] = 0 /\ Information'[r] = 0
        BY <1>1, <2>1, <3>1, <3>2 DEF PlaceInv
      <3>7. \A r \in Requests : completions'[r] <= 1
        BY <1>1, <2>1 DEF PlaceInv
      <3> QED
        BY <1>5, <2>1, <3>1, <3>3, <3>4, <3>5, <3>6, <3>7 DEF PlaceInv
    <2>3. ReferenceInv'
      BY <1>7, <1>8, <1>9, <1>10, <1>11, <1>13, <2>1 DEF ReferenceInv
    <2>4. IdleInv'
      BY <2>1 DEF IdleInv
    <2>5. StartInv'
      BY <1>13, <1>18, <2>1 DEF StartInv, Starting
    <2>6. BufferInv'
      BY <1>1, <1>3, <2>1 DEF BufferInv
    <2> QED
      BY <1>16, <2>2, <2>3, <2>4, <2>5, <2>6 DEF ReadInv
  <1> QED
    BY <1>17, <1>18

-------------------------------------------------------------------------------
(* The callbacks that end a read. *)

LEMMA NothingFlushed ==
    canceledOnQueue = canceledOnQueue \cup (Waiting(ReadQueue) \ Waiting(ReadQueue))
  OBVIOUS

LEMMA SerialCompleteReadKeepsInv ==
    ASSUME ReadInv, SerialCompleteRead
    PROVE  ReadInv'
  <1>1. CurrentReadRequest # NULL
    BY DEF ReadInv, IdleInv, SerialCompleteRead
  <1>2. /\ TryToCompleteCurrent("SUCCESS", "ISR", FALSE, ReadQueue, "idle")
        /\ pc = "idle" /\ CompleteReadDpc /\ CompleteReadDpc' = FALSE
        /\ UNCHANGED envVars /\ UNCHANGED ErrorWord /\ UNCHANGED canceledOnQueue
        /\ UNCHANGED CommErrorDpc
        /\ UNCHANGED <<NumberNeededForRead, CharsCopied, useTotalTimer,
                       useIntervalTimer>>
    BY DEF SerialCompleteRead, callbackFrame
  <1>3. CommErrorDpc' \in BOOLEAN
    BY <1>2 DEF ReadInv, TypeOK
  <1>4. CountOnLastRead' \in -3 .. 1
    BY DEF SerialCompleteRead, SERIAL_COMPLETE_READ_COMPLETE
  <1> QED
    BY <1>1, <1>2, <1>3, <1>4, NothingFlushed, TryToCompleteKeepsInv
    DEF Statuses, REFS

LEMMA SerialCancelCurrentReadKeepsInv ==
    ASSUME ReadInv, NEW r \in Requests, SerialCancelCurrentRead(r)
    PROVE  ReadInv'
  <1>1. CurrentReadRequest # NULL
    BY RequestsAssumption DEF ReadInv, ReferenceInv, SerialCancelCurrentRead
  <1>2. /\ TryToCompleteCurrent("CANCELLED", "CANCEL", TRUE, ReadQueue, "idle")
        /\ pc = "idle" /\ CompleteReadDpc' = CompleteReadDpc
        /\ UNCHANGED envVars /\ UNCHANGED ErrorWord /\ UNCHANGED canceledOnQueue
        /\ UNCHANGED CommErrorDpc
        /\ UNCHANGED <<NumberNeededForRead, CharsCopied, useTotalTimer,
                       useIntervalTimer>>
    BY DEF SerialCancelCurrentRead, callbackFrame
  <1>3. CommErrorDpc' \in BOOLEAN
    BY <1>2 DEF ReadInv, TypeOK
  <1>4. CountOnLastRead' \in -3 .. 1
    BY DEF SerialCancelCurrentRead, SERIAL_COMPLETE_READ_CANCEL
  <1> QED
    BY <1>1, <1>2, <1>3, <1>4, NothingFlushed, TryToCompleteKeepsInv
    DEF Statuses, REFS

LEMMA SerialReadTimeoutKeepsInv ==
    ASSUME ReadInv, SerialReadTimeout
    PROVE  ReadInv'
  <1>1. CurrentReadRequest # NULL
    BY DEF ReadInv, IdleInv, SerialReadTimeout
  <1>2. /\ TryToCompleteCurrent("TIMEOUT", "TOTAL_TIMER", TRUE, ReadQueue, "idle")
        /\ pc = "idle" /\ CompleteReadDpc' = CompleteReadDpc
        /\ UNCHANGED envVars /\ UNCHANGED ErrorWord /\ UNCHANGED canceledOnQueue
        /\ UNCHANGED CommErrorDpc
        /\ UNCHANGED <<NumberNeededForRead, CharsCopied, useTotalTimer,
                       useIntervalTimer>>
    BY DEF SerialReadTimeout, callbackFrame
  <1>3. CommErrorDpc' \in BOOLEAN
    BY <1>2 DEF ReadInv, TypeOK
  <1>4. CountOnLastRead' \in -3 .. 1
    BY DEF SerialReadTimeout, SERIAL_COMPLETE_READ_TOTAL
  <1> QED
    BY <1>1, <1>2, <1>3, <1>4, NothingFlushed, TryToCompleteKeepsInv
    DEF Statuses, REFS

LEMMA IntervalTimeoutKeepsInv ==
    ASSUME ReadInv, IntervalFinish \/ IntervalExpire
    PROVE  ReadInv'
  <1>1. CurrentReadRequest # NULL
    BY DEF ReadInv, IdleInv, IntervalFinish, IntervalExpire
  <1>2. PICK status \in Statuses :
           TryToCompleteCurrent(status, "INT_TIMER", TRUE, ReadQueue, "idle")
    <2>1. CASE IntervalFinish
      <3>1. CountOnLastRead \in {-3, -2, -1}
        BY <2>1 DEF ReadInv, TypeOK, IntervalFinish
      <3>2. MarkerStatus[CountOnLastRead] \in Statuses
        BY <3>1 DEF MarkerStatus, Statuses, SERIAL_COMPLETE_READ_CANCEL,
                    SERIAL_COMPLETE_READ_TOTAL, SERIAL_COMPLETE_READ_COMPLETE
      <3> QED
        BY <2>1, <3>2 DEF IntervalFinish
    <2>2. CASE IntervalExpire
      BY <2>2 DEF IntervalExpire, Statuses
    <2> QED BY <2>1, <2>2
  <1>3. /\ pc \in {"idle", "expire"} /\ CompleteReadDpc' = CompleteReadDpc
        /\ UNCHANGED CountOnLastRead
        /\ UNCHANGED envVars /\ UNCHANGED ErrorWord /\ UNCHANGED canceledOnQueue
        /\ UNCHANGED CommErrorDpc
        /\ UNCHANGED <<NumberNeededForRead, CharsCopied, useTotalTimer,
                       useIntervalTimer>>
    BY DEF IntervalFinish, IntervalExpire, callbackFrame
  <1>4. CommErrorDpc' \in BOOLEAN /\ CountOnLastRead' \in -3 .. 1
    BY <1>3 DEF ReadInv, TypeOK
  <1> QED
    BY <1>1, <1>2, <1>3, <1>4, NothingFlushed, TryToCompleteKeepsInv
    DEF REFS

-------------------------------------------------------------------------------
(* Purges and comm errors. *)

LEMMA FlushReadsKeepsInv ==
    ASSUME ReadInv, pc = "idle", NEW whenNone \in {"idle", "clear"},
           FlushReads(whenNone),
           UNCHANGED envVars, UNCHANGED ErrorWord, UNCHANGED CompleteReadDpc,
           UNCHANGED <<NumberNeededForRead, CharsCopied, useTotalTimer,
                       useIntervalTimer>>,
           CommErrorDpc' \in BOOLEAN
    PROVE  ReadInv'
  <1>1. ReadQueue \in Seq(Requests) /\ Waiting(ReadQueue) \subseteq Requests
    BY WaitingInQueue DEF ReadInv, TypeOK
  <1>2. <<>> \in Seq(Requests) /\ NoRepeats(<<>>) /\ Waiting(<<>>) = {}
    BY EmptyQueue
  <1>3. CASE CallsCancelRoutine(CurrentReadRequest)
    <2>1. /\ CountOnLastRead' = SERIAL_COMPLETE_READ_CANCEL
          /\ TryToCompleteCurrent("CANCELLED", "CANCEL", TRUE, <<>>, whenNone)
          /\ canceledOnQueue' = canceledOnQueue \cup Waiting(ReadQueue)
          /\ CurrentReadRequest # NULL
      BY <1>3 DEF FlushReads, CallsCancelRoutine
    <2>2. CountOnLastRead' \in -3 .. 1
      BY <2>1 DEF SERIAL_COMPLETE_READ_CANCEL
    <2>3. canceledOnQueue' =
            canceledOnQueue \cup (Waiting(ReadQueue) \ Waiting(<<>>))
      BY <1>2, <2>1
    <2> QED
      BY <2>1, <2>2, <2>3, TryToCompleteKeepsInv DEF Statuses, REFS
  <1>4. CASE ~CallsCancelRoutine(CurrentReadRequest)
    <2>1. /\ canceledOnQueue' = canceledOnQueue \cup Waiting(ReadQueue)
          /\ ReadQueue' = <<>> /\ pc' = whenNone
          /\ UNCHANGED <<requestVars, CurrentReadRequest, timerVars,
                         ReadBufferBase, CurrentCharSlot, intBuf,
                         BufferSize, InterruptReadBuffer, CountOnLastRead,
                         ReadByIsr>>
      BY <1>4 DEF FlushReads
    <2>2. TypeOK'
      <3>1. ReadQueue' \in Seq(Requests) /\ canceledOnQueue' \subseteq Requests
        BY <1>1, <1>2, <2>1 DEF ReadInv, TypeOK
      <3> QED
        BY <2>1, <3>1 DEF ReadInv, TypeOK, requestVars, envVars, timerVars
    <2>3. PlaceInv'
      BY <1>1, <1>2, <2>1 DEF ReadInv, PlaceInv, requestVars, envVars
    <2>4. ReferenceInv'
      BY <2>1 DEF ReadInv, ReferenceInv, requestVars, timerVars
    <2>5. IdleInv'
      BY <2>1 DEF ReadInv, IdleInv, timerVars
    <2>6. StartInv'
      BY <2>1 DEF ReadInv, StartInv, Starting, requestVars
    <2>7. BufferInv'
      BY <2>1 DEF ReadInv, BufferInv, requestVars
    <2> QED
      BY <2>2, <2>3, <2>4, <2>5, <2>6, <2>7 DEF ReadInv
  <1> QED
    BY <1>3, <1>4

LEMMA SerialCommErrorKeepsInv ==
    ASSUME ReadInv, SerialCommError
    PROVE  ReadInv'
  BY FlushReadsKeepsInv DEF SerialCommError

LEMMA StartPurgeKeepsInv ==
    ASSUME ReadInv, NEW mask, StartPurge(mask)
    PROVE  ReadInv'
  <1>1. /\ pc = "idle" /\ UNCHANGED envVars /\ UNCHANGED ErrorWord
        /\ UNCHANGED CompleteReadDpc /\ UNCHANGED CommErrorDpc
        /\ UNCHANGED <<NumberNeededForRead, CharsCopied, useTotalTimer,
                       useIntervalTimer>>
    BY DEF StartPurge, callbackFrame
  <1>2. CommErrorDpc' \in BOOLEAN
    BY <1>1 DEF ReadInv, TypeOK
  <1>3. CASE "RXABORT" \in mask
    <2>1. FlushReads(IF "RXCLEAR" \in mask THEN "clear" ELSE "idle")
      BY <1>3 DEF StartPurge
    <2>2. (IF "RXCLEAR" \in mask THEN "clear" ELSE "idle") \in {"idle", "clear"}
      OBVIOUS
    <2> QED
      BY <1>1, <1>2, <2>1, <2>2, FlushReadsKeepsInv
  <1>4. CASE "RXABORT" \notin mask
    <2>1. /\ pc' = "clear"
          /\ UNCHANGED <<requestVars, queueVars, timerVars, ReadBufferBase,
                         CurrentCharSlot, intBuf, BufferSize,
                         InterruptReadBuffer, CountOnLastRead, ReadByIsr>>
      BY <1>4 DEF StartPurge
    <2>2. TypeOK'
      <3>1. CompleteReadDpc' \in BOOLEAN
        BY <1>1 DEF ReadInv, TypeOK
      <3> QED
        BY <1>1, <1>2, <2>1, <3>1
        DEF ReadInv, TypeOK, requestVars, envVars, queueVars, timerVars
    <2>3. PlaceInv'
      BY <1>1, <2>1 DEF ReadInv, PlaceInv, requestVars, envVars, queueVars
    <2>4. ReferenceInv'
      BY <1>1, <2>1 DEF ReadInv, ReferenceInv, requestVars, queueVars, timerVars
    <2>5. IdleInv'
      BY <1>1, <2>1 DEF ReadInv, IdleInv, queueVars, timerVars
    <2>6. StartInv'
      BY <1>1, <2>1 DEF ReadInv, StartInv, Starting, requestVars, queueVars
    <2>7. BufferInv'
      BY <1>1, <2>1 DEF ReadInv, BufferInv, requestVars, queueVars
    <2> QED
      BY <2>2, <2>3, <2>4, <2>5, <2>6, <2>7 DEF ReadInv
  <1> QED
    BY <1>3, <1>4

LEMMA PurgeInterruptBuffKeepsInv ==
    ASSUME ReadInv, PurgeInterruptBuff
    PROVE  ReadInv'
  <1> USE DEF PurgeInterruptBuff
  <1>1. TypeOK'
    <2>1. CurrentCharSlot' \in Nat /\ intBuf' \in Seq(Nat)
      <3>1. CASE ReadBufferBase = NULL
        BY <3>1, EmptySeq
      <3>2. CASE ReadBufferBase # NULL
        BY <3>2 DEF ReadInv, TypeOK
      <3> QED BY <3>1, <3>2
    <2> QED
      BY <2>1 DEF ReadInv, TypeOK, requestVars, envVars, queueVars, timerVars, dpcVars
  <1>2. PlaceInv'
    BY DEF ReadInv, PlaceInv, requestVars, envVars, queueVars
  <1>3. ReferenceInv'
    BY DEF ReadInv, ReferenceInv, requestVars, queueVars, timerVars, dpcVars
  <1>4. IdleInv'
    BY DEF ReadInv, IdleInv, queueVars, timerVars, dpcVars
  <1>5. StartInv'
    BY DEF ReadInv, StartInv, Starting, requestVars, queueVars
  <1>6. BufferInv'
    BY DEF ReadInv, BufferInv, requestVars, queueVars, dpcVars
  <1> QED
    BY <1>1, <1>2, <1>3, <1>4, <1>5, <1>6 DEF ReadInv

-------------------------------------------------------------------------------
(* Timers, the interval check and the small requests: nothing but a flag      *)
(* changes.                                                                   *)

LEMMA TimerExpiryKeepsInv ==
    ASSUME ReadInv, TotalTimerExpires \/ IntervalTimerExpires
    PROVE  ReadInv'
  <1> USE DEF TotalTimerExpires, IntervalTimerExpires
  <1>1. TypeOK'
    <2>1. CASE TotalTimerExpires
      BY <2>1 DEF ReadInv, TypeOK, requestVars, envVars, queueVars, dpcVars, isrVars,
                  localVars
    <2>2. CASE IntervalTimerExpires
      BY <2>2 DEF ReadInv, TypeOK, requestVars, envVars, queueVars, dpcVars, isrVars,
                  localVars
    <2> QED BY <2>1, <2>2
  <1>2. PlaceInv'
    BY DEF ReadInv, PlaceInv, requestVars, envVars, queueVars
  <1>3. ReferenceInv'
    BY DEF ReadInv, ReferenceInv, requestVars, queueVars, dpcVars, isrVars, localVars
  <1>4. IdleInv'
    BY DEF ReadInv, IdleInv, queueVars, dpcVars, isrVars, localVars
  <1>5. StartInv'
    BY DEF ReadInv, StartInv, Starting, requestVars, queueVars, isrVars, localVars
  <1>6. BufferInv'
    BY DEF ReadInv, BufferInv, requestVars, queueVars, dpcVars, isrVars
  <1> QED
    BY <1>1, <1>2, <1>3, <1>4, <1>5, <1>6 DEF ReadInv

LEMMA IntervalCheckKeepsInv ==
    ASSUME ReadInv, IntervalCheck
    PROVE  ReadInv'
  <1> USE DEF IntervalCheck
  <1>1. CurrentReadRequest # NULL
    BY DEF ReadInv, IdleInv
  <1>2. TypeOK'
    BY DEF ReadInv, TypeOK, requestVars, envVars, queueVars, dpcVars, isrVars
  <1>3. PlaceInv'
    BY DEF ReadInv, PlaceInv, requestVars, envVars, queueVars
  <1>4. ReferenceInv'
    BY DEF ReadInv, ReferenceInv, requestVars, queueVars, dpcVars, isrVars
  <1>5. IdleInv'
    BY <1>1 DEF IdleInv, queueVars
  <1>6. StartInv'
    BY <1>1 DEF ReadInv, StartInv, Starting, requestVars, queueVars
  <1>7. BufferInv'
    BY DEF ReadInv, BufferInv, requestVars, queueVars, dpcVars, isrVars
  <1> QED
    BY <1>2, <1>3, <1>4, <1>5, <1>6, <1>7 DEF ReadInv

LEMMA UpdateReadByIsrKeepsInv ==
    ASSUME ReadInv, UpdateReadByIsr
    PROVE  ReadInv'
  <1> USE DEF UpdateReadByIsr
  <1>1. CurrentReadRequest # NULL
    BY DEF ReadInv, IdleInv
  <1>2. TypeOK'
    BY DEF ReadInv, TypeOK, requestVars, envVars, queueVars, dpcVars
  <1>3. PlaceInv'
    BY DEF ReadInv, PlaceInv, requestVars, envVars, queueVars
  <1>4. ReferenceInv'
    BY DEF ReadInv, ReferenceInv, requestVars, queueVars, dpcVars
  <1>5. IdleInv'
    BY <1>1 DEF IdleInv, queueVars
  <1>6. StartInv'
    BY <1>1 DEF ReadInv, StartInv, Starting, requestVars, queueVars
  <1>7. BufferInv'
    BY DEF ReadInv, BufferInv, requestVars, queueVars, dpcVars
  <1> QED
    BY <1>2, <1>3, <1>4, <1>5, <1>6, <1>7 DEF ReadInv

LEMMA SettingsKeepInv ==
    ASSUME ReadInv, GetCommStatus \/ \E t \in TimeoutChoices : SetTimeouts(t)
    PROVE  ReadInv'
  <1>1. TypeOK'
    <2>1. CASE GetCommStatus
      <3>1. ErrorWord' \in BOOLEAN
        BY <2>1 DEF GetCommStatus
      <3>2. UNCHANGED <<requestVars, envVars, queueVars, timerVars, dpcVars,
                        ReadBufferBase, CurrentCharSlot, intBuf, BufferSize,
                        InterruptReadBuffer, CountOnLastRead, ReadByIsr, localVars>>
        BY <2>1 DEF GetCommStatus
      <3> QED
        BY <3>1, <3>2 DEF ReadInv, TypeOK, requestVars, queueVars, timerVars,
           dpcVars, localVars, envVars
    <2>2. CASE \E t \in TimeoutChoices : SetTimeouts(t)
      BY <2>2 DEF ReadInv, TypeOK, SetTimeouts, requestVars, queueVars, timerVars,
         dpcVars, isrVars, localVars, envVars
    <2> QED BY <2>1, <2>2
  <1> USE DEF GetCommStatus, SetTimeouts
  <1>2. PlaceInv'
    BY DEF ReadInv, PlaceInv, requestVars, envVars, queueVars
  <1>3. ReferenceInv'
    BY DEF ReadInv, ReferenceInv, requestVars, queueVars, timerVars, dpcVars,
           isrVars, localVars
  <1>4. IdleInv'
    BY DEF ReadInv, IdleInv, queueVars, timerVars, dpcVars, isrVars, localVars
  <1>5. StartInv'
    BY DEF ReadInv, StartInv, Starting, requestVars, queueVars, timerVars, isrVars,
           localVars
  <1>6. BufferInv'
    BY DEF ReadInv, BufferInv, requestVars, queueVars, dpcVars, isrVars
  <1> QED
    BY <1>1, <1>2, <1>3, <1>4, <1>5, <1>6 DEF ReadInv

-------------------------------------------------------------------------------
(* New requests. *)

LEMMA SubmissionKeepsInv ==
    ASSUME ReadInv, pc = "idle", NEW r \in Requests \ submitted,
           submitted' = submitted \cup {r},
           NEW status \in Statuses, NEW n \in Nat,
           \/ Complete(r, status, 0) /\ UNCHANGED <<Length, queueVars, pc>>
           \/ /\ Length' = [Length EXCEPT ![r] = n]
              /\ StartOrQueue(r)
              /\ UNCHANGED <<Information, Status, completions>>,
           pool' \subseteq Resizes,
           UNCHANGED <<RefCount, cancelState, CancelRoutine, SystemBuffer,
                       cancelAsked, received, Timeouts, timerVars, dpcVars, isrVars,
                       NumberNeededForRead, CharsCopied, useTotalTimer,
                       useIntervalTimer>>
    PROVE  ReadInv'
  <1>1. /\ TypeOK /\ PlaceInv /\ ReferenceInv /\ IdleInv /\ StartInv /\ BufferInv
        /\ ReadQueue \in Seq(Requests) /\ Waiting(ReadQueue) \subseteq Requests
        /\ NoRepeats(ReadQueue)
        /\ completions \in [Requests -> Nat] /\ Information \in [Requests -> Nat]
        /\ Length \in [Requests -> Nat] /\ Status \in [Requests -> Statuses]
        /\ CurrentReadRequest \in Requests \cup {NULL}
    BY WaitingInQueue DEF ReadInv, TypeOK, PlaceInv, Statuses
  <1>2. /\ r \notin Waiting(ReadQueue) /\ r \notin canceledOnQueue
        /\ r # CurrentReadRequest /\ completions[r] = 0 /\ Information[r] = 0
    BY <1>1, RequestsAssumption DEF PlaceInv
  <1>3. CASE Complete(r, status, 0) /\ UNCHANGED <<Length, queueVars, pc>>
    <2>1. /\ completions' = [completions EXCEPT ![r] = @ + 1]
          /\ Status' = [Status EXCEPT ![r] = status]
          /\ Information' = [Information EXCEPT ![r] = 0]
      BY <1>3 DEF Complete
    <2>2. /\ completions' \in [Requests -> Nat] /\ Status' \in [Requests -> Statuses]
          /\ Information' \in [Requests -> Nat]
          /\ completions'[r] = 1 /\ Information' = Information
          /\ \A q \in Requests : q # r => completions'[q] = completions[q]
      BY <1>1, <1>2, <2>1
    <2>3. TypeOK'
      BY <1>1, <1>3, <2>2
      DEF TypeOK, Statuses, queueVars, timerVars, dpcVars, isrVars
    <2>4. PlaceInv'
      <3>1. UNCHANGED <<ReadQueue, canceledOnQueue, CurrentReadRequest>>
        BY <1>3 DEF queueVars
      <3>2. canceledOnQueue \subseteq Requests
        BY <1>1 DEF TypeOK
      <3>3. \A q \in Waiting(ReadQueue) : q # r /\ q \in Requests
        BY <1>1, <1>2
      <3>4. /\ NoRepeats(ReadQueue')
            /\ \A q \in Waiting(ReadQueue') :
                  /\ q \in submitted' /\ q \notin canceledOnQueue'
                  /\ q # CurrentReadRequest'
                  /\ completions'[q] = 0 /\ Information'[q] = 0
        BY <1>1, <2>2, <3>1, <3>3 DEF PlaceInv
      <3>5. /\ \A q \in canceledOnQueue' : q \in submitted' /\ completions'[q] = 0
            /\ CurrentReadRequest' # NULL =>
                  /\ CurrentReadRequest' \in submitted' \ canceledOnQueue'
                  /\ completions'[CurrentReadRequest'] = 0
        BY <1>1, <1>2, <2>2, <3>1, <3>2 DEF PlaceInv
      <3>6. \A q \in Requests \ submitted' :
               completions'[q] = 0 /\ Information'[q] = 0
        BY <1>1, <2>2 DEF PlaceInv
      <3>7. \A q \in Requests : completions'[q] <= 1
        <4>1. \A q \in Requests : completions[q] <= 1
          BY <1>1 DEF PlaceInv
        <4> QED BY <2>2, <4>1
      <3> QED
        BY <3>4, <3>5, <3>6, <3>7 DEF PlaceInv
    <2>5. ReferenceInv'
      BY <1>1, <1>3 DEF ReferenceInv, queueVars, timerVars, dpcVars, isrVars
    <2>6. IdleInv'
      BY <1>1, <1>3 DEF IdleInv, queueVars, timerVars, dpcVars, isrVars
    <2>7. StartInv'
      BY <1>1, <1>3, <2>2 DEF StartInv, Starting, queueVars, timerVars, isrVars
    <2>8. BufferInv'
      BY <1>1, <1>3 DEF BufferInv, queueVars, dpcVars, isrVars
    <2> QED
      BY <2>3, <2>4, <2>5, <2>6, <2>7, <2>8 DEF ReadInv
  <1>4. CASE /\ Length' = [Length EXCEPT ![r] = n]
             /\ StartOrQueue(r)
             /\ UNCHANGED <<Information, Status, completions>>
    <2>1. Length' \in [Requests -> Nat] /\ UNCHANGED canceledOnQueue
      BY <1>1, <1>4 DEF StartOrQueue
    <2>2. CASE ReadQueue = <<>> /\ CurrentReadRequest = NULL
      <3>1. CurrentReadRequest' = r /\ pc' = "start" /\ ReadQueue' = ReadQueue
        BY <1>4, <2>2 DEF StartOrQueue
      <3>2. TypeOK'
        BY <1>1, <1>4, <2>1, <3>1 DEF TypeOK, timerVars, dpcVars, isrVars
      <3>3. PlaceInv'
        <4>1. Waiting(ReadQueue) = {}
          BY <2>2, EmptyQueue
        <4> QED
          BY <1>1, <1>2, <1>4, <2>1, <3>1, <4>1 DEF PlaceInv
      <3>4. ReferenceInv'
        <4>1. /\ ReadRequestTotalTimer' = "off" /\ ReadRequestIntervalTimer' = "off"
              /\ ReadBufferBase' = NULL /\ CompleteReadDpc' = FALSE
          BY <1>1, <2>2 DEF IdleInv, TypeOK, timerVars, dpcVars, isrVars
        <4>2. \A q \in Requests : RefCount'[q] = {} /\ cancelState'[q] = "off"
          BY <2>2, NotCurrent, RequestsAssumption
        <4> QED
          BY <3>1, <4>1, <4>2 DEF ReferenceInv
      <3>5. IdleInv'
        BY <3>1, RequestsAssumption DEF IdleInv
      <3>6. StartInv'
        <4>1. RefCount'[r] = {}
          BY <1>2, NotCurrent
        <4> QED
          BY <1>2, <1>4, <3>1, <4>1 DEF StartInv, Starting
      <3>7. BufferInv'
        BY <1>1, <2>2 DEF BufferInv, IdleInv, isrVars
      <3> QED
        BY <3>2, <3>3, <3>4, <3>5, <3>6, <3>7 DEF ReadInv
    <2>3. CASE ~(ReadQueue = <<>> /\ CurrentReadRequest = NULL)
      <3>1. /\ ReadQueue' = Append(ReadQueue, r)
            /\ UNCHANGED <<CurrentReadRequest, pc>>
        BY <1>4, <2>3 DEF StartOrQueue
      <3>2. /\ ReadQueue' \in Seq(Requests) /\ NoRepeats(ReadQueue')
            /\ Waiting(ReadQueue') = Waiting(ReadQueue) \cup {r}
        BY <1>1, <1>2, <3>1, AppendToQueue
      <3>3. CurrentReadRequest # NULL
        BY <1>1, <2>3 DEF IdleInv
      <3>4. TypeOK'
        BY <1>1, <1>4, <2>1, <3>1, <3>2 DEF TypeOK, timerVars, dpcVars, isrVars
      <3>5. PlaceInv'
        BY <1>1, <1>2, <1>4, <2>1, <3>1, <3>2 DEF PlaceInv
      <3>6. ReferenceInv'
        BY <1>1, <3>1 DEF ReferenceInv, timerVars, dpcVars, isrVars
      <3>7. IdleInv'
        BY <3>1, <3>3 DEF IdleInv
      <3>8. Length'[CurrentReadRequest] = Length[CurrentReadRequest]
        BY <1>1, <1>2, <1>4, <3>3
      <3>9. StartInv'
        BY <1>1, <1>4, <3>1, <3>8 DEF StartInv, Starting, timerVars, isrVars
      <3>10. BufferInv'
        BY <1>1, <3>1, <3>8 DEF BufferInv, dpcVars, isrVars
      <3> QED
        BY <3>4, <3>5, <3>6, <3>7, <3>9, <3>10 DEF ReadInv
    <2> QED BY <2>2, <2>3
  <1> QED BY <1>3, <1>4

LEMMA SubmitReadKeepsInv ==
    ASSUME ReadInv, SubmitRead
    PROVE  ReadInv'
  <1>1. PICK r \in Reads, n \in ReadLengths : SerialEvtIoRead(r, n)
    BY DEF SubmitRead
  <1>2. r \in Requests \ submitted /\ n \in Nat /\ pool' \subseteq Resizes
    BY <1>1, BoundsAssumption DEF Requests, SerialEvtIoRead, ReadInv, TypeOK
  <1>3. /\ pc = "idle" /\ submitted' = submitted \cup {r}
        /\ \/ Complete(r, "CANCELLED", 0) /\ UNCHANGED <<Length, queueVars, pc>>
           \/ /\ Length' = [Length EXCEPT ![r] = n]
              /\ StartOrQueue(r)
              /\ UNCHANGED <<Information, Status, completions>>
        /\ UNCHANGED <<RefCount, cancelState, CancelRoutine, SystemBuffer,
                       cancelAsked, received, Timeouts, timerVars, dpcVars, isrVars,
                       NumberNeededForRead, CharsCopied, useTotalTimer,
                       useIntervalTimer>>
    BY <1>1 DEF SerialEvtIoRead
  <1> QED
    BY <1>2, <1>3, SubmissionKeepsInv DEF Statuses

LEMMA SubmitResizeKeepsInv ==
    ASSUME ReadInv, SubmitResize
    PROVE  ReadInv'
  <1>1. PICK r \in Resizes, n \in NewSizes : SetQueueSize(r, n)
    BY DEF SubmitResize
  <1>2. /\ r \in Requests \ submitted /\ n \in Nat
        /\ pool' \in {pool, pool \cup {r}}
    BY <1>1, BoundsAssumption DEF Requests, SetQueueSize
  <1>3. pool' \subseteq Resizes
    BY <1>2 DEF ReadInv, TypeOK
  <1>4. PICK status \in Statuses :
           \/ Complete(r, status, 0) /\ UNCHANGED <<Length, queueVars, pc>>
           \/ /\ Length' = [Length EXCEPT ![r] = n]
              /\ StartOrQueue(r)
              /\ UNCHANGED <<Information, Status, completions>>
    BY <1>1 DEF SetQueueSize, Statuses
  <1>5. /\ pc = "idle" /\ submitted' = submitted \cup {r}
        /\ UNCHANGED <<RefCount, cancelState, CancelRoutine, SystemBuffer,
                       cancelAsked, received, Timeouts, timerVars, dpcVars, isrVars,
                       NumberNeededForRead, CharsCopied, useTotalTimer,
                       useIntervalTimer>>
    BY <1>1 DEF SetQueueSize
  <1> QED
    BY <1>2, <1>3, <1>4, <1>5, SubmissionKeepsInv

-------------------------------------------------------------------------------
(* Cancellation and the interrupt. *)

LEMMA CanceledOnQueueKeepsInv ==
    ASSUME ReadInv, NEW r \in Requests, SerialEvtCanceledOnQueue(r)
    PROVE  ReadInv'
  <1>1. /\ TypeOK /\ PlaceInv /\ ReferenceInv /\ IdleInv /\ StartInv /\ BufferInv
        /\ completions \in [Requests -> Nat] /\ Information \in [Requests -> Nat]
        /\ Status \in [Requests -> Statuses]
        /\ ReadQueue \in Seq(Requests) /\ canceledOnQueue \subseteq Requests
    BY DEF ReadInv, TypeOK, Statuses
  <1>2. /\ pc = "idle" /\ r \in canceledOnQueue
        /\ canceledOnQueue' = canceledOnQueue \ {r}
        /\ pool' \in {pool, pool \ {r}}
        /\ Complete(r, "CANCELLED", 0)
        /\ UNCHANGED <<RefCount, cancelState, CancelRoutine, Length, SystemBuffer,
                       cancelAsked, submitted, received, Timeouts, ReadQueue,
                       CurrentReadRequest, timerVars, dpcVars, isrVars, localVars>>
    BY DEF SerialEvtCanceledOnQueue
  <1>3. /\ r \notin Waiting(ReadQueue) /\ r # CurrentReadRequest
        /\ completions[r] = 0 /\ r \in submitted
    BY <1>1, <1>2, RequestsAssumption DEF PlaceInv
  <1>4. /\ completions' = [completions EXCEPT ![r] = @ + 1]
        /\ Status' = [Status EXCEPT ![r] = "CANCELLED"]
        /\ Information' = [Information EXCEPT ![r] = 0]
    BY <1>2 DEF Complete
  <1>5. /\ completions' \in [Requests -> Nat] /\ Status' \in [Requests -> Statuses]
        /\ Information' \in [Requests -> Nat] /\ completions'[r] = 1
        /\ \A q \in Requests : q # r =>
              completions'[q] = completions[q] /\ Information'[q] = Information[q]
    BY <1>1, <1>3, <1>4 DEF Statuses
  <1>6. Waiting(ReadQueue) \subseteq Requests
    BY <1>1, WaitingInQueue
  <1>7. TypeOK'
    <2>1. pool' \subseteq Resizes /\ canceledOnQueue' \subseteq Requests
      BY <1>1, <1>2 DEF TypeOK
    <2>2. UNCHANGED <<RefCount, cancelState, CancelRoutine, Length, SystemBuffer,
                      cancelAsked, submitted, received, Timeouts, ReadQueue,
                      CurrentReadRequest, timerVars, dpcVars, isrVars, localVars>>
      BY <1>2
    <2>3. TypeOK
      BY <1>1
    <2>4. /\ completions' \in [Requests -> Nat] /\ Status' \in [Requests -> Statuses]
          /\ Information' \in [Requests -> Nat]
      BY <1>5
    <2>5. UNCHANGED <<timerVars, dpcVars, isrVars, localVars>>
      BY <2>2
    <2>6. /\ ReadRequestTotalTimer' \in {"off", "set", "fired"}
          /\ ReadRequestIntervalTimer' \in {"off", "set", "fired"}
          /\ CompleteReadDpc' \in BOOLEAN /\ CommErrorDpc' \in BOOLEAN
          /\ ReadBufferBase' \in Reads \cup {NULL}
          /\ CurrentCharSlot' \in Nat /\ intBuf' \in Seq(Nat) /\ BufferSize' \in Nat
          /\ InterruptReadBuffer' \in Resizes \cup {NULL}
          /\ CountOnLastRead' \in -3 .. 1 /\ ReadByIsr' \in 0 .. 1
          /\ ErrorWord' \in BOOLEAN
          /\ pc' \in {"idle", "start", "update", "switch", "arm", "switchNew",
                      "countByIsr", "expire", "clear"}
          /\ NumberNeededForRead' \in Nat /\ CharsCopied' \in Nat
          /\ useTotalTimer' \in BOOLEAN /\ useIntervalTimer' \in BOOLEAN
      BY <2>3, <2>5 DEF TypeOK, timerVars, dpcVars, isrVars, localVars
    <2>7. /\ ReadQueue' \in Seq(Requests)
          /\ CurrentReadRequest' \in Requests \cup {NULL}
          /\ RefCount' \in [Requests -> SUBSET REFS]
          /\ cancelState' \in [Requests -> {"off", "on", "fired"}]
          /\ CancelRoutine' \in [Requests -> BOOLEAN]
          /\ cancelAsked' \subseteq Requests /\ submitted' \subseteq Requests
          /\ Length' \in [Requests -> Nat]
          /\ SystemBuffer' \in [Requests -> Seq(Nat)]
          /\ received' \in Nat /\ Timeouts' \in TimeoutChoices
      BY <2>2, <2>3 DEF TypeOK
    <2> QED
      BY <2>1, <2>4, <2>6, <2>7 DEF TypeOK, Statuses
  <1>8. PlaceInv'
    <2>1. /\ NoRepeats(ReadQueue')
          /\ \A q \in Waiting(ReadQueue') :
                /\ q \in submitted' /\ q \notin canceledOnQueue'
                /\ q # CurrentReadRequest'
                /\ completions'[q] = 0 /\ Information'[q] = 0
      BY <1>1, <1>2, <1>3, <1>5, <1>6 DEF PlaceInv
    <2>2. /\ \A q \in canceledOnQueue' : q \in submitted' /\ completions'[q] = 0
          /\ CurrentReadRequest' # NULL =>
                /\ CurrentReadRequest' \in submitted' \ canceledOnQueue'
                /\ completions'[CurrentReadRequest'] = 0
      <3>1. CurrentReadRequest # NULL => CurrentReadRequest \in Requests
        BY <1>1 DEF TypeOK
      <3> QED
        BY <1>1, <1>2, <1>3, <1>5, <3>1 DEF PlaceInv
    <2>3. \A q \in Requests \ submitted' :
             completions'[q] = 0 /\ Information'[q] = 0
      BY <1>1, <1>2, <1>3, <1>5 DEF PlaceInv
    <2>4. \A q \in Requests : completions'[q] <= 1
      <3>1. \A q \in Requests : completions[q] <= 1
        BY <1>1 DEF PlaceInv
      <3> QED BY <1>5, <3>1
    <2> QED
      BY <2>1, <2>2, <2>3, <2>4 DEF PlaceInv
  <1>9. ReferenceInv'
    BY <1>1, <1>2 DEF ReferenceInv, timerVars, dpcVars, isrVars, localVars
  <1>10. IdleInv'
    BY <1>1, <1>2 DEF IdleInv, timerVars, dpcVars, isrVars, localVars
  <1>11. StartInv'
    BY <1>1, <1>2 DEF StartInv, Starting, localVars
  <1>12. BufferInv'
    BY <1>1, <1>2 DEF BufferInv, dpcVars, isrVars
  <1> QED
    BY <1>7, <1>8, <1>9, <1>10, <1>11, <1>12 DEF ReadInv

LEMMA CancelRequestKeepsInv ==
    ASSUME ReadInv, NEW r \in Requests, CancelRequest(r)
    PROVE  ReadInv'
  <1>1. /\ TypeOK /\ PlaceInv /\ ReferenceInv /\ IdleInv /\ StartInv /\ BufferInv
        /\ cancelState \in [Requests -> {"off", "on", "fired"}]
        /\ ReadQueue \in Seq(Requests) /\ Waiting(ReadQueue) \subseteq Requests
        /\ NoRepeats(ReadQueue)
    BY WaitingInQueue DEF ReadInv, TypeOK, PlaceInv
  <1>2. /\ r \in submitted /\ completions[r] = 0
        /\ cancelAsked' = cancelAsked \cup {r}
        /\ cancelState' = [cancelState EXCEPT ![r] = IF @ = "on" THEN "fired" ELSE @]
        /\ UNCHANGED <<RefCount, CancelRoutine, Length, Information, SystemBuffer,
                       Status, completions, submitted, pool, received, Timeouts,
                       CurrentReadRequest, timerVars, dpcVars, isrVars, localVars>>
    BY DEF CancelRequest
  <1>3. /\ cancelState' \in [Requests -> {"off", "on", "fired"}]
        /\ \A q \in Requests : cancelState'[q] = "off" <=> cancelState[q] = "off"
    BY <1>1, <1>2
  <1>4. /\ ReadQueue' \in Seq(Requests) /\ NoRepeats(ReadQueue')
        /\ \/ /\ r \in Waiting(ReadQueue)
              /\ Waiting(ReadQueue') = Waiting(ReadQueue) \ {r}
              /\ canceledOnQueue' = canceledOnQueue \cup {r}
           \/ UNCHANGED <<ReadQueue, canceledOnQueue>>
    <2>1. CASE UNCHANGED <<ReadQueue, canceledOnQueue>>
      BY <1>1, <2>1
    <2>2. CASE /\ \E i \in 1 .. Len(ReadQueue) :
                     /\ ReadQueue[i] = r
                     /\ ReadQueue' = Without(ReadQueue, i)
               /\ canceledOnQueue' = canceledOnQueue \cup {r}
      <3>1. PICK i \in 1 .. Len(ReadQueue) :
               ReadQueue[i] = r /\ ReadQueue' = Without(ReadQueue, i)
        BY <2>2
      <3>2. r \in Waiting(ReadQueue)
        BY <3>1 DEF Waiting
      <3> QED
        BY <1>1, <2>2, <3>1, <3>2, WithoutProperties
    <2> QED
      BY <2>1, <2>2 DEF CancelRequest
  <1>5. TypeOK'
    <2>1. cancelAsked' \subseteq Requests /\ canceledOnQueue' \subseteq Requests
      BY <1>1, <1>2, <1>4 DEF TypeOK
    <2> QED
      BY <1>1, <1>2, <1>3, <1>4, <2>1
      DEF TypeOK, timerVars, dpcVars, isrVars, localVars
  <1>6. PlaceInv'
    BY <1>1, <1>2, <1>4 DEF PlaceInv
  <1>7. ReferenceInv'
    BY <1>1, <1>2, <1>3 DEF ReferenceInv, timerVars, dpcVars, isrVars, localVars
  <1>8. IdleInv'
    <2>1. ReadQueue = <<>> => ReadQueue' = <<>>
      <3>1. ReadQueue = <<>> => Waiting(ReadQueue) = {}
        BY EmptyQueue
      <3> QED BY <1>4, <3>1
    <2> QED
      BY <1>1, <1>2, <2>1 DEF IdleInv, timerVars, dpcVars, isrVars, localVars
  <1>9. StartInv'
    BY <1>1, <1>2 DEF StartInv, Starting, timerVars, isrVars, localVars
  <1>10. BufferInv'
    BY <1>1, <1>2 DEF BufferInv, dpcVars, isrVars
  <1> QED
    BY <1>5, <1>6, <1>7, <1>8, <1>9, <1>10 DEF ReadInv

\* While the interrupt owns a read, no callback is starting one.
LEMMA OwnedReadIsNotStarting ==
    ASSUME ReadInv, ReadBufferBase # NULL
    PROVE  /\ ReadBufferBase = CurrentReadRequest /\ CurrentReadRequest \in Reads
           /\ CurrentReadRequest \in Requests
           /\ ~CompleteReadDpc /\ pc \notin Starting
           /\ CurrentReadRequest \in submitted
           /\ CurrentReadRequest \notin Waiting(ReadQueue)
           /\ "ISR" \in RefCount[CurrentReadRequest]
  <1>1. /\ ReadBufferBase = CurrentReadRequest /\ CurrentReadRequest \in Reads
        /\ ~CompleteReadDpc
    BY DEF ReadInv, BufferInv, TypeOK
  <1>2. "ISR" \in RefCount[CurrentReadRequest] /\ CurrentReadRequest \in Requests
    BY <1>1 DEF ReadInv, ReferenceInv, Requests
  <1>3. pc \notin Starting
    BY <1>1, <1>2 DEF ReadInv, StartInv
  <1>4. CurrentReadRequest \in submitted /\ CurrentReadRequest \notin Waiting(ReadQueue)
    BY <1>1 DEF ReadInv, PlaceInv
  <1> QED
    BY <1>1, <1>2, <1>3, <1>4

LEMMA ReceiveCharKeepsInv ==
    ASSUME ReadInv, ReceiveChar
    PROVE  ReadInv'
  <1> DEFINE r == ReadBufferBase
             c == received + 1
  <1>1. /\ TypeOK /\ PlaceInv /\ ReferenceInv /\ IdleInv /\ StartInv /\ BufferInv
        /\ received \in Nat /\ intBuf \in Seq(Nat) /\ CurrentCharSlot \in Nat
        /\ SystemBuffer \in [Requests -> Seq(Nat)]
        /\ Information \in [Requests -> Nat] /\ Length \in [Requests -> Nat]
        /\ ReadQueue \in Seq(Requests)
    BY DEF ReadInv, TypeOK
  <1>2. /\ received' = c /\ c \in Nat
        /\ PutInUserBuffer(c) \/ PutInTypeahead(c) \/ Overrun
        /\ UNCHANGED <<RefCount, cancelState, CancelRoutine, Length, Status,
                       completions, cancelAsked, submitted, pool, Timeouts, queueVars,
                       timerVars, BufferSize, InterruptReadBuffer, CountOnLastRead,
                       localVars>>
    BY <1>1 DEF ReceiveChar
  <1>3. CASE PutInUserBuffer(c)
    <2>1. /\ r # NULL
          /\ SystemBuffer' = [SystemBuffer EXCEPT ![r] =
                                Append(SubSeq(@, 1, CurrentCharSlot), c)]
          /\ ReadByIsr' = 1
          /\ UNCHANGED <<ErrorWord, CommErrorDpc>>
      BY <1>3 DEF PutInUserBuffer
    <2>2. /\ r = CurrentReadRequest /\ r \in Reads /\ r \in Requests
          /\ ~CompleteReadDpc /\ pc \notin Starting /\ r \in submitted
          /\ r \notin Waiting(ReadQueue) /\ "ISR" \in RefCount[r]
      BY <2>1, OwnedReadIsNotStarting
    <2>3. CurrentCharSlot <= Len(SystemBuffer[r]) /\ CurrentCharSlot < Length[r]
      BY <1>1, <2>1 DEF BufferInv
    <2>4. /\ SystemBuffer[r] \in Seq(Nat)
          /\ CurrentCharSlot \in 0 .. Len(SystemBuffer[r])
      BY <1>1, <2>2, <2>3, LenProperties
    <2>5. /\ SubSeq(SystemBuffer[r], 1, CurrentCharSlot) \in Seq(Nat)
          /\ Len(SubSeq(SystemBuffer[r], 1, CurrentCharSlot)) = CurrentCharSlot
      BY <2>4, PrefixProperties
    <2> DEFINE filled == Append(SubSeq(SystemBuffer[r], 1, CurrentCharSlot), c)
    <2>6. filled \in Seq(Nat) /\ Len(filled) = CurrentCharSlot + 1
      BY <1>2, <2>5, AppendProperties
    <2> HIDE DEF filled
    <2>7. SystemBuffer' \in [Requests -> Seq(Nat)] /\ SystemBuffer'[r] = filled
      BY <1>1, <2>1, <2>2, <2>6 DEF filled
    <2>8. CASE CurrentCharSlot = Length[r] - 1
      <3>1. /\ ReadBufferBase' = NULL /\ CurrentCharSlot' = 0 /\ intBuf' = <<>>
            /\ Information' = [Information EXCEPT ![r] = Length[r]]
            /\ CompleteReadDpc' = TRUE
        BY <1>3, <2>2, <2>8 DEF PutInUserBuffer
      <3>2. /\ Information' \in [Requests -> Nat]
            /\ \A q \in Requests : q # r => Information'[q] = Information[q]
        BY <1>1, <2>2, <3>1
      <3>3. <<>> \in Seq(Nat)
        BY EmptySeq
      <3>4. TypeOK'
        BY <1>1, <1>2, <2>1, <2>7, <3>1, <3>2, <3>3
        DEF TypeOK, queueVars, timerVars, localVars
      <3>5. PlaceInv'
        <4>1. Waiting(ReadQueue) \subseteq Requests
          BY <1>1, WaitingInQueue
        <4> QED
          BY <1>1, <1>2, <2>2, <3>2, <4>1 DEF PlaceInv, queueVars
      <3>6. ReferenceInv'
        BY <1>1, <1>2, <2>1, <2>2, <3>1
        DEF ReferenceInv, queueVars, timerVars, localVars
      <3>7. IdleInv'
        BY <1>2, <2>1, <2>2 DEF IdleInv, queueVars
      <3>8. StartInv'
        BY <1>1, <1>2, <2>2 DEF StartInv, Starting, queueVars, timerVars, localVars
      <3>9. BufferInv'
        BY <3>1 DEF BufferInv
      <3> QED
        BY <3>4, <3>5, <3>6, <3>7, <3>8, <3>9 DEF ReadInv
    <2>9. CASE CurrentCharSlot # Length[r] - 1
      <3>1. /\ CurrentCharSlot' = CurrentCharSlot + 1
            /\ UNCHANGED <<ReadBufferBase, intBuf, Information, CompleteReadDpc>>
        BY <1>3, <2>9 DEF PutInUserBuffer
      <3>2. TypeOK'
        BY <1>1, <1>2, <2>1, <2>7, <3>1
        DEF TypeOK, queueVars, timerVars, localVars
      <3>3. PlaceInv'
        BY <1>1, <1>2, <3>1 DEF PlaceInv, queueVars
      <3>4. ReferenceInv'
        BY <1>1, <1>2, <3>1 DEF ReferenceInv, queueVars, timerVars, localVars
      <3>5. IdleInv'
        BY <1>2, <2>1, <2>2 DEF IdleInv, queueVars
      <3>6. StartInv'
        BY <1>1, <1>2, <2>2 DEF StartInv, Starting, queueVars, timerVars, localVars
      <3>7. CurrentCharSlot' < Length[r] /\ CurrentCharSlot' <= Len(SystemBuffer'[r])
        BY <1>1, <2>2, <2>3, <2>6, <2>7, <2>9, <3>1
      <3>8. BufferInv'
        BY <1>1, <1>2, <2>1, <2>2, <3>1, <3>7 DEF BufferInv, queueVars
      <3> QED
        BY <3>2, <3>3, <3>4, <3>5, <3>6, <3>8 DEF ReadInv
    <2> QED BY <2>8, <2>9
  <1>4. CASE PutInTypeahead(c) \/ Overrun
    <2>1. /\ ReadBufferBase = NULL
          /\ UNCHANGED <<SystemBuffer, ReadByIsr, ReadBufferBase, CurrentCharSlot,
                         Information, CompleteReadDpc>>
      BY <1>4 DEF PutInTypeahead, Overrun
    <2>2. /\ intBuf' \in Seq(Nat) /\ Len(intBuf') >= Len(intBuf)
          /\ ErrorWord' \in BOOLEAN /\ CommErrorDpc' \in BOOLEAN
      <3>1. CASE PutInTypeahead(c)
        <4>1. intBuf' = Append(intBuf, c) /\ UNCHANGED <<ErrorWord, CommErrorDpc>>
          BY <3>1 DEF PutInTypeahead
        <4>2. intBuf' \in Seq(Nat) /\ Len(intBuf') = Len(intBuf) + 1
          BY <1>1, <1>2, <4>1, AppendProperties
        <4>3. Len(intBuf) \in Nat
          BY <1>1, LenProperties
        <4>4. Len(intBuf') >= Len(intBuf)
          BY <4>2, <4>3
        <4> QED
          BY <1>1, <4>1, <4>2, <4>4 DEF TypeOK
      <3>2. CASE Overrun
        <4>1. Len(intBuf) \in Nat /\ Len(intBuf) >= BufferSize
          BY <1>1, <3>2, LenProperties DEF Overrun
        <4>2. /\ ErrorWord' = TRUE
              /\ intBuf' = IF ErrorCharOn
                             THEN [intBuf EXCEPT ![Len(intBuf)] = ErrorChar]
                             ELSE intBuf
              /\ CommErrorDpc' = (CommErrorDpc \/ ErrorAbort)
          BY <3>2 DEF Overrun
        <4>3. /\ [intBuf EXCEPT ![Len(intBuf)] = ErrorChar] \in Seq(Nat)
              /\ Len([intBuf EXCEPT ![Len(intBuf)] = ErrorChar]) = Len(intBuf)
          <5>1. CASE Len(intBuf) = 0
            <6>1. [intBuf EXCEPT ![Len(intBuf)] = ErrorChar] = intBuf
              BY <1>1, <5>1, LenProperties
            <6> QED BY <1>1, <6>1
          <5>2. CASE Len(intBuf) # 0
            BY <1>1, <4>1, <5>2, ExceptSeq DEF ErrorChar
          <5> QED BY <5>1, <5>2
        <4> QED
          BY <1>1, <4>1, <4>2, <4>3
      <3> QED BY <1>4, <3>1, <3>2
    <2>3. TypeOK'
      BY <1>1, <1>2, <2>1, <2>2 DEF TypeOK, queueVars, timerVars, localVars
    <2>4. PlaceInv'
      BY <1>1, <1>2, <2>1 DEF PlaceInv, queueVars
    <2>5. ReferenceInv'
      BY <1>1, <1>2, <2>1 DEF ReferenceInv, queueVars, timerVars, localVars
    <2>6. IdleInv'
      BY <1>1, <1>2, <2>1 DEF IdleInv, queueVars, timerVars, localVars
    <2>7. StartInv'
      <3>1. Len(intBuf) \in Nat /\ Len(intBuf') \in Nat /\ CharsCopied \in Nat
        BY <1>1, <2>2, LenProperties DEF TypeOK
      <3> QED
        BY <1>1, <1>2, <2>1, <2>2, <3>1
        DEF StartInv, Starting, queueVars, timerVars, localVars
    <2>8. BufferInv'
      BY <2>1 DEF BufferInv
    <2> QED
      BY <2>3, <2>4, <2>5, <2>6, <2>7, <2>8 DEF ReadInv
  <1> QED
    BY <1>2, <1>3, <1>4

-------------------------------------------------------------------------------
(* SerialStartRead and the resize. *)

\* While the current request is being started nothing can call back.
LEMMA StartingIsQuiet ==
    ASSUME ReadInv, pc \in Starting
    PROVE  /\ CurrentReadRequest \in Requests
           /\ \A r \in Requests : RefCount[r] = {} /\ cancelState[r] = "off"
           /\ ReadRequestTotalTimer = "off" /\ ReadRequestIntervalTimer = "off"
           /\ CompleteReadDpc = FALSE /\ ReadBufferBase = NULL
  <1>1. CurrentReadRequest \in Requests
    BY DEF ReadInv, TypeOK, IdleInv, Starting
  <1>2. RefCount[CurrentReadRequest] = {}
    BY <1>1, RequestsAssumption DEF ReadInv, StartInv
  <1>3. \A r \in Requests : RefCount[r] = {} /\ cancelState[r] = "off"
    BY <1>2, NotCurrent DEF ReadInv, ReferenceInv
  <1>4. /\ ReadRequestTotalTimer = "off" /\ ReadRequestIntervalTimer = "off"
        /\ ReadBufferBase = NULL /\ ~CompleteReadDpc
    BY <1>1, <1>2 DEF ReadInv, ReferenceInv
  <1>5. CompleteReadDpc = FALSE
    BY <1>4 DEF ReadInv, TypeOK
  <1> QED
    BY <1>1, <1>3, <1>4, <1>5

LEMMA EndedTypes ==
    ASSUME ReadInv, CurrentReadRequest \in Requests, NEW status \in Statuses, NEW info \in Nat,
           Complete(CurrentReadRequest, status, info),
           GetNextRequest(ReadQueue, "idle")
    PROVE  /\ completions' \in [Requests -> Nat] /\ Status' \in [Requests -> Statuses]
           /\ Information' \in [Requests -> Nat]
           /\ ReadQueue' \in Seq(Requests)
           /\ CurrentReadRequest' \in Requests \cup {NULL}
           /\ pc' \in {"start", "idle"}
  <1>1. /\ completions \in [Requests -> Nat] /\ Status \in [Requests -> Statuses]
        /\ Information \in [Requests -> Nat]
        /\ ReadQueue \in Seq(Requests) /\ NoRepeats(ReadQueue)
    BY DEF ReadInv, TypeOK, PlaceInv, Statuses
  <1>2. /\ completions' \in [Requests -> Nat] /\ Status' \in [Requests -> Statuses]
        /\ Information' \in [Requests -> Nat]
    <2>0. /\ completions' = [completions EXCEPT ![CurrentReadRequest] = @ + 1]
          /\ Status' = [Status EXCEPT ![CurrentReadRequest] = status]
          /\ Information' = [Information EXCEPT ![CurrentReadRequest] = info]
      BY DEF Complete
    <2>1. completions' \in [Requests -> Nat]
      BY <1>1, <2>0
    <2>2. Status' \in [Requests -> Statuses]
      BY <1>1, <2>0
    <2>3. Information' \in [Requests -> Nat]
      BY <1>1, <2>0
    <2> QED BY <2>1, <2>2, <2>3
  <1>3. /\ ReadQueue' \in Seq(Requests)
        /\ CurrentReadRequest' \in Requests \cup {NULL}
        /\ pc' \in {"start", "idle"}
    BY <1>1, NextRequest
  <1> QED
    BY <1>2, <1>3

LEMMA StartReadKeepsInv ==
    ASSUME ReadInv, StartRead
    PROVE  ReadInv'
  <1> DEFINE r == CurrentReadRequest
             mode == ReadMode(Timeouts)
             n == CharsToGet(Len(intBuf), Length[r])
             enough == \/ mode.returnWithWhatsPresent
                       \/ n = Length[r]
                       \/ mode.os2ssreturn /\ Information[r] + n > 0
             crunch == ~enough /\ mode.crunchDownToOne
  <1>1. /\ pc = "start" /\ r \in Reads
        /\ CharsCopied' = n
        /\ SystemBuffer' = CopiedInto(r, Length[r], SubSeq(intBuf, 1, n))
        /\ Information' = [Information EXCEPT ![r] = @ + n]
        /\ NumberNeededForRead' = IF crunch THEN 1 ELSE Length[r] - n
        /\ Length' = [Length EXCEPT ![r] = IF crunch THEN 1 ELSE @]
        /\ RefCount' = [RefCount EXCEPT ![r] = IF enough THEN @ ELSE {}]
        /\ useTotalTimer' = (~enough /\ mode.useTotalTimer)
        /\ useIntervalTimer' = (~enough /\ mode.useIntervalTimer)
        /\ pc' = IF enough THEN "update" ELSE "switch"
        /\ ReadRequestTotalTimer' = Stopped(ReadRequestTotalTimer)
        /\ ReadRequestIntervalTimer' = Stopped(ReadRequestIntervalTimer)
        /\ UNCHANGED <<cancelState, CancelRoutine, Status, completions, envVars,
                       queueVars, dpcVars, isrVars>>
    BY DEF StartRead
  <1>2. /\ TypeOK /\ PlaceInv /\ StartInv
        /\ intBuf \in Seq(Nat) /\ SystemBuffer \in [Requests -> Seq(Nat)]
        /\ Length \in [Requests -> Nat] /\ Information \in [Requests -> Nat]
        /\ RefCount \in [Requests -> SUBSET REFS]
    BY DEF ReadInv, TypeOK
  <1>3. /\ r \in Requests
        /\ \A q \in Requests : RefCount[q] = {} /\ cancelState[q] = "off"
        /\ ReadRequestTotalTimer = "off" /\ ReadRequestIntervalTimer = "off"
        /\ CompleteReadDpc = FALSE /\ ReadBufferBase = NULL
    BY <1>1, StartingIsQuiet DEF Starting
  <1>4. n \in 0 .. Len(intBuf) /\ n <= Length[r] /\ n \in Nat /\ Len(intBuf) \in Nat
    BY <1>2, <1>3, LenProperties DEF CharsToGet
  <1>5. crunch => n = 0
    <2>1. mode.crunchDownToOne => mode.os2ssreturn
      BY DEF ReadMode
    <2>2. crunch => ~(Information[r] + n > 0)
      BY <2>1
    <2>3. Information[r] \in Nat
      BY <1>2, <1>3
    <2> QED BY <1>4, <2>2, <2>3
  <1>6. Information[r] = 0
    BY <1>1, <1>2 DEF StartInv
  <1>7. /\ SystemBuffer' \in [Requests -> Seq(Nat)]
        /\ Len(SystemBuffer'[r]) = n
    <2>1. SystemBuffer[r] \in Seq(Nat) /\ Length[r] - Length[r] = 0
      BY <1>2, <1>3
    <2>2. 0 \in 0 .. Len(SystemBuffer[r])
      BY <2>1, LenProperties
    <2>3. /\ SubSeq(SystemBuffer[r], 1, 0) \in Seq(Nat)
          /\ Len(SubSeq(SystemBuffer[r], 1, 0)) = 0
      BY <2>1, <2>2, PrefixProperties
    <2>4. SubSeq(intBuf, 1, n) \in Seq(Nat) /\ Len(SubSeq(intBuf, 1, n)) = n
      BY <1>2, <1>4, PrefixProperties
    <2> DEFINE chars == SubSeq(SystemBuffer[r], 1, 0) \o SubSeq(intBuf, 1, n)
    <2>5. chars \in Seq(Nat) /\ Len(chars) = n
      BY <1>4, <2>3, <2>4, ConcatProperties
    <2>6. SystemBuffer' = [SystemBuffer EXCEPT ![r] = chars]
      BY <1>1, <2>1 DEF CopiedInto
    <2> HIDE DEF chars
    <2> QED
      BY <1>2, <1>3, <2>5, <2>6
  <1>8. RefCount' \in [Requests -> SUBSET REFS] /\ \A q \in Requests : RefCount'[q] = {}
    BY <1>1, <1>2, <1>3
  <1>9. /\ Length' \in [Requests -> Nat] /\ Information' \in [Requests -> Nat]
        /\ NumberNeededForRead' \in Nat
        /\ Information'[r] = n /\ Information'[r] = Length'[r] - NumberNeededForRead'
        /\ \A q \in Requests : q # r => Information'[q] = Information[q]
    <2>1. CASE crunch
      <3>1. Length' = [Length EXCEPT ![r] = 1] /\ NumberNeededForRead' = 1
        BY <1>1, <2>1
      <3> QED BY <1>1, <1>2, <1>3, <1>4, <1>5, <1>6, <2>1, <3>1
    <2>2. CASE ~crunch
      <3>1. Length' = Length /\ NumberNeededForRead' = Length[r] - n
        BY <1>1, <1>2, <2>2
      <3> QED BY <1>1, <1>2, <1>3, <1>4, <1>6, <3>1
    <2> QED BY <2>1, <2>2
  <1>10. /\ ReadRequestTotalTimer' = "off" /\ ReadRequestIntervalTimer' = "off"
         /\ CharsCopied' = n /\ pc' \in {"update", "switch"}
         /\ CurrentReadRequest' = r /\ ReadQueue' = ReadQueue
         /\ canceledOnQueue' = canceledOnQueue /\ submitted' = submitted
         /\ ReadBufferBase' = NULL /\ CompleteReadDpc' = FALSE /\ intBuf' = intBuf
         /\ cancelState' = cancelState /\ completions' = completions
    BY <1>1, <1>3 DEF Stopped, queueVars, envVars, isrVars, dpcVars
  <1>11. useTotalTimer' \in BOOLEAN /\ useIntervalTimer' \in BOOLEAN
    BY <1>1
  <1>12. UNCHANGED <<cancelState, CancelRoutine, Status, completions, envVars,
                     queueVars, dpcVars, isrVars>>
    BY <1>1
  <1> HIDE DEF n, enough, crunch, mode
  <1>13. TypeOK'
    BY <1>2, <1>4, <1>7, <1>8, <1>9, <1>10, <1>11, <1>12
    DEF TypeOK, envVars, queueVars, dpcVars, isrVars
  <1>14. PlaceInv'
    <2>1. r \in submitted /\ r \notin Waiting(ReadQueue) /\ Waiting(ReadQueue) \subseteq Requests
      BY <1>2, <1>3, RequestsAssumption, WaitingInQueue DEF PlaceInv, TypeOK
    <2> QED
      BY <1>2, <1>9, <1>10, <2>1 DEF PlaceInv
  <1>15. ReferenceInv'
    BY <1>3, <1>8, <1>10 DEF ReferenceInv
  <1>16. IdleInv'
    BY <1>3, <1>10, RequestsAssumption DEF IdleInv
  <1>17. StartInv'
    BY <1>1, <1>3, <1>4, <1>7, <1>8, <1>9, <1>10 DEF StartInv, Starting
  <1>18. BufferInv'
    BY <1>10 DEF BufferInv
  <1> QED
    BY <1>13, <1>14, <1>15, <1>16, <1>17, <1>18 DEF ReadInv

LEMMA UpdateInterruptBufferKeepsInv ==
    ASSUME ReadInv, UpdateInterruptBuffer
    PROVE  ReadInv'
  <1> DEFINE r == CurrentReadRequest
  <1>1. /\ pc = "update" /\ intBuf' = Credited
        /\ Complete(r, "SUCCESS", Information[r])
        /\ GetNextRequest(ReadQueue, "idle")
        /\ CharsCopied' = 0 /\ NumberNeededForRead' = 0
        /\ UNCHANGED <<RefCount, cancelState, CancelRoutine, Length, SystemBuffer,
                       envVars, canceledOnQueue, timerVars, dpcVars, ReadBufferBase,
                       CurrentCharSlot, BufferSize, InterruptReadBuffer,
                       CountOnLastRead, ReadByIsr, ErrorWord, useTotalTimer,
                       useIntervalTimer>>
    BY DEF UpdateInterruptBuffer
  <1>2. /\ r \in Requests /\ r # NULL
        /\ \A q \in Requests : RefCount[q] = {} /\ cancelState[q] = "off"
        /\ ReadRequestTotalTimer = "off" /\ ReadRequestIntervalTimer = "off"
        /\ CompleteReadDpc = FALSE /\ ReadBufferBase = NULL
    BY <1>1, StartingIsQuiet, RequestsAssumption DEF Starting
  <1>3. Information[r] \in Nat /\ intBuf' \in Seq(Nat)
    BY <1>1, <1>2, DropProperties DEF ReadInv, TypeOK, Credited
  <1>4. /\ completions' \in [Requests -> Nat] /\ Status' \in [Requests -> Statuses]
        /\ Information' \in [Requests -> Nat]
        /\ ReadQueue' \in Seq(Requests)
        /\ CurrentReadRequest' \in Requests \cup {NULL}
        /\ pc' \in {"start", "idle"}
    BY <1>1, <1>2, <1>3, EndedTypes DEF Statuses
  <1>5. TypeOK'
    <2>1. TypeOK
      BY DEF ReadInv
    <2>2. CharsCopied' \in Nat /\ NumberNeededForRead' \in Nat
      BY <1>1
    <2>3. UNCHANGED <<RefCount, cancelState, CancelRoutine, Length, SystemBuffer,
                      canceledOnQueue, ReadBufferBase, CurrentCharSlot, BufferSize,
                      InterruptReadBuffer, CountOnLastRead, ReadByIsr, ErrorWord,
                      useTotalTimer, useIntervalTimer, cancelAsked, submitted, pool,
                      received, Timeouts, ReadRequestTotalTimer,
                      ReadRequestIntervalTimer, CompleteReadDpc, CommErrorDpc>>
      BY <1>1 DEF envVars, timerVars, dpcVars
    <2> QED
      BY SMTT(30), <1>3, <1>4, <2>1, <2>2, <2>3 DEF TypeOK, Statuses
  <1>6. /\ RefCount' \in [Requests -> SUBSET REFS]
        /\ \A q \in Requests : RefCount'[q] = {} /\ cancelState'[q] = "off"
        /\ ReadRequestTotalTimer' = "off" /\ ReadRequestIntervalTimer' = "off"
        /\ ~CompleteReadDpc' /\ ReadBufferBase' = NULL
        /\ submitted' = submitted
        /\ canceledOnQueue' =
              canceledOnQueue \cup (Waiting(ReadQueue) \ Waiting(ReadQueue))
    BY <1>1, <1>2 DEF ReadInv, TypeOK, timerVars, dpcVars, envVars
  <1>7. PlaceInv' /\ ReferenceInv' /\ IdleInv' /\ StartInv' /\ BufferInv'
    BY <1>1, <1>2, <1>3, <1>6, CurrentEnds DEF Statuses
  <1> QED
    BY <1>5, <1>7 DEF ReadInv

LEMMA StartResizeKeepsInv ==
    ASSUME ReadInv, StartResize
    PROVE  ReadInv'
  <1> DEFINE r == CurrentReadRequest
  <1>1. /\ pc = "start" /\ r \in Resizes
        /\ UNCHANGED <<RefCount, cancelState, CancelRoutine, Length, cancelAsked,
                       submitted, received, Timeouts, canceledOnQueue, timerVars,
                       dpcVars, isrVars, NumberNeededForRead, useTotalTimer,
                       useIntervalTimer>>
    BY DEF StartResize
  <1>2. /\ r \in Requests /\ r # NULL
        /\ \A q \in Requests : RefCount[q] = {} /\ cancelState[q] = "off"
        /\ ReadRequestTotalTimer = "off" /\ ReadRequestIntervalTimer = "off"
        /\ CompleteReadDpc = FALSE /\ ReadBufferBase = NULL
    BY <1>1, StartingIsQuiet, RequestsAssumption DEF Starting
  <1>3. TypeOK
    BY DEF ReadInv
  <1>3a. UNCHANGED <<RefCount, cancelState, CancelRoutine, Length, cancelAsked,
                    submitted, received, Timeouts, canceledOnQueue,
                    ReadRequestTotalTimer, ReadRequestIntervalTimer, CompleteReadDpc,
                    CommErrorDpc, ReadBufferBase, CurrentCharSlot, intBuf, BufferSize,
                    InterruptReadBuffer, CountOnLastRead, ReadByIsr, ErrorWord,
                    NumberNeededForRead, useTotalTimer, useIntervalTimer>>
    BY <1>1 DEF timerVars, dpcVars, isrVars
  <1>4. CASE Length[r] <= BufferSize
    <2>1. /\ pool' = pool \ {r} /\ Complete(r, "SUCCESS", 0)
          /\ GetNextRequest(ReadQueue, "idle")
          /\ UNCHANGED <<SystemBuffer, CharsCopied>>
      BY <1>4 DEF StartResize
    <2>2. /\ completions' \in [Requests -> Nat] /\ Status' \in [Requests -> Statuses]
          /\ Information' \in [Requests -> Nat]
          /\ ReadQueue' \in Seq(Requests)
          /\ CurrentReadRequest' \in Requests \cup {NULL}
          /\ pc' \in {"start", "idle"}
      BY <1>2, <2>1, EndedTypes DEF Statuses
    <2>3. TypeOK'
      <3>1. pool' \subseteq Resizes
        BY <1>3, <2>1 DEF TypeOK
      <3> QED
        BY SMTT(30), <1>3, <1>3a, <2>1, <2>2, <3>1 DEF TypeOK, Statuses
    <2>4. /\ RefCount' \in [Requests -> SUBSET REFS]
          /\ \A q \in Requests : RefCount'[q] = {} /\ cancelState'[q] = "off"
          /\ ReadRequestTotalTimer' = "off" /\ ReadRequestIntervalTimer' = "off"
          /\ ~CompleteReadDpc' /\ ReadBufferBase' = NULL
          /\ submitted' = submitted
          /\ canceledOnQueue' =
                canceledOnQueue \cup (Waiting(ReadQueue) \ Waiting(ReadQueue))
      BY <1>1, <1>2, <1>3 DEF TypeOK, timerVars, dpcVars, isrVars
    <2>5. PlaceInv' /\ ReferenceInv' /\ IdleInv' /\ StartInv' /\ BufferInv'
      BY <1>2, <2>1, <2>4, CurrentEnds DEF Statuses
    <2> QED
      BY <2>3, <2>5 DEF ReadInv
  <1>5. CASE ~(Length[r] <= BufferSize)
    <2>1. /\ pc' = "switchNew"
          /\ Information' = [Information EXCEPT ![r] = 0]
          /\ SystemBuffer' = [SystemBuffer EXCEPT ![r] = <<>> \o intBuf]
          /\ CharsCopied' = Len(intBuf)
          /\ UNCHANGED <<pool, Status, completions, ReadQueue, CurrentReadRequest>>
      BY <1>5 DEF StartResize, SerialMoveToNewIntBuffer
    <2>2. Information[r] = 0 /\ Information \in [Requests -> Nat]
      BY <1>1, <1>3 DEF ReadInv, StartInv, TypeOK
    <2>3. Information' = Information
      BY <2>1, <2>2
    <2>3a. intBuf \in Seq(Nat) /\ Len(intBuf) \in Nat /\ <<>> \o intBuf = intBuf
      BY <1>3, LenProperties, ConcatEmptySeq DEF TypeOK
    <2>3b. /\ SystemBuffer' \in [Requests -> Seq(Nat)]
           /\ SystemBuffer'[r] = intBuf /\ CharsCopied' \in Nat
      BY <1>2, <1>3, <2>1, <2>3a DEF TypeOK
    <2>4. TypeOK'
      <3>1. /\ UNCHANGED <<pool, Status, completions, Information, ReadQueue,
                           CurrentReadRequest>>
            /\ pc' = "switchNew"
        BY <2>1, <2>3
      <3> QED
        BY SMTT(30), <1>3, <1>3a, <2>3b, <3>1 DEF TypeOK
    <2>5. PlaceInv'
      BY <1>1, <2>1, <2>3 DEF ReadInv, PlaceInv
    <2>6. ReferenceInv'
      BY <1>1, <2>1 DEF ReadInv, ReferenceInv, timerVars, dpcVars, isrVars
    <2>7. IdleInv'
      BY <1>2, <2>1 DEF IdleInv
    <2>8. StartInv'
      BY <1>1, <1>2, <1>3a, <2>1, <2>3a, <2>3b DEF StartInv, Starting
    <2>9. BufferInv'
      BY <1>1, <1>2 DEF BufferInv, isrVars
    <2> QED
      BY <2>4, <2>5, <2>6, <2>7, <2>8, <2>9 DEF ReadInv
  <1> QED
    BY <1>4, <1>5

LEMMA UpdateAndSwitchToNewKeepsInv ==
    ASSUME ReadInv, UpdateAndSwitchToNew
    PROVE  ReadInv'
  <1> DEFINE r == CurrentReadRequest
  <1>1. /\ pc = "switchNew"
        /\ BufferSize' = Length[r] /\ InterruptReadBuffer' = r
        /\ pool' = pool \ {InterruptReadBuffer} /\ ReadBufferBase' = NULL
        /\ Complete(r, "SUCCESS", 0)
        /\ GetNextRequest(ReadQueue, "idle")
        /\ intBuf' = SystemBuffer[r] \o Credited /\ CharsCopied' = 0
        /\ SystemBuffer' = [SystemBuffer EXCEPT ![r] = <<>>]
        /\ UNCHANGED <<RefCount, cancelState, CancelRoutine, Length,
                       cancelAsked, submitted, received, Timeouts, canceledOnQueue,
                       timerVars, dpcVars, CurrentCharSlot, CountOnLastRead,
                       ReadByIsr, ErrorWord, NumberNeededForRead, useTotalTimer,
                       useIntervalTimer>>
    BY DEF UpdateAndSwitchToNew, SerialMoveToNewIntBuffer
  <1>2. /\ r \in Requests /\ r # NULL
        /\ \A q \in Requests : RefCount[q] = {} /\ cancelState[q] = "off"
        /\ ReadRequestTotalTimer = "off" /\ ReadRequestIntervalTimer = "off"
        /\ CompleteReadDpc = FALSE /\ ReadBufferBase = NULL
    BY <1>1, StartingIsQuiet, RequestsAssumption DEF Starting
  <1>3. TypeOK /\ r \in Resizes /\ Length[r] \in Nat
    BY <1>1, <1>2 DEF ReadInv, StartInv, TypeOK
  <1>4. /\ completions' \in [Requests -> Nat] /\ Status' \in [Requests -> Statuses]
        /\ Information' \in [Requests -> Nat]
        /\ ReadQueue' \in Seq(Requests)
        /\ CurrentReadRequest' \in Requests \cup {NULL}
        /\ pc' \in {"start", "idle"}
    BY <1>1, <1>2, EndedTypes DEF Statuses
  <1>5. TypeOK'
    <2>1. pool' \subseteq Resizes
      BY <1>1, <1>3 DEF TypeOK
    <2>2. intBuf' \in Seq(Nat)
      <3>1. SystemBuffer[r] \in Seq(Nat) /\ Credited \in Seq(Nat)
        BY <1>2, <1>3, DropProperties DEF TypeOK, Credited
      <3> QED
        BY <1>1, <3>1, ConcatProperties
    <2>3. SystemBuffer' \in [Requests -> Seq(Nat)] /\ CharsCopied' \in Nat
      BY <1>1, <1>2, <1>3, EmptySeq DEF TypeOK
    <2> QED
      BY SMTT(30), <1>1, <1>3, <1>4, <2>1, <2>2, <2>3
      DEF TypeOK, Statuses, timerVars, dpcVars
  <1>6. /\ RefCount' \in [Requests -> SUBSET REFS]
        /\ \A q \in Requests : RefCount'[q] = {} /\ cancelState'[q] = "off"
        /\ ReadRequestTotalTimer' = "off" /\ ReadRequestIntervalTimer' = "off"
        /\ ~CompleteReadDpc' /\ ReadBufferBase' = NULL
        /\ submitted' = submitted
        /\ canceledOnQueue' =
              canceledOnQueue \cup (Waiting(ReadQueue) \ Waiting(ReadQueue))
    BY <1>1, <1>2, <1>3 DEF TypeOK, timerVars, dpcVars
  <1>7. PlaceInv' /\ ReferenceInv' /\ IdleInv' /\ StartInv' /\ BufferInv'
    BY <1>1, <1>2, <1>6, CurrentEnds DEF Statuses
  <1> QED
    BY <1>5, <1>7 DEF ReadInv

LEMMA UpdateAndSwitchToUserKeepsInv ==
    ASSUME ReadInv, UpdateAndSwitchToUser
    PROVE  ReadInv'
  <1> DEFINE r == CurrentReadRequest
             rest == Credited
             n == CharsToGet(Len(rest), NumberNeededForRead)
             needed == NumberNeededForRead - n
             info == Information[r] + n
  <1>1. /\ pc = "switch"
        /\ intBuf' = Drop(rest, n)
        /\ SystemBuffer' = CopiedInto(r, NumberNeededForRead, SubSeq(rest, 1, n))
        /\ CharsCopied' = 0
        /\ UNCHANGED <<cancelState, CancelRoutine, Length, envVars, canceledOnQueue,
                       timerVars, dpcVars, BufferSize, InterruptReadBuffer, ErrorWord>>
    BY DEF UpdateAndSwitchToUser
  <1>2. /\ r \in Requests /\ r # NULL
        /\ \A q \in Requests : RefCount[q] = {} /\ cancelState[q] = "off"
        /\ ReadRequestTotalTimer = "off" /\ ReadRequestIntervalTimer = "off"
        /\ CompleteReadDpc = FALSE /\ ReadBufferBase = NULL
    BY <1>1, StartingIsQuiet, RequestsAssumption DEF Starting
  <1>3. /\ r \in Reads /\ CharsCopied <= Len(intBuf)
        /\ Information[r] = Length[r] - NumberNeededForRead
        /\ Len(SystemBuffer[r]) >= Information[r]
    BY <1>1 DEF ReadInv, StartInv
  <1>4. /\ TypeOK /\ PlaceInv
        /\ intBuf \in Seq(Nat) /\ SystemBuffer \in [Requests -> Seq(Nat)]
        /\ SystemBuffer[r] \in Seq(Nat) /\ Length[r] \in Nat
        /\ Information \in [Requests -> Nat] /\ Information[r] \in Nat
        /\ NumberNeededForRead \in Nat /\ CharsCopied \in Nat
        /\ RefCount \in [Requests -> SUBSET REFS]
    BY <1>2 DEF ReadInv, TypeOK
  <1>5. rest \in Seq(Nat) /\ Len(rest) \in Nat
    BY <1>4, DropProperties, LenProperties DEF Credited
  <1> HIDE DEF rest
  <1>6. /\ n \in 0 .. Len(rest) /\ n \in Nat /\ n <= NumberNeededForRead
        /\ needed \in Nat /\ info \in Nat /\ info = Length[r] - needed
        /\ needed > 0 => n = Len(rest)
    BY <1>3, <1>4, <1>5 DEF CharsToGet
  <1>7. /\ SystemBuffer' \in [Requests -> Seq(Nat)]
        /\ Len(SystemBuffer'[r]) = info
    <2> DEFINE front == SubSeq(SystemBuffer[r], 1, Length[r] - NumberNeededForRead)
    <2>1. Length[r] - NumberNeededForRead \in 0 .. Len(SystemBuffer[r])
      BY <1>3, <1>4, LenProperties
    <2>2. front \in Seq(Nat) /\ Len(front) = Information[r]
      BY <1>3, <1>4, <2>1, PrefixProperties
    <2>3. SubSeq(rest, 1, n) \in Seq(Nat) /\ Len(SubSeq(rest, 1, n)) = n
      BY <1>5, <1>6, PrefixProperties
    <2> DEFINE chars == front \o SubSeq(rest, 1, n)
    <2>4. chars \in Seq(Nat) /\ Len(chars) = info
      <3>1. /\ chars \in Seq(Nat)
            /\ Len(chars) = Len(front) + Len(SubSeq(rest, 1, n))
        BY <2>2, <2>3, ConcatProperties
      <3> QED
        BY <2>2, <2>3, <3>1
    <2>5. SystemBuffer' = [SystemBuffer EXCEPT ![r] = chars]
      BY <1>1 DEF CopiedInto
    <2> HIDE DEF chars
    <2> QED
      BY <1>2, <1>4, <2>4, <2>5
  <1>8. intBuf' \in Seq(Nat) /\ (n = Len(rest) => intBuf' = <<>>)
    <2>1. intBuf' \in Seq(Nat)
      BY <1>1, <1>5, <1>6, DropProperties
    <2>2. n = Len(rest) => Len(intBuf') = 0
      BY <1>1, <1>5, <1>6, DropProperties
    <2> QED
      BY <2>1, <2>2, EmptySeq
  <1>9. CASE needed > 0
    <2>1. /\ CountOnLastRead' = Flag(info) /\ ReadByIsr' = 0
          /\ ReadBufferBase' = r /\ CurrentCharSlot' = info
          /\ RefCount' = [RefCount EXCEPT ![r] = @ \cup {"ISR"}]
          /\ Information' = [Information EXCEPT ![r] = info]
          /\ NumberNeededForRead' = needed
          /\ pc' = "arm"
          /\ UNCHANGED <<ReadQueue, CurrentReadRequest, Status,
                         completions, useTotalTimer, useIntervalTimer>>
      BY <1>9 DEF UpdateAndSwitchToUser, rest
    <2> HIDE DEF n, needed, info
    <2>2. /\ RefCount' \in [Requests -> SUBSET REFS]
          /\ RefCount'[r] = {"ISR"}
          /\ \A q \in Requests : q # r => RefCount'[q] = {}
      BY <1>2, <1>4, <2>1 DEF REFS
    <2>3. /\ Information' \in [Requests -> Nat]
          /\ \A q \in Requests : q # r => Information'[q] = Information[q]
      BY <1>4, <1>6, <2>1
    <2>4. CountOnLastRead' \in -3 .. 1
      BY <1>6, <2>1 DEF Flag
    <2>5. TypeOK'
      <3>1. UNCHANGED <<cancelState, CancelRoutine, Length, canceledOnQueue,
                        BufferSize, InterruptReadBuffer, ErrorWord, cancelAsked,
                        submitted, pool, received, Timeouts, ReadRequestTotalTimer,
                        ReadRequestIntervalTimer, CompleteReadDpc, CommErrorDpc>>
        BY <1>1 DEF envVars, timerVars, dpcVars
      <3>2. /\ ReadByIsr' \in 0 .. 1 /\ ReadBufferBase' \in Reads \cup {NULL}
            /\ CurrentCharSlot' \in Nat /\ NumberNeededForRead' \in Nat
            /\ CharsCopied' \in Nat /\ pc' = "arm"
            /\ UNCHANGED <<ReadQueue, CurrentReadRequest, Status, completions,
                           useTotalTimer, useIntervalTimer>>
        BY <1>1, <1>3, <1>6, <2>1
      <3> QED
        BY <1>4, <1>7, <1>8, <2>2, <2>3, <2>4, <3>1, <3>2 DEF TypeOK
    <2>6. /\ r \in submitted /\ r \notin Waiting(ReadQueue)
          /\ Waiting(ReadQueue) \subseteq Requests
      BY <1>2, <1>4, WaitingInQueue DEF PlaceInv, TypeOK
    <2>7. PlaceInv'
      BY <1>1, <1>4, <2>1, <2>3, <2>6 DEF PlaceInv, envVars
    <2>8. ReferenceInv'
      BY <1>1, <1>2, <2>1, <2>2 DEF ReferenceInv, timerVars, dpcVars
    <2>9. IdleInv'
      BY <1>2, <2>1 DEF IdleInv
    <2>10. StartInv'
      BY <1>2, <2>1, <2>2 DEF StartInv, Starting
    <2>11. BufferInv'
      <3>1. info < Length[r] /\ info <= Len(SystemBuffer'[r])
        BY <1>4, <1>6, <1>7, <1>9
      <3>2. intBuf' = <<>>
        BY <1>6, <1>8, <1>9
      <3>3. ~CompleteReadDpc' /\ Length' = Length
        BY <1>1, <1>2 DEF dpcVars
      <3> QED
        BY <2>1, <3>1, <3>2, <3>3 DEF BufferInv
    <2> QED
      BY <2>5, <2>7, <2>8, <2>9, <2>10, <2>11 DEF ReadInv
  <1>10. CASE ~(needed > 0)
    <2>1. /\ Complete(r, "SUCCESS", info)
          /\ GetNextRequest(ReadQueue, "idle")
          /\ NumberNeededForRead' = 0
          /\ useTotalTimer' = FALSE /\ useIntervalTimer' = FALSE
          /\ UNCHANGED <<CountOnLastRead, ReadByIsr, ReadBufferBase,
                         CurrentCharSlot, RefCount>>
      BY <1>10 DEF UpdateAndSwitchToUser, rest
    <2> HIDE DEF n, needed, info
    <2>2. /\ completions' \in [Requests -> Nat] /\ Status' \in [Requests -> Statuses]
          /\ Information' \in [Requests -> Nat]
          /\ ReadQueue' \in Seq(Requests)
          /\ CurrentReadRequest' \in Requests \cup {NULL}
          /\ pc' \in {"start", "idle"}
      BY <1>2, <1>6, <2>1, EndedTypes DEF Statuses
    <2>3. TypeOK'
      <3>1. UNCHANGED <<cancelState, CancelRoutine, Length, canceledOnQueue,
                        BufferSize, InterruptReadBuffer, ErrorWord, cancelAsked,
                        submitted, pool, received, Timeouts, ReadRequestTotalTimer,
                        ReadRequestIntervalTimer, CompleteReadDpc, CommErrorDpc,
                        CountOnLastRead, ReadByIsr, ReadBufferBase,
                        CurrentCharSlot, RefCount>>
        BY <1>1, <2>1 DEF envVars, timerVars, dpcVars
      <3>2. /\ NumberNeededForRead' \in Nat /\ CharsCopied' \in Nat
            /\ useTotalTimer' \in BOOLEAN /\ useIntervalTimer' \in BOOLEAN
        BY <1>1, <2>1
      <3>3. /\ ReadQueue' \in Seq(Requests)
            /\ canceledOnQueue' \subseteq Requests
            /\ RefCount' \in [Requests -> SUBSET REFS]
            /\ cancelState' \in [Requests -> {"off", "on", "fired"}]
            /\ CancelRoutine' \in [Requests -> BOOLEAN]
            /\ cancelAsked' \subseteq Requests /\ submitted' \subseteq Requests
            /\ pool' \subseteq Resizes /\ Length' \in [Requests -> Nat]
            /\ received' \in Nat /\ Timeouts' \in TimeoutChoices
        BY <1>4, <2>2, <3>1 DEF TypeOK
      <3>4. /\ ReadRequestTotalTimer' \in {"off", "set", "fired"}
            /\ ReadRequestIntervalTimer' \in {"off", "set", "fired"}
            /\ CompleteReadDpc' \in BOOLEAN /\ CommErrorDpc' \in BOOLEAN
            /\ ReadBufferBase' \in Reads \cup {NULL}
            /\ CurrentCharSlot' \in Nat /\ BufferSize' \in Nat
            /\ InterruptReadBuffer' \in Resizes \cup {NULL}
            /\ CountOnLastRead' \in -3 .. 1 /\ ReadByIsr' \in 0 .. 1
            /\ ErrorWord' \in BOOLEAN
        BY <1>4, <3>1 DEF TypeOK
      <3> QED
        BY <1>7, <1>8, <2>2, <3>2, <3>3, <3>4 DEF TypeOK, Statuses
    <2>4. /\ RefCount' \in [Requests -> SUBSET REFS]
          /\ \A q \in Requests : RefCount'[q] = {} /\ cancelState'[q] = "off"
          /\ ReadRequestTotalTimer' = "off" /\ ReadRequestIntervalTimer' = "off"
          /\ ~CompleteReadDpc' /\ ReadBufferBase' = NULL
          /\ submitted' = submitted
          /\ canceledOnQueue' =
                canceledOnQueue \cup (Waiting(ReadQueue) \ Waiting(ReadQueue))
      BY <1>1, <1>2, <1>4, <2>1 DEF timerVars, dpcVars, envVars
    <2>5. PlaceInv' /\ ReferenceInv' /\ IdleInv' /\ StartInv' /\ BufferInv'
      BY <1>2, <1>6, <2>1, <2>4, CurrentEnds DEF Statuses
    <2> QED
      BY <2>3, <2>5 DEF ReadInv
  <1> QED
    BY <1>9, <1>10

LEMMA ArmReadKeepsInv ==
    ASSUME ReadInv, ArmRead
    PROVE  ReadInv'
  <1> DEFINE r == CurrentReadRequest
             total == useTotalTimer /\ ReadRequestTotalTimer # "set"
             interval == useIntervalTimer /\ ReadRequestIntervalTimer # "set"
             refs == RefCount[r] \cup {"CANCEL"}
                        \cup (IF total THEN {"TOTAL_TIMER"} ELSE {})
                        \cup (IF interval THEN {"INT_TIMER"} ELSE {})
  <1>1. /\ pc = "arm" /\ pc' = "idle" /\ NumberNeededForRead' = 0
        /\ cancelState' = [cancelState EXCEPT
                             ![r] = IF r \in cancelAsked THEN "fired" ELSE "on"]
        /\ CancelRoutine' = [CancelRoutine EXCEPT ![r] = TRUE]
        /\ RefCount' = [RefCount EXCEPT ![r] = refs]
        /\ ReadRequestTotalTimer' =
             IF useTotalTimer THEN "set" ELSE ReadRequestTotalTimer
        /\ ReadRequestIntervalTimer' =
             IF useIntervalTimer THEN "set" ELSE ReadRequestIntervalTimer
        /\ useTotalTimer' = FALSE /\ useIntervalTimer' = FALSE
        /\ UNCHANGED <<Length, Information, SystemBuffer, Status, completions, envVars,
                       queueVars, dpcVars, isrVars, CharsCopied>>
    BY DEF ArmRead
  <1>2. /\ TypeOK /\ PlaceInv /\ ReferenceInv /\ StartInv /\ BufferInv
        /\ RefCount \in [Requests -> SUBSET REFS]
        /\ cancelState \in [Requests -> {"off", "on", "fired"}]
        /\ CancelRoutine \in [Requests -> BOOLEAN]
    BY DEF ReadInv, TypeOK
  <1>3. /\ r \in Requests /\ r # NULL /\ RefCount[r] = {"ISR"}
    BY <1>1, RequestsAssumption DEF ReadInv, TypeOK, IdleInv, StartInv
  <1>4. ReadRequestTotalTimer = "off" /\ ReadRequestIntervalTimer = "off"
    BY <1>2, <1>3 DEF ReferenceInv
  <1>5. /\ refs = {"ISR", "CANCEL"}
                    \cup (IF useTotalTimer THEN {"TOTAL_TIMER"} ELSE {})
                    \cup (IF useIntervalTimer THEN {"INT_TIMER"} ELSE {})
    BY <1>3, <1>4
  <1>6. /\ RefCount' \in [Requests -> SUBSET REFS]
        /\ RefCount'[r] = refs
        /\ \A q \in Requests : q # r => RefCount'[q] = RefCount[q]
    BY <1>1, <1>2, <1>3, <1>5 DEF REFS
  <1>7. /\ cancelState' \in [Requests -> {"off", "on", "fired"}]
        /\ cancelState'[r] # "off"
        /\ \A q \in Requests : q # r => cancelState'[q] = cancelState[q]
        /\ CancelRoutine' \in [Requests -> BOOLEAN]
    BY <1>1, <1>2, <1>3
  <1> HIDE DEF refs, total, interval
  <1>8. /\ UNCHANGED <<CurrentReadRequest, ReadQueue, canceledOnQueue, Length,
                       Information, SystemBuffer, Status, completions, cancelAsked,
                       submitted, pool, received, Timeouts, CompleteReadDpc,
                       CommErrorDpc, ReadBufferBase, CurrentCharSlot, intBuf,
                       BufferSize, InterruptReadBuffer, CountOnLastRead, ReadByIsr,
                       ErrorWord, CharsCopied>>
        /\ pc' = "idle" /\ NumberNeededForRead' = 0
        /\ useTotalTimer' = FALSE /\ useIntervalTimer' = FALSE
        /\ ReadRequestTotalTimer' = (IF useTotalTimer THEN "set" ELSE "off")
        /\ ReadRequestIntervalTimer' = (IF useIntervalTimer THEN "set" ELSE "off")
    BY <1>1, <1>4 DEF queueVars, envVars, dpcVars, isrVars
  <1>9. TypeOK'
    BY <1>2, <1>6, <1>7, <1>8 DEF TypeOK
  <1>10. PlaceInv'
    BY <1>2, <1>8 DEF PlaceInv
  <1>11. ReferenceInv'
    BY <1>1, <1>2, <1>3, <1>5, <1>6, <1>7, <1>8 DEF ReferenceInv
  <1>12. IdleInv'
    BY <1>3, <1>8 DEF IdleInv
  <1>13. StartInv'
    BY <1>5, <1>6, <1>8 DEF StartInv, Starting
  <1>14. BufferInv'
    BY <1>2, <1>8 DEF BufferInv
  <1> QED
    BY <1>9, <1>10, <1>11, <1>12, <1>13, <1>14 DEF ReadInv

-------------------------------------------------------------------------------
(* The theorems. *)

LEMMA StutteringKeepsInv ==
    ASSUME ReadInv, UNCHANGED vars
    PROVE  ReadInv'
  <1> USE DEF vars, requestVars, envVars, queueVars, timerVars, dpcVars, isrVars,
              localVars
  <1>1. TypeOK'       BY DEF ReadInv, TypeOK
  <1>2. PlaceInv'     BY DEF ReadInv, PlaceInv
  <1>3. ReferenceInv' BY DEF ReadInv, ReferenceInv
  <1>4. IdleInv'      BY DEF ReadInv, IdleInv
  <1>5. StartInv'     BY DEF ReadInv, StartInv
  <1>6. BufferInv'    BY DEF ReadInv, BufferInv
  <1> QED
    BY <1>1, <1>2, <1>3, <1>4, <1>5, <1>6 DEF ReadInv

LEMMA InitEstablishesInv == Init => ReadInv
  <1> SUFFICES ASSUME Init PROVE ReadInv
    OBVIOUS
  <1> USE DEF Init
  <1>1. TypeOK
    <2>1. <<>> \in Seq(Requests) /\ <<>> \in Seq(Nat) /\ InitialSize \in Nat
      BY EmptySeq, BoundsAssumption
    <2>2. /\ ReadQueue \in Seq(Requests) /\ intBuf \in Seq(Nat)
          /\ BufferSize \in Nat /\ CountOnLastRead \in -3 .. 1
          /\ SystemBuffer \in [Requests -> Seq(Nat)]
      BY <2>1
    <2>3. /\ RefCount \in [Requests -> SUBSET REFS]
          /\ cancelState \in [Requests -> {"off", "on", "fired"}]
          /\ CancelRoutine \in [Requests -> BOOLEAN]
          /\ Length \in [Requests -> Nat] /\ Information \in [Requests -> Nat]
          /\ Status \in [Requests -> Statuses]
          /\ completions \in [Requests -> Nat]
      BY DEF Statuses
    <2>4. /\ canceledOnQueue \subseteq Requests
          /\ CurrentReadRequest \in Requests \cup {NULL}
          /\ cancelAsked \subseteq Requests /\ submitted \subseteq Requests
          /\ pool \subseteq Resizes
          /\ ReadRequestTotalTimer \in {"off", "set", "fired"}
          /\ ReadRequestIntervalTimer \in {"off", "set", "fired"}
          /\ CompleteReadDpc \in BOOLEAN /\ CommErrorDpc \in BOOLEAN
          /\ ReadBufferBase \in Reads \cup {NULL} /\ CurrentCharSlot \in Nat
          /\ InterruptReadBuffer \in Resizes \cup {NULL}
      OBVIOUS
    <2>5. ErrorWord \in BOOLEAN /\ Timeouts \in TimeoutChoices
      OBVIOUS
    <2>6. ReadByIsr \in 0 .. 1 /\ received \in Nat
      OBVIOUS
    <2>7. /\ pc \in {"idle", "start", "update", "switch", "arm", "switchNew",
                     "countByIsr", "expire", "clear"}
          /\ NumberNeededForRead \in Nat /\ CharsCopied \in Nat
          /\ useTotalTimer \in BOOLEAN /\ useIntervalTimer \in BOOLEAN
      OBVIOUS
    <2> HIDE DEF Init
    <2> QED
      BY <2>2, <2>3, <2>4, <2>5, <2>6, <2>7 DEF TypeOK, Statuses
  <1>2. PlaceInv
    BY EmptyQueue DEF PlaceInv
  <1>3. ReferenceInv
    BY DEF ReferenceInv
  <1>4. IdleInv /\ StartInv /\ BufferInv
    BY DEF IdleInv, StartInv, Starting, BufferInv
  <1> QED
    BY <1>1, <1>2, <1>3, <1>4 DEF ReadInv

\* No step of the read path, of whichever actor, breaks the invariant.
THEOREM ReadInvariant == Spec => []ReadInv
  <1>1. ReadInv /\ [Next]_vars => ReadInv'
    <2> SUFFICES ASSUME ReadInv, [Next]_vars PROVE ReadInv'
      OBVIOUS
    <2>1. CASE SubmitRead
      BY <2>1, SubmitReadKeepsInv
    <2>2. CASE SubmitResize
      BY <2>2, SubmitResizeKeepsInv
    <2>3. CASE Purge
      BY <2>3, StartPurgeKeepsInv DEF Purge
    <2>4. CASE GetCommStatus \/ \E t \in TimeoutChoices : SetTimeouts(t)
      BY <2>4, SettingsKeepInv
    <2>5. CASE Continue
      BY <2>5, StartReadKeepsInv, UpdateInterruptBufferKeepsInv,
         UpdateAndSwitchToUserKeepsInv, ArmReadKeepsInv, StartResizeKeepsInv,
         UpdateAndSwitchToNewKeepsInv, UpdateReadByIsrKeepsInv,
         IntervalTimeoutKeepsInv, PurgeInterruptBuffKeepsInv
      DEF Continue
    <2>6. CASE SerialCompleteRead \/ SerialReadTimeout
      BY <2>6, SerialCompleteReadKeepsInv, SerialReadTimeoutKeepsInv
    <2>7. CASE SerialIntervalReadTimeout
      BY <2>7, IntervalTimeoutKeepsInv, IntervalCheckKeepsInv
      DEF SerialIntervalReadTimeout
    <2>8. CASE SerialCommError
      BY <2>8, SerialCommErrorKeepsInv
    <2>9. ASSUME NEW r \in Requests,
                 \/ SerialCancelCurrentRead(r) \/ SerialEvtCanceledOnQueue(r)
                 \/ CancelRequest(r)
          PROVE  ReadInv'
      BY <2>9, SerialCancelCurrentReadKeepsInv, CanceledOnQueueKeepsInv,
         CancelRequestKeepsInv
    <2>10. CASE ReceiveChar
      BY <2>10, ReceiveCharKeepsInv
    <2>11. CASE TotalTimerExpires \/ IntervalTimerExpires
      BY <2>11, TimerExpiryKeepsInv
    <2>12. CASE UNCHANGED vars
      BY <2>12, StutteringKeepsInv
    <2> QED
      BY <2>1, <2>2, <2>3, <2>4, <2>5, <2>6, <2>7, <2>8, <2>9, <2>10, <2>11, <2>12
      DEF Next, Callback
  <1> QED
    BY <1>1, InitEstablishesInv, PTL DEF Spec

\* Every variable keeps its type: no offset into a buffer leaves it, no count of
\* characters still needed goes below zero.
THEOREM TypeCorrect == Spec => []TypeOK
  <1>1. ReadInv => TypeOK
    BY DEF ReadInv
  <1> QED
    BY <1>1, ReadInvariant, PTL

\* A timer, DPC or cancel routine always runs for the read that set it.
THEOREM NoStrayCallback == Spec => []CallbacksFindTheirRead
  <1>1. ReadInv => CallbacksFindTheirRead
    <2> SUFFICES ASSUME ReadInv PROVE CallbacksFindTheirRead
      OBVIOUS
    <2>1. CurrentReadRequest \in Requests \cup {NULL}
      BY DEF ReadInv, TypeOK
    <2>2. CurrentReadRequest = NULL =>
            /\ ReadRequestTotalTimer = "off" /\ ReadRequestIntervalTimer = "off"
            /\ ~CompleteReadDpc
      BY DEF ReadInv, IdleInv
    <2>3. /\ ReadRequestTotalTimer # "off" => References("TOTAL_TIMER")
          /\ ReadRequestIntervalTimer # "off" => References("INT_TIMER")
          /\ CompleteReadDpc => References("ISR")
      BY <2>1, <2>2 DEF ReadInv, ReferenceInv, References
    <2>4. \A r \in Requests :
             cancelState[r] # "off" => r = CurrentReadRequest /\ References("CANCEL")
      BY RequestsAssumption DEF ReadInv, ReferenceInv, References
    <2> QED
      BY <2>3, <2>4 DEF CallbacksFindTheirRead
  <1> QED
    BY <1>1, ReadInvariant, PTL

\* The interrupt writes into the buffer of a live read, inside it, and only with
\* the typeahead buffer empty.
THEOREM InterruptWritesWhereItMay == Spec => []InterruptOwnsALiveRead
  <1>1. ReadInv => InterruptOwnsALiveRead
    <2> SUFFICES ASSUME ReadInv, ReadBufferBase # NULL
                 PROVE  /\ ReadBufferBase = CurrentReadRequest
                        /\ completions[ReadBufferBase] = 0
                        /\ References("ISR") /\ ~CompleteReadDpc
                        /\ CurrentCharSlot < Length[ReadBufferBase]
                        /\ intBuf = <<>>
      BY DEF InterruptOwnsALiveRead
    <2>1. /\ ReadBufferBase = CurrentReadRequest
          /\ "ISR" \in RefCount[CurrentReadRequest]
      BY OwnedReadIsNotStarting
    <2> QED
      BY <2>1 DEF ReadInv, BufferInv, PlaceInv, References
  <1> QED
    BY <1>1, ReadInvariant, PTL

\* A request is completed once and for all.
THEOREM CompletedOnce == Spec => []CompletedForGood
  <1>1. ReadInv => CompletedForGood
    <2> SUFFICES ASSUME ReadInv, NEW r \in Requests, completions[r] > 0
                 PROVE  /\ completions[r] = 1 /\ RefCount[r] = {}
                        /\ r # CurrentReadRequest
                        /\ r \notin canceledOnQueue \cup Waiting(ReadQueue)
      BY DEF CompletedForGood
    <2>1. completions[r] \in Nat /\ completions[r] <= 1
      BY DEF ReadInv, TypeOK, PlaceInv
    <2>2. /\ r # CurrentReadRequest
          /\ r \notin canceledOnQueue \cup Waiting(ReadQueue)
      BY <2>1, RequestsAssumption DEF ReadInv, PlaceInv
    <2> QED
      BY <2>1, <2>2, NotCurrent
  <1> QED
    BY <1>1, ReadInvariant, PTL

\* No request is left in the queue, or current, with nobody to end it.
THEOREM NoReadStranded == Spec => []NobodyStranded
  <1>1. ReadInv => NobodyStranded
    BY DEF ReadInv, IdleInv, StartInv, Starting, NobodyStranded
  <1> QED
    BY <1>1, ReadInvariant, PTL
===============================================================================
