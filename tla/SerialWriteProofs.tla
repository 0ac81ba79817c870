-------------------------- MODULE SerialWriteProofs --------------------------
(***************************************************************************)
(* SerialWrite keeps its invariant, for any number of writes, counters,    *)
(* immediate characters and flushes and any sizes, as long as an Xoff      *)
(* counter has ended before another takes its place; the safety properties *)
(* follow from it.                                                         *)
(***************************************************************************)
EXTENDS SerialWrite, RequestQueueLemmas, TLAPS

-------------------------------------------------------------------------------
(* The invariant *)

\* What can be current in each operation, and that nothing is in two of them.
KindInv ==
    /\ Current["Write"] \in Queued \cup {NULL}
    /\ Current["Xoff"] \in XoffCounters \cup {NULL}
    /\ Current["Immediate"] \in Immediates \cup {NULL}
    /\ Current["Write"] = Current["Xoff"] => Current["Write"] = NULL

InProgress(r) == \E op \in OPS : r = Current[op]

\* Each request is in one place: not submitted, in the queue, cancelled on the
\* queue, in progress, or completed once.
PlaceInv ==
    /\ NoRepeats(WriteQueue)
    /\ \A r \in Waiting(WriteQueue) \cup canceledOnQueue :
          r \in submitted /\ completions[r] = 0 /\ ~InProgress(r)
    /\ Waiting(WriteQueue) \cap canceledOnQueue = {}
    /\ \A r \in Requests : InProgress(r) => r \in submitted /\ completions[r] = 0
    /\ \A r \in Requests : r \notin submitted => completions[r] = 0
    /\ \A r \in Requests : completions[r] <= 1

\* A request still to end has something to send or to count, none of it is sent
\* before it is started, and the interrupt knows how much is left.
SizeInv ==
    /\ \A r \in submitted : completions[r] = 0 =>
          /\ r \in Writes => Length[r] > 0
          /\ r \in XoffCounters => Xc[r].Counter > 0
    /\ \A r \in XoffCounters : Xc[r].Timeout => TRUE \in XoffTimeoutChoices
    /\ \A r \in Queued : r \in Waiting(WriteQueue) \/ r \notin submitted => sent[r] = 0
    /\ pc \in {"start", "give"} => sent[Current["Write"]] = 0
    /\ Left["Write"] > 0 =>
          Left["Write"] = Cost(Current["Write"]) - sent[Current["Write"]]

\* The reference bits of the request r in progress in op say who will still call
\* back for op.  Only the timer's bit can outlive the timer, and only for a counter
\* (SerialTimeoutXoff does not pass its timer on).
Referred(op, r) ==
    /\ "ISR" \in RefCount[r] <=> Left[op] > 0 \/ CompleteDpc[op]
    /\ ~(Left[op] > 0 /\ CompleteDpc[op])
    /\ "CANCEL" \in RefCount[r] <=> cancelState[r] # "off"
    /\ cancelState[r] # "off" => CancelRoutine[r] = op
    /\ Timer[op] # "off" => "TOTAL_TIMER" \in RefCount[r]
    /\ "TOTAL_TIMER" \in RefCount[r] =>
          IF op = "Xoff" THEN Xc[r].Timeout ELSE Timer[op] # "off"

Unarmed(op) == Timer[op] = "off" /\ Left[op] = 0 /\ ~CompleteDpc[op]

ReferenceInv ==
    /\ \A op \in OPS :
          IF Current[op] = NULL THEN Unarmed(op) ELSE Referred(op, Current[op])
    /\ \A r \in Requests : ~InProgress(r) => RefCount[r] = {} /\ cancelState[r] = "off"
    /\ \A r \in Requests : cancelState[r] = "off" <=> CancelRoutine[r] = "none"

\* Between its last reference and the next request, and before its first one, a
\* write is current without a reference; nothing else ever is.
Starting == {"next", "purgeNext", "start", "give"}

StartInv ==
    /\ pc \in Starting => Current["Write"] # NULL
    /\ Current["Write"] # NULL =>
          (pc \in Starting <=> RefCount[Current["Write"]] = {})
    /\ \A op \in {"Xoff", "Immediate"} :
          Current[op] # NULL => RefCount[Current[op]] # {}

WriteInv ==
    RequestTypes /\ KindInv /\ PlaceInv /\ SizeInv /\ ReferenceInv /\ StartInv

\* The ASSERT of SerialGetNextWrite: no counter is in the place of the next one.
CounterMayStart ==
    BecomesXoff(Current["Write"]) => Current["Xoff"] = NULL

Statuses == {"PENDING", "SUCCESS", "TIMEOUT", "CANCELLED", "INVALID_PARAMETER",
             "MORE_WRITES", "COUNTER_TIMEOUT"}

-------------------------------------------------------------------------------
(* What the invariant says of the requests in progress. *)

\* The request in progress in an operation is in progress in no other.
LEMMA CurrentIsAlone ==
    ASSUME WriteInv, NEW op \in OPS, Current[op] # NULL
    PROVE  /\ Current[op] \in Requests /\ InProgress(Current[op])
           /\ Current[op] \in submitted /\ completions[Current[op]] = 0
           /\ Current[op] \notin Waiting(WriteQueue) \cup canceledOnQueue
           /\ \A o \in OPS : Current[o] = Current[op] => o = op
           /\ op = "Write" => Current[op] \in Queued
           /\ op = "Xoff" => Current[op] \in XoffCounters
           /\ op = "Immediate" => Current[op] \in Immediates
           /\ Referred(op, Current[op])
  <1>1. /\ Current[op] \in Requests
        /\ op = "Write" => Current[op] \in Queued
        /\ op = "Xoff" => Current[op] \in XoffCounters
        /\ op = "Immediate" => Current[op] \in Immediates
    BY DEF WriteInv, KindInv, OPS, Requests, Queued
  <1>2. InProgress(Current[op])
    BY DEF InProgress
  <1>3. /\ Current[op] \in submitted /\ completions[Current[op]] = 0
        /\ Current[op] \notin Waiting(WriteQueue) \cup canceledOnQueue
    BY <1>1, <1>2 DEF WriteInv, PlaceInv
  <1>4. \A o \in OPS : Current[o] = Current[op] => o = op
    BY WriteRequestsAssumption DEF WriteInv, KindInv, OPS, Queued
  <1>5. Referred(op, Current[op])
    BY DEF WriteInv, ReferenceInv
  <1> QED
    BY <1>1, <1>2, <1>3, <1>4, <1>5

\* Whoever holds a cancel routine is in progress in the operation it was set for.
LEMMA CancelRoutineOfCurrent ==
    ASSUME WriteInv, NEW r \in Requests,
           cancelState[r] # "off" \/ CancelRoutine[r] # "none"
    PROVE  /\ CancelRoutine[r] \in OPS /\ Current[CancelRoutine[r]] = r
           /\ cancelState[r] # "off" /\ "CANCEL" \in RefCount[r]
  <1>1. cancelState[r] # "off" /\ InProgress(r)
    BY DEF WriteInv, ReferenceInv
  <1>2. PICK op \in OPS : r = Current[op]
    BY <1>1 DEF InProgress
  <1>3. Referred(op, r)
    BY <1>2, WriteRequestsAssumption DEF WriteInv, ReferenceInv
  <1> QED
    BY <1>1, <1>2, <1>3 DEF Referred

-------------------------------------------------------------------------------
(* SerialTryToCompleteCurrent *)

\* The queue is left alone, or flushed.
Flushed(queue) ==
    /\ canceledOnQueue' = canceledOnQueue \cup (Waiting(WriteQueue) \ Waiting(queue))
    /\ WriteQueue' = queue

\* What every caller of SerialTryToCompleteCurrent leaves alone.
completeFrame ==
    <<contextVars, viaQueue, flushVars, sent, ErrorWord, cancelAsked, writeTimeout>>

LEMMA QueueAfterFlush ==
    ASSUME WriteInv, NEW queue \in {WriteQueue, <<>>}, Flushed(queue)
    PROVE  /\ WriteQueue' \in Seq(Queued) /\ canceledOnQueue' \subseteq Queued
           /\ NoRepeats(WriteQueue')
           /\ Waiting(WriteQueue') \cap canceledOnQueue' = {}
           /\ Waiting(WriteQueue') \cup canceledOnQueue' =
                Waiting(WriteQueue) \cup canceledOnQueue
           /\ Waiting(WriteQueue') \subseteq Waiting(WriteQueue)
           /\ Waiting(WriteQueue) \subseteq Queued
  <1>1. /\ WriteQueue \in Seq(Queued) /\ canceledOnQueue \subseteq Queued
        /\ NoRepeats(WriteQueue)
        /\ Waiting(WriteQueue) \cap canceledOnQueue = {}
    BY DEF WriteInv, RequestTypes, PlaceInv
  <1>2. <<>> \in Seq(Queued) /\ NoRepeats(<<>>) /\ Waiting(<<>>) = {}
    BY EmptyQueue
  <1>3. Waiting(WriteQueue) \subseteq Queued
    BY <1>1, WaitingInQueue
  <1> QED
    BY <1>1, <1>2, <1>3 DEF Flushed

\* How the callers of SerialTryToCompleteCurrent call it.
Completing(op, status, refType, grab, totalTimer, after, queue) ==
    /\ op \in OPS /\ Current[op] # NULL
    /\ status \in Statuses /\ refType \in REFS \cup {"XOFF_REF"}
    /\ grab \in BOOLEAN /\ totalTimer \in BOOLEAN
    /\ after \in {"idle", "give", "purgeXoff"} /\ queue \in {WriteQueue, <<>>}
    /\ TryToCompleteCurrent(op, status, refType, grab, totalTimer, after)
    /\ Flushed(queue)
    /\ UNCHANGED completeFrame
    /\ WriteQueueStopped' \in BOOLEAN /\ CommErrorDpc' \in BOOLEAN
    /\ totalTimer \/ op = "Xoff"
    /\ refType = "CANCEL" => cancelState[Current[op]] # "off"
    /\ \/ /\ refType = "ISR" /\ ~grab /\ CompleteDpc[op]
          /\ CompleteDpc' = [CompleteDpc EXCEPT ![op] = FALSE]
       \/ refType # "ISR" /\ grab /\ CompleteDpc' = CompleteDpc
    /\ IF pc = "start" THEN op = "Xoff" /\ after = "give"
                       ELSE pc \in {"idle", "purgeXoff"} /\ after # "give"

LEMMA TryToCompleteKeepsInv ==
    ASSUME WriteInv,
           NEW op, NEW status, NEW refType, NEW grab, NEW totalTimer, NEW after,
           NEW queue,
           Completing(op, status, refType, grab, totalTimer, after, queue)
    PROVE  WriteInv'
  <1> SUFFICES
        ASSUME op \in OPS, Current[op] # NULL,
               status \in Statuses, refType \in REFS \cup {"XOFF_REF"},
               grab \in BOOLEAN, totalTimer \in BOOLEAN,
               after \in {"idle", "give", "purgeXoff"},
               queue \in {WriteQueue, <<>>},
               TryToCompleteCurrent(op, status, refType, grab, totalTimer, after),
               Flushed(queue), UNCHANGED completeFrame,
               WriteQueueStopped' \in BOOLEAN, CommErrorDpc' \in BOOLEAN,
               totalTimer \/ op = "Xoff",
               refType = "CANCEL" => cancelState[Current[op]] # "off",
               \/ /\ refType = "ISR" /\ ~grab /\ CompleteDpc[op]
                  /\ CompleteDpc' = [CompleteDpc EXCEPT ![op] = FALSE]
               \/ refType # "ISR" /\ grab /\ CompleteDpc' = CompleteDpc,
               IF pc = "start" THEN op = "Xoff" /\ after = "give"
                               ELSE pc \in {"idle", "purgeXoff"} /\ after # "give"
        PROVE  WriteInv'
    BY DEF Completing
  <1> DEFINE c == Current[op]
             cleared == ClearedRefs(op, c, refType, grab, totalTimer)
             refs == RefCount[c] \ cleared
             info == IF grab THEN GrabbedInformation(op, c, refType) ELSE Information[c]
             cancelCleared == refType = "CANCEL" \/ cancelState[c] = "on"
  <1>1. /\ RequestTypes /\ KindInv /\ PlaceInv /\ SizeInv /\ ReferenceInv /\ StartInv
        /\ c \in Requests /\ InProgress(c) /\ c \in submitted /\ completions[c] = 0
        /\ c \notin Waiting(WriteQueue) \cup canceledOnQueue
        /\ \A o \in OPS : Current[o] = c => o = op
        /\ Referred(op, c)
    BY CurrentIsAlone DEF WriteInv
  <1>2. /\ RefCount \in [Requests -> SUBSET REFS] /\ RefCount[c] \subseteq REFS
        /\ cancelState \in [Requests -> {"off", "on", "fired"}]
        /\ CancelRoutine \in [Requests -> OPS \cup {"none"}]
        /\ Cancelled \in [Requests -> BOOLEAN]
        /\ Information \in [Requests -> Nat] /\ Status \in [Requests -> Statuses]
        /\ completions \in [Requests -> Nat]
        /\ Current \in [OPS -> Requests \cup {NULL}]
        /\ Timer \in [OPS -> {"off", "set", "fired"}]
        /\ CompleteDpc \in [OPS -> BOOLEAN] /\ Left \in [OPS -> Nat]
    BY <1>1 DEF RequestTypes, Statuses
  <1>3. /\ RefCount' = [RefCount EXCEPT ![c] = refs]
        /\ cancelState' = [cancelState EXCEPT ![c] = IF cancelCleared THEN "off" ELSE @]
        /\ CancelRoutine' = [CancelRoutine EXCEPT
                               ![c] = IF cancelCleared THEN "none" ELSE @]
        /\ Cancelled' = [Cancelled EXCEPT ![c] = @ \/ status = "CANCELLED"]
        /\ Timer' = [Timer EXCEPT ![op] =
                       IF refType = "TOTAL_TIMER" \/ (totalTimer /\ @ = "set")
                         THEN "off" ELSE @]
        /\ Left' = [Left EXCEPT ![op] = IF grab THEN 0 ELSE @]
        /\ Information' = [Information EXCEPT
                             ![c] = IF refs = {} /\ status = "CANCELLED" THEN 0 ELSE info]
        /\ Status' = [Status EXCEPT ![c] = IF refs = {} THEN status ELSE @]
        /\ \/ /\ refs # {} /\ pc' = after
              /\ Current' = Current /\ completions' = completions
           \/ /\ refs = {} /\ op # "Write" /\ pc' = after
              /\ Current' = [Current EXCEPT ![op] = NULL]
              /\ completions' = [completions EXCEPT ![c] = @ + 1]
           \/ /\ refs = {} /\ op = "Write"
              /\ pc' = IF after = "idle" THEN "next" ELSE "purgeNext"
              /\ Current' = Current /\ completions' = completions
    BY DEF TryToCompleteCurrent, EndWithoutNext
  <1>4. info \in Nat
    <2>1. CASE grab /\ op = "Write" /\ Left[op] > 0
      <3>1. Left["Write"] = Cost(c) - sent[c] /\ c \in Queued
        BY <1>1, <2>1, CurrentIsAlone DEF SizeInv
      <3>2. sent[c] \in Nat /\ Left["Write"] \in Nat /\ Cost(c) \in Nat
        BY <1>1, <3>1 DEF RequestTypes, Cost, OPS
      <3>3. info = Cost(c) - Left[op]
        BY <2>1 DEF GrabbedInformation
      <3> QED BY <2>1, <3>1, <3>2, <3>3
    <2>2. CASE ~(grab /\ op = "Write" /\ Left[op] > 0)
      BY <1>2, <1>1, <2>2 DEF GrabbedInformation
    <2> QED BY <2>1, <2>2
  <1> HIDE DEF info
  <1>5. /\ WriteQueue' \in Seq(Queued) /\ canceledOnQueue' \subseteq Queued
        /\ NoRepeats(WriteQueue')
        /\ Waiting(WriteQueue') \cap canceledOnQueue' = {}
        /\ Waiting(WriteQueue') \cup canceledOnQueue' =
             Waiting(WriteQueue) \cup canceledOnQueue
        /\ Waiting(WriteQueue') \subseteq Waiting(WriteQueue)
        /\ Waiting(WriteQueue) \subseteq Queued
    BY QueueAfterFlush
  <1>6. CompleteDpc' \in [OPS -> BOOLEAN]
        /\ \A o \in OPS : o # op => CompleteDpc'[o] = CompleteDpc[o]
    BY <1>2
  \* What is left of the references, bit by bit.
  <1>7. /\ "ISR" \in cleared <=> refType = "ISR" \/ (grab /\ Left[op] > 0)
        /\ "CANCEL" \in cleared <=> cancelCleared
        /\ "TOTAL_TIMER" \in cleared <=>
              totalTimer /\ (refType = "TOTAL_TIMER" \/ Timer[op] = "set")
    BY DEF ClearedRefs, REFS
  <1>8. \A ref : ref \in refs <=> ref \in RefCount[c] /\ ref \notin cleared
    OBVIOUS
  <1>9. /\ "ISR" \in RefCount[c] <=> Left[op] > 0 \/ CompleteDpc[op]
        /\ ~(Left[op] > 0 /\ CompleteDpc[op])
        /\ "CANCEL" \in RefCount[c] <=> cancelState[c] # "off"
        /\ cancelState[c] # "off" => CancelRoutine[c] = op
        /\ Timer[op] # "off" => "TOTAL_TIMER" \in RefCount[c]
        /\ "TOTAL_TIMER" \in RefCount[c] =>
              IF op = "Xoff" THEN Xc[c].Timeout ELSE Timer[op] # "off"
    BY <1>1 DEF Referred
  <1>10. refs \subseteq RefCount[c]
    OBVIOUS
  <1> HIDE DEF cleared, refs
  <1>12. "ISR" \in refs <=> Left'[op] > 0 \/ CompleteDpc'[op]
    <2>1. CASE refType = "ISR" /\ ~grab /\ CompleteDpc[op]
               /\ CompleteDpc' = [CompleteDpc EXCEPT ![op] = FALSE]
      <3>1. Left'[op] = Left[op] /\ ~CompleteDpc'[op]
        BY <1>2, <1>3, <2>1
      <3> QED BY <1>7, <1>8, <1>9, <2>1, <3>1
    <2>2. CASE refType # "ISR" /\ grab /\ CompleteDpc' = CompleteDpc
      <3>1. ~(Left'[op] > 0) /\ (CompleteDpc'[op] <=> CompleteDpc[op])
        BY <1>2, <1>3, <2>2
      <3> QED BY <1>7, <1>8, <1>9, <2>2, <3>1
    <2> QED BY <2>1, <2>2
  <1>13. ~(Left'[op] > 0 /\ CompleteDpc'[op])
    <2>1. Left'[op] \in {0, Left[op]} /\ (CompleteDpc'[op] => CompleteDpc[op])
      BY <1>2, <1>3
    <2> QED BY <1>9, <2>1
  <1>14. /\ "CANCEL" \in refs <=> cancelState'[c] # "off"
         /\ cancelState'[c] # "off" => CancelRoutine'[c] = op
         /\ cancelState'[c] = "off" <=> CancelRoutine'[c] = "none"
    <2>1. cancelState[c] = "off" <=> CancelRoutine[c] = "none"
      BY <1>1 DEF ReferenceInv
    <2>2. /\ cancelState'[c] = IF cancelCleared THEN "off" ELSE cancelState[c]
          /\ CancelRoutine'[c] = IF cancelCleared THEN "none" ELSE CancelRoutine[c]
      BY <1>1, <1>2, <1>3
    <2> QED BY <1>7, <1>8, <1>9, <2>1, <2>2
  <1>15. /\ Timer'[op] # "off" => "TOTAL_TIMER" \in refs
         /\ "TOTAL_TIMER" \in refs =>
               IF op = "Xoff" THEN Xc[c].Timeout ELSE Timer'[op] # "off"
    <2>1. Timer'[op] = IF refType = "TOTAL_TIMER" \/ (totalTimer /\ Timer[op] = "set")
                         THEN "off" ELSE Timer[op]
      BY <1>2, <1>3
    <2>3. Timer'[op] # "off" => "TOTAL_TIMER" \in refs
      BY <1>7, <1>8, <1>9, <2>1
    <2>4. ASSUME "TOTAL_TIMER" \in refs
          PROVE  IF op = "Xoff" THEN Xc[c].Timeout ELSE Timer'[op] # "off"
      BY <1>7, <1>8, <1>9, <2>1, <2>4
    <2> QED BY <2>3, <2>4
  <1>16. refs \subseteq REFS /\ RefCount'[c] = refs
         /\ RefCount' \in [Requests -> SUBSET REFS]
         /\ \A r \in Requests : r # c => /\ RefCount'[r] = RefCount[r]
                                         /\ cancelState'[r] = cancelState[r]
                                         /\ CancelRoutine'[r] = CancelRoutine[r]
    BY <1>1, <1>2, <1>3, <1>10
  <1>17. refs = {} => /\ Left'[op] = 0 /\ ~CompleteDpc'[op]
                      /\ cancelState'[c] = "off" /\ Timer'[op] = "off"
    BY <1>2, <1>3, <1>12, <1>14, <1>15
  <1>18. /\ submitted' = submitted /\ Length' = Length /\ Xc' = Xc /\ sent' = sent
         /\ viaQueue' = viaQueue /\ flushState' = flushState
         /\ aheadOfFlush' = aheadOfFlush /\ ErrorWord' = ErrorWord
         /\ cancelAsked' = cancelAsked /\ writeTimeout' = writeTimeout
    BY DEF completeFrame, contextVars, flushVars
  <1>11. /\ Current' = IF refs = {} /\ op # "Write" THEN [Current EXCEPT ![op] = NULL]
                                                 ELSE Current
        /\ completions' = IF refs = {} /\ op # "Write"
                             THEN [completions EXCEPT ![c] = @ + 1] ELSE completions
    BY <1>3
  <1>19. /\ Current' \in [OPS -> Requests \cup {NULL}]
         /\ \A o \in OPS : Current'[o] \in {Current[o], NULL}
         /\ \A o \in OPS : o # op => Current'[o] = Current[o]
         /\ Current'["Write"] = Current["Write"]
         /\ Current'[op] = NULL => refs = {} /\ op # "Write"
         /\ refs = {} /\ op # "Write" => Current'[op] = NULL
    BY <1>1, <1>2, <1>11, WriteRequestsAssumption
  <1>20. /\ completions' \in [Requests -> Nat]
         /\ \A r \in Requests : r # c => completions'[r] = completions[r]
         /\ Current'[op] = NULL => completions'[c] = 1
         /\ Current'[op] # NULL => completions'[c] = 0
    BY <1>1, <1>2, <1>11, <1>19
  <1>21. RequestTypes'
    <2>1. /\ cancelState' \in [Requests -> {"off", "on", "fired"}]
          /\ CancelRoutine' \in [Requests -> OPS \cup {"none"}]
          /\ Cancelled' \in [Requests -> BOOLEAN]
      BY <1>1, <1>2, <1>3
    <2>2. Information' \in [Requests -> Nat] /\ Status' \in [Requests -> Statuses]
      BY <1>1, <1>2, <1>3, <1>4
    <2>3. Timer' \in [OPS -> {"off", "set", "fired"}] /\ Left' \in [OPS -> Nat]
      BY <1>2, <1>3
    <2>4. pc' \in {"idle", "next", "purgeNext", "start", "give", "purgeXoff"}
      BY <1>3
    <2>5. /\ viaQueue' \subseteq Queued /\ Length' \in [Writes -> Nat]
          /\ Xc' \in [XoffCounters -> [Counter : Nat, Timeout : BOOLEAN]]
          /\ submitted' \subseteq Requests /\ cancelAsked' \subseteq Requests
          /\ ErrorWord' \in BOOLEAN /\ writeTimeout' \in WriteTimeoutChoices
          /\ sent' \in [Queued -> Nat]
          /\ flushState' \in [Flushes -> {"no", "waiting", "done"}]
          /\ aheadOfFlush' \in [Flushes -> SUBSET Writes]
      BY <1>1, <1>18 DEF RequestTypes
    <2> QED
      BY <1>5, <1>6, <1>16, <1>19, <1>20, <2>1, <2>2, <2>3, <2>4, <2>5
      DEF RequestTypes, Statuses
  <1>22. KindInv'
    BY <1>1, <1>19, WriteRequestsAssumption DEF KindInv, OPS
  <1>23. \A r \in Requests :
            InProgress(r)' <=> InProgress(r) /\ (r = c => refs # {} \/ op = "Write")
    BY <1>1, <1>19, WriteRequestsAssumption DEF InProgress
  <1>24. PlaceInv'
    <2>1. \A r \in Waiting(WriteQueue') \cup canceledOnQueue' :
             r \in submitted' /\ completions'[r] = 0 /\ ~InProgress(r)'
      BY <1>1, <1>5, <1>18, <1>20, <1>23 DEF PlaceInv, Requests
    <2>2. \A r \in Requests : InProgress(r)' => r \in submitted' /\ completions'[r] = 0
      BY <1>1, <1>18, <1>19, <1>20, <1>23 DEF PlaceInv
    <2>3. \A r \in Requests : r \notin submitted' => completions'[r] = 0
      BY <1>1, <1>18, <1>20 DEF PlaceInv
    <2>4. \A r \in Requests : completions'[r] <= 1
      BY <1>1, <1>20 DEF PlaceInv
    <2> QED
      BY <1>5, <2>1, <2>2, <2>3, <2>4 DEF PlaceInv
  <1>25. SizeInv'
    <2>1. \A r \in submitted' : completions'[r] = 0 =>
             /\ r \in Writes => Length'[r] > 0
             /\ r \in XoffCounters => Xc'[r].Counter > 0
      BY <1>1, <1>18, <1>20 DEF SizeInv, RequestTypes
    <2>2. \A r \in XoffCounters : Xc'[r].Timeout => TRUE \in XoffTimeoutChoices
      BY <1>1, <1>18 DEF SizeInv
    <2>3. \A r \in Queued : r \in Waiting(WriteQueue') \/ r \notin submitted' =>
             sent'[r] = 0
      BY <1>1, <1>5, <1>18 DEF SizeInv
    <2>4. pc' \in {"start", "give"} => sent'[Current'["Write"]] = 0
      BY <1>1, <1>3, <1>18, <1>19 DEF SizeInv
    <2>5. Left'["Write"] > 0 =>
            Left'["Write"] = Cost(Current["Write"]) - sent[Current["Write"]]
      <3>1. "Write" \in OPS
        BY DEF OPS
      <3> QED BY <1>1, <1>2, <1>3, <3>1 DEF SizeInv
    <2>6. Cost(Current["Write"])' = Cost(Current["Write"])
      BY <1>18, <1>19 DEF Cost
    <2> QED
      BY <1>18, <1>19, <2>1, <2>2, <2>3, <2>4, <2>5, <2>6 DEF SizeInv
  <1>26. ReferenceInv'
    <2>1. ASSUME NEW o \in OPS, o # op
          PROVE  IF Current'[o] = NULL THEN Unarmed(o)' ELSE Referred(o, Current[o])'
      <3>1. /\ Timer'[o] = Timer[o] /\ Left'[o] = Left[o]
            /\ CompleteDpc'[o] = CompleteDpc[o] /\ Current'[o] = Current[o]
        BY <1>2, <1>3, <1>6, <1>19, <2>1
      <3>2. CASE Current[o] = NULL
        BY <1>1, <3>1, <3>2 DEF ReferenceInv, Unarmed
      <3>3. CASE Current[o] # NULL
        <4>1. /\ Current[o] \in Requests /\ Current[o] # c
              /\ Referred(o, Current[o])
          BY <1>1, <1>2, <2>1, <3>3 DEF ReferenceInv
        <4>2. Referred(o, Current[o])'
          BY <1>16, <1>18, <3>1, <4>1 DEF Referred
        <4> QED BY <3>1, <3>3, <4>2
      <3> QED BY <3>2, <3>3
    <2>2. CASE Current'[op] = NULL
      <3>1. Unarmed(op)'
        BY <1>17, <1>19, <2>2 DEF Unarmed
      <3> QED
        BY <1>14, <1>16, <1>17, <1>19, <1>1, <1>23, <2>1, <2>2, <3>1 DEF ReferenceInv
    <2>3. CASE Current'[op] # NULL
      <3>1. Current'[op] = c
        BY <1>19, <2>3
      <3>2. /\ "ISR" \in RefCount'[c] <=> Left'[op] > 0 \/ CompleteDpc'[op]
            /\ ~(Left'[op] > 0 /\ CompleteDpc'[op])
            /\ "CANCEL" \in RefCount'[c] <=> cancelState'[c] # "off"
            /\ cancelState'[c] # "off" => CancelRoutine'[c] = op
            /\ Timer'[op] # "off" => "TOTAL_TIMER" \in RefCount'[c]
            /\ "TOTAL_TIMER" \in RefCount'[c] =>
                  IF op = "Xoff" THEN Xc'[c].Timeout ELSE Timer'[op] # "off"
        BY <1>12, <1>13, <1>14, <1>15, <1>16, <1>18
      <3>3. Referred(op, Current[op])'
        BY <3>1, <3>2 DEF Referred
      <3>4. \A r \in Requests :
               ~InProgress(r)' => RefCount'[r] = {} /\ cancelState'[r] = "off"
        BY <1>1, <1>16, <1>19, <1>23, <2>3 DEF ReferenceInv
      <3>5. \A r \in Requests : cancelState'[r] = "off" <=> CancelRoutine'[r] = "none"
        BY <1>1, <1>14, <1>16 DEF ReferenceInv
      <3> QED
        BY <2>1, <2>3, <3>3, <3>4, <3>5 DEF ReferenceInv
    <2> QED BY <2>2, <2>3
  <1>27. StartInv'
    <2>1. CASE op = "Write"
      <3>1. /\ pc' \in Starting <=> refs = {}
            /\ Current'["Write"] = c /\ c # NULL
        BY <1>3, <1>19, <2>1 DEF Starting
      <3>2. \A o \in {"Xoff", "Immediate"} :
               Current'[o] # NULL => RefCount'[Current'[o]] # {}
        BY <1>1, <1>2, <1>16, <1>19, <2>1 DEF StartInv, OPS
      <3> QED BY <1>16, <3>1, <3>2 DEF StartInv
    <2>2. CASE op # "Write"
      <3>1. pc' = after /\ (pc \in Starting <=> pc' \in Starting)
        BY <1>3, <2>2 DEF Starting
      <3>2. Current["Write"] # NULL =>
              Current["Write"] \in Requests /\ Current["Write"] # c
        BY <1>1, <1>2, <2>2 DEF OPS
      <3>3. \A o \in {"Xoff", "Immediate"} :
               Current'[o] # NULL => RefCount'[Current'[o]] # {}
        <4> SUFFICES ASSUME NEW o \in {"Xoff", "Immediate"}, Current'[o] # NULL
                     PROVE  RefCount'[Current'[o]] # {}
          OBVIOUS
        <4>1. o \in OPS
          BY DEF OPS
        <4>2. CASE o = op
          BY <1>16, <1>19, <2>2, <4>2
        <4>3. CASE o # op
          <5>1. Current'[o] = Current[o] /\ Current[o] \in Requests /\ Current[o] # c
            BY <1>1, <1>2, <1>19, <4>1, <4>3
          <5> QED BY <1>1, <1>16, <5>1 DEF StartInv
        <4> QED BY <4>2, <4>3
      <3> QED BY <1>1, <1>16, <1>19, <3>1, <3>2, <3>3 DEF StartInv
    <2> QED BY <2>1, <2>2
  <1> QED
    BY <1>21, <1>22, <1>24, <1>25, <1>26, <1>27 DEF WriteInv

-------------------------------------------------------------------------------
(* Steps that touch no request, except to take it off the queue. *)

LEMMA QuietStepKeepsInv ==
    ASSUME WriteInv, NEW queue \in {WriteQueue, <<>>}, Flushed(queue),
           UNCHANGED <<contextVars, viaQueue, referVars, endVars, isrVars, Current>>,
           cancelAsked' \subseteq Requests,
           WriteQueueStopped' \in BOOLEAN, writeTimeout' \in WriteTimeoutChoices,
           CommErrorDpc' \in BOOLEAN, ErrorWord' \in BOOLEAN,
           flushState' \in [Flushes -> {"no", "waiting", "done"}],
           aheadOfFlush' \in [Flushes -> SUBSET Writes],
           \/ pc' = pc
           \/ pc \in {"idle", "purgeXoff"} /\ pc' \in {"idle", "purgeXoff"}
           \/ pc = "start" /\ pc' = "give"
    PROVE  WriteInv'
  <1>1. /\ WriteQueue' \in Seq(Queued) /\ canceledOnQueue' \subseteq Queued
        /\ NoRepeats(WriteQueue')
        /\ Waiting(WriteQueue') \cap canceledOnQueue' = {}
        /\ Waiting(WriteQueue') \cup canceledOnQueue' =
             Waiting(WriteQueue) \cup canceledOnQueue
        /\ Waiting(WriteQueue') \subseteq Waiting(WriteQueue)
    BY QueueAfterFlush
  <1>2. /\ Length' = Length /\ Xc' = Xc /\ submitted' = submitted
        /\ RefCount' = RefCount /\ cancelState' = cancelState
        /\ CancelRoutine' = CancelRoutine /\ Timer' = Timer
        /\ Cancelled' = Cancelled /\ Information' = Information /\ Status' = Status
        /\ completions' = completions /\ Left' = Left /\ CompleteDpc' = CompleteDpc
        /\ sent' = sent /\ Current' = Current /\ viaQueue' = viaQueue
    BY DEF contextVars, referVars, endVars, isrVars
  <1>3. RequestTypes'
    <2>1. pc' \in {"idle", "next", "purgeNext", "start", "give", "purgeXoff"}
      BY DEF WriteInv, RequestTypes
    <2> QED BY <1>1, <1>2, <2>1 DEF WriteInv, RequestTypes
  <1>4. KindInv'
    BY <1>2 DEF WriteInv, KindInv
  <1>5. PlaceInv'
    <2>1. \A r : InProgress(r)' <=> InProgress(r)
      BY <1>2 DEF InProgress
    <2> QED BY <1>1, <1>2, <2>1 DEF WriteInv, PlaceInv
  <1>6. SizeInv'
    <2>1. pc' \in {"start", "give"} => pc \in {"start", "give"}
      OBVIOUS
    <2> QED BY <1>1, <1>2, <2>1 DEF WriteInv, SizeInv, Cost
  <1>7. ReferenceInv'
    BY <1>2 DEF WriteInv, ReferenceInv, Referred, Unarmed, InProgress
  <1>8. StartInv'
    <2>1. pc' \in Starting <=> pc \in Starting
      BY DEF Starting
    <2> QED BY <1>2, <2>1 DEF WriteInv, StartInv
  <1> QED
    BY <1>3, <1>4, <1>5, <1>6, <1>7, <1>8 DEF WriteInv

LEMMA NothingFlushed ==
    ASSUME UNCHANGED <<WriteQueue, canceledOnQueue>>
    PROVE  Flushed(WriteQueue)
  BY DEF Flushed

LEMMA SettingsKeepInv ==
    ASSUME WriteInv,
           \/ GetCommStatus \/ LineError
           \/ \E t \in WriteTimeoutChoices : SetTimeouts(t)
           \/ \E f \in Flushes : FlushStopsQueue(f) \/ FlushEnds(f)
           \/ UNCHANGED vars
    PROVE  WriteInv'
  <1> USE DEF contextVars, queueVars, referVars, endVars, flushVars, isrVars,
              errorVars, isrFrame, vars
  <1>1. RequestTypes
    BY DEF WriteInv
  <1>2. UNCHANGED <<WriteQueue, canceledOnQueue, contextVars, viaQueue, referVars,
                    endVars, isrVars, Current, cancelAsked, pc>>
    BY DEF GetCommStatus, LineError, SetTimeouts, FlushStopsQueue, FlushEnds
  <1>3. CommErrorDpc' \in BOOLEAN /\ ErrorWord' \in BOOLEAN
    BY <1>1 DEF RequestTypes, GetCommStatus, LineError, SetTimeouts, FlushStopsQueue,
       FlushEnds
  <1>4. WriteQueueStopped' \in BOOLEAN /\ writeTimeout' \in WriteTimeoutChoices
    BY <1>1 DEF RequestTypes, GetCommStatus, LineError, SetTimeouts, FlushStopsQueue,
       FlushEnds
  <1>5. /\ flushState' \in [Flushes -> {"no", "waiting", "done"}]
        /\ aheadOfFlush' \in [Flushes -> SUBSET Writes]
    <2>1. Unfinished \subseteq Writes
      BY DEF Unfinished
    <2> QED
      BY <1>1, <2>1 DEF RequestTypes, GetCommStatus, LineError, SetTimeouts,
         FlushStopsQueue, FlushEnds
  <1>6. cancelAsked' \subseteq Requests
    BY <1>1, <1>2 DEF RequestTypes
  <1> HIDE DEF contextVars, queueVars, referVars, endVars, flushVars, isrVars,
              errorVars, isrFrame, vars
  <1> QED
    BY <1>2, <1>3, <1>4, <1>5, <1>6, NothingFlushed, QuietStepKeepsInv

-------------------------------------------------------------------------------
(* The callbacks that end requests. *)

LEMMA CallbackFrameKept ==
    ASSUME WriteInv, UNCHANGED callbackFrame
    PROVE  /\ Flushed(WriteQueue) /\ UNCHANGED completeFrame
           /\ WriteQueueStopped' \in BOOLEAN /\ CommErrorDpc' \in BOOLEAN
  <1>1. /\ UNCHANGED <<WriteQueue, canceledOnQueue>> /\ UNCHANGED completeFrame
        /\ WriteQueueStopped' = WriteQueueStopped /\ CommErrorDpc' = CommErrorDpc
    BY DEF callbackFrame, completeFrame, queueVars, errorVars
  <1> QED
    BY <1>1, NothingFlushed DEF WriteInv, RequestTypes

LEMMA SerialCompleteKeepsInv ==
    ASSUME WriteInv, NEW op \in OPS, SerialComplete(op)
    PROVE  WriteInv'
  <1>1. /\ pc = "idle" /\ CompleteDpc[op] /\ Current[op] # NULL
        /\ CompleteDpc' = [CompleteDpc EXCEPT ![op] = FALSE]
        /\ TryToCompleteCurrent(op, "SUCCESS", "ISR", FALSE, TRUE, "idle")
        /\ UNCHANGED callbackFrame
    BY DEF SerialComplete
  <1>2. Completing(op, "SUCCESS", "ISR", FALSE, TRUE, "idle", WriteQueue)
    BY <1>1, CallbackFrameKept DEF Completing, Statuses, REFS
  <1> QED
    BY <1>2, TryToCompleteKeepsInv

LEMMA SerialTimeoutKeepsInv ==
    ASSUME WriteInv, NEW op \in OPS, SerialTimeout(op)
    PROVE  WriteInv'
  <1> DEFINE status == IF op = "Xoff" THEN "COUNTER_TIMEOUT" ELSE "TIMEOUT"
  <1>1. /\ pc = "idle" /\ Current[op] # NULL
        /\ TryToCompleteCurrent(op, status, "TOTAL_TIMER", TRUE, PassesTimer(op), "idle")
        /\ UNCHANGED callbackFrame /\ CompleteDpc' = CompleteDpc
    BY DEF SerialTimeout
  <1>2. Completing(op, status, "TOTAL_TIMER", TRUE, PassesTimer(op), "idle", WriteQueue)
    BY <1>1, CallbackFrameKept DEF Completing, Statuses, REFS, PassesTimer
  <1> QED
    BY <1>2, TryToCompleteKeepsInv

LEMMA SerialCancelCurrentKeepsInv ==
    ASSUME WriteInv, NEW r \in Requests, SerialCancelCurrent(r)
    PROVE  WriteInv'
  <1> DEFINE op == CancelRoutine[r]
  <1>1. /\ pc = "idle" /\ cancelState[r] = "fired" /\ Current[op] # NULL
        /\ TryToCompleteCurrent(op, "CANCELLED", "CANCEL", TRUE, TRUE, "idle")
        /\ UNCHANGED callbackFrame /\ CompleteDpc' = CompleteDpc
    BY DEF SerialCancelCurrent
  <1>2. op \in OPS /\ Current[op] = r
    BY <1>1, CancelRoutineOfCurrent
  <1> HIDE DEF op
  <1>3. Completing(op, "CANCELLED", "CANCEL", TRUE, TRUE, "idle", WriteQueue)
    BY <1>1, <1>2, CallbackFrameKept DEF Completing, Statuses, REFS
  <1> QED
    BY <1>3, TryToCompleteKeepsInv

\* A new write takes the counter's references, or finds none counting.
LEMMA OvertakeXoffKeepsInv ==
    ASSUME WriteInv, OvertakeXoff
    PROVE  WriteInv'
  <1>1. /\ pc = "start" /\ UNCHANGED callbackFrame /\ CompleteDpc' = CompleteDpc
    BY DEF OvertakeXoff
  <1>2. CASE /\ XoffIsCounting
             /\ TryToCompleteCurrent("Xoff", "MORE_WRITES", "XOFF_REF", TRUE, TRUE,
                                     "give")
    <2>1. "Xoff" \in OPS /\ Current["Xoff"] # NULL
      BY <1>2 DEF OPS, XoffIsCounting
    <2>2. Completing("Xoff", "MORE_WRITES", "XOFF_REF", TRUE, TRUE, "give", WriteQueue)
      BY <1>1, <1>2, <2>1, CallbackFrameKept DEF Completing, Statuses, REFS
    <2> QED
      BY <2>2, TryToCompleteKeepsInv
  <1>3. CASE pc' = "give" /\ UNCHANGED <<referVars, endVars, Left, Current>>
    <2>1. UNCHANGED <<contextVars, viaQueue, referVars, endVars, isrVars, Current>>
      BY <1>1, <1>3 DEF callbackFrame, queueVars, isrVars
    <2>2. /\ cancelAsked' \subseteq Requests /\ WriteQueueStopped' \in BOOLEAN
          /\ writeTimeout' \in WriteTimeoutChoices
          /\ CommErrorDpc' \in BOOLEAN /\ ErrorWord' \in BOOLEAN
          /\ flushState' \in [Flushes -> {"no", "waiting", "done"}]
          /\ aheadOfFlush' \in [Flushes -> SUBSET Writes]
      BY <1>1 DEF callbackFrame, queueVars, flushVars, errorVars, WriteInv, RequestTypes
    <2> QED
      BY <1>1, <1>3, <2>1, <2>2, CallbackFrameKept, QuietStepKeepsInv
  <1> QED
    BY <1>2, <1>3 DEF OvertakeXoff

-------------------------------------------------------------------------------
(* Purges and comm errors. *)

LEMMA FlushWritesKeepsInv ==
    ASSUME WriteInv, pc \in {"idle", "purgeXoff"}, NEW op \in OPS,
           NEW after \in {"idle", "purgeXoff"}, FlushWrites(op, after),
           CommErrorDpc' \in BOOLEAN
    PROVE  WriteInv'
  <1> DEFINE r == Current[op]
  <1>1. /\ canceledOnQueue' = canceledOnQueue \cup Waiting(WriteQueue)
        /\ WriteQueue' = <<>> /\ WriteQueueStopped' = FALSE
        /\ UNCHANGED <<contextVars, viaQueue, flushVars, sent, CompleteDpc, ErrorWord,
                       cancelAsked, writeTimeout>>
    BY DEF FlushWrites
  <1>2. Flushed(<<>>)
    BY <1>1, EmptyQueue DEF Flushed
  <1>3. CASE /\ CallsCancelRoutine(r)
             /\ TryToCompleteCurrent(CancelRoutine[r], "CANCELLED", "CANCEL", TRUE,
                                     TRUE, after)
    <2>1. r # NULL /\ r \in Requests /\ CancelRoutine[r] # "none"
      BY <1>3, CurrentIsAlone DEF CallsCancelRoutine
    <2>2. /\ CancelRoutine[r] \in OPS /\ Current[CancelRoutine[r]] = r
          /\ cancelState[r] # "off"
      BY <2>1, CancelRoutineOfCurrent
    <2>3. CancelRoutine[r] = op
      BY <2>1, <2>2, CurrentIsAlone
    <2>4. UNCHANGED completeFrame
      BY <1>1 DEF completeFrame
    <2>5. TryToCompleteCurrent(op, "CANCELLED", "CANCEL", TRUE, TRUE, after)
      BY <1>3, <2>3
    <2> HIDE DEF r
    <2>6. Completing(op, "CANCELLED", "CANCEL", TRUE, TRUE, after, <<>>)
      BY <1>1, <1>2, <2>1, <2>2, <2>4, <2>5 DEF Completing, Statuses, REFS, r
    <2> QED
      BY <2>6, TryToCompleteKeepsInv
  <1>4. CASE pc' = after /\ UNCHANGED <<referVars, endVars, Left, Current>>
    <2>1. UNCHANGED <<contextVars, viaQueue, referVars, endVars, isrVars, Current>>
      BY <1>1, <1>4 DEF isrVars
    <2>2. /\ cancelAsked' \subseteq Requests /\ WriteQueueStopped' \in BOOLEAN
          /\ writeTimeout' \in WriteTimeoutChoices /\ ErrorWord' \in BOOLEAN
          /\ flushState' \in [Flushes -> {"no", "waiting", "done"}]
          /\ aheadOfFlush' \in [Flushes -> SUBSET Writes]
      BY <1>1 DEF flushVars, WriteInv, RequestTypes
    <2> QED
      BY <1>2, <1>4, <2>1, <2>2, QuietStepKeepsInv
  <1> QED
    BY <1>3, <1>4 DEF FlushWrites

LEMMA PurgesKeepInv ==
    ASSUME WriteInv, SerialCommError \/ StartPurge \/ PurgeXoff
    PROVE  WriteInv'
  <1>1. CommErrorDpc' \in BOOLEAN
    BY DEF SerialCommError, StartPurge, PurgeXoff, WriteInv, RequestTypes
  <1>2. "Write" \in OPS /\ "Xoff" \in OPS
    BY DEF OPS
  <1> QED
    BY <1>1, <1>2, FlushWritesKeepsInv DEF SerialCommError, StartPurge, PurgeXoff

-------------------------------------------------------------------------------
(* Timers, the interrupt and cancellation *)

LEMMA TimerExpiresKeepsInv ==
    ASSUME WriteInv, NEW op \in OPS, TimerExpires(op)
    PROVE  WriteInv'
  <1>1. /\ Timer[op] = "set" /\ Timer' = [Timer EXCEPT ![op] = "fired"]
        /\ Timer \in [OPS -> {"off", "set", "fired"}]
        /\ UNCHANGED <<contextVars, queueVars, RefCount, cancelState, CancelRoutine,
                       Cancelled, endVars, flushVars, isrVars, errorVars, Current,
                       cancelAsked, TotalCharsQueued, writeTimeout, pc>>
    BY DEF TimerExpires, WriteInv, RequestTypes
  <1>2. /\ Timer' \in [OPS -> {"off", "set", "fired"}]
        /\ \A o \in OPS : Timer'[o] = "off" <=> Timer[o] = "off"
    BY <1>1
  <1> USE DEF contextVars, queueVars, endVars, flushVars, isrVars, errorVars
  <1>3. RequestTypes'
    BY <1>1, <1>2 DEF WriteInv, RequestTypes
  <1>4. KindInv' /\ PlaceInv' /\ SizeInv' /\ StartInv'
    BY <1>1 DEF WriteInv, KindInv, PlaceInv, InProgress, SizeInv, Cost, StartInv
  <1>5. ReferenceInv'
    BY <1>1, <1>2 DEF WriteInv, ReferenceInv, Referred, Unarmed, InProgress
  <1> QED
    BY <1>3, <1>4, <1>5 DEF WriteInv

\* The interrupt leaves n characters of op for later; the last one queues the DPC.
Interrupted(op, n) ==
    /\ op \in OPS /\ Left[op] > 0 /\ n \in Nat /\ n < Left[op]
    /\ Left' = [Left EXCEPT ![op] = n]
    /\ CompleteDpc' = IF n = 0 THEN [CompleteDpc EXCEPT ![op] = TRUE] ELSE CompleteDpc
    /\ UNCHANGED isrFrame /\ UNCHANGED errorVars
    /\ Information' \in [Requests -> Nat] /\ Status' \in [Requests -> Statuses]
    /\ sent' = IF op = "Write"
                 THEN [sent EXCEPT ![Current[op]] = @ + (Left[op] - n)] ELSE sent

LEMMA InterruptKeepsInv ==
    ASSUME WriteInv, NEW op, NEW n, Interrupted(op, n)
    PROVE  WriteInv'
  <1> SUFFICES
        ASSUME op \in OPS, Left[op] > 0, n \in Nat, n < Left[op],
               Left' = [Left EXCEPT ![op] = n],
               CompleteDpc' = IF n = 0 THEN [CompleteDpc EXCEPT ![op] = TRUE]
                                       ELSE CompleteDpc,
               UNCHANGED isrFrame, UNCHANGED errorVars,
               Information' \in [Requests -> Nat], Status' \in [Requests -> Statuses],
               sent' = IF op = "Write"
                         THEN [sent EXCEPT ![Current[op]] = @ + (Left[op] - n)]
                         ELSE sent
        PROVE  WriteInv'
    BY DEF Interrupted
  <1> USE DEF contextVars, queueVars, referVars, flushVars, isrFrame, errorVars
  <1>1. /\ RequestTypes /\ KindInv /\ PlaceInv /\ SizeInv /\ ReferenceInv /\ StartInv
        /\ Left \in [OPS -> Nat] /\ CompleteDpc \in [OPS -> BOOLEAN]
        /\ sent \in [Queued -> Nat] /\ Current \in [OPS -> Requests \cup {NULL}]
    BY DEF WriteInv, RequestTypes
  <1>2. Current[op] # NULL /\ Referred(op, Current[op])
    BY <1>1 DEF ReferenceInv, Unarmed
  <1>3. /\ Current[op] \in Requests /\ InProgress(Current[op])
        /\ Current[op] \in submitted
        /\ Current[op] \notin Waiting(WriteQueue)
        /\ op = "Write" => Current[op] \in Queued
    BY <1>2, CurrentIsAlone
  <1>4. ~CompleteDpc[op] /\ "ISR" \in RefCount[Current[op]]
    BY <1>2 DEF Referred
  <1>5. /\ Left' \in [OPS -> Nat] /\ CompleteDpc' \in [OPS -> BOOLEAN]
        /\ Left'[op] = n /\ (CompleteDpc'[op] <=> n = 0)
        /\ \A o \in OPS : o # op => Left'[o] = Left[o] /\ CompleteDpc'[o] = CompleteDpc[o]
    BY <1>1, <1>4
  <1>6. /\ sent' \in [Queued -> Nat]
        /\ op = "Write" => sent'[Current[op]] = sent[Current[op]] + (Left[op] - n)
        /\ \A r \in Queued : op # "Write" \/ r # Current[op] => sent'[r] = sent[r]
    <2>1. CASE op = "Write"
      <3>1. sent[Current[op]] + (Left[op] - n) \in Nat
        BY <1>1, <1>3, <2>1
      <3> QED BY <1>1, <1>3, <2>1, <3>1
    <2>2. CASE op # "Write"
      BY <1>1, <2>2
    <2> QED BY <2>1, <2>2
  <1>7. RequestTypes'
    BY <1>1, <1>5, <1>6 DEF RequestTypes, Statuses
  <1>8. KindInv' /\ PlaceInv'
    BY <1>1 DEF KindInv, PlaceInv, InProgress
  <1>9. SizeInv'
    <2>1. op = "Write" => pc \notin {"start", "give"}
      BY <1>1, <1>2, <1>4 DEF StartInv, Starting
    <2>2. \A r \in Queued :
             r \in Waiting(WriteQueue) \/ r \notin submitted => sent'[r] = 0
      BY <1>1, <1>3, <1>6 DEF SizeInv
    <2>3. pc \in {"start", "give"} => sent'[Current["Write"]] = 0
      <3>1. pc \in {"start", "give"} => Current["Write"] \in Queued
        BY <1>1 DEF StartInv, Starting, KindInv
      <3> QED BY <1>1, <1>6, <2>1, <3>1 DEF SizeInv
    <2>4. Left'["Write"] > 0 =>
            Left'["Write"] = Cost(Current["Write"]) - sent'[Current["Write"]]
      <3>1. CASE op = "Write"
        <4>1. Left[op] = Cost(Current[op]) - sent[Current[op]]
          BY <1>1, <3>1 DEF SizeInv
        <4>2. Cost(Current[op]) \in Nat /\ sent[Current[op]] \in Nat /\ Left[op] \in Nat
          BY <1>1, <1>3, <3>1 DEF RequestTypes, Cost
        <4> QED BY <1>5, <1>6, <3>1, <4>1, <4>2
      <3>2. CASE op # "Write"
        BY <1>1, <1>5, <3>2 DEF SizeInv, OPS
      <3> QED BY <3>1, <3>2
    <2>5. Cost(Current["Write"])' = Cost(Current["Write"])
      BY DEF Cost
    <2> QED
      BY <1>1, <2>2, <2>3, <2>4, <2>5 DEF SizeInv
  <1>10. ReferenceInv'
    <2>1. Referred(op, Current[op])'
      BY <1>2, <1>4, <1>5 DEF Referred
    <2>2. ASSUME NEW o \in OPS, o # op
          PROVE  IF Current[o] = NULL THEN Unarmed(o)' ELSE Referred(o, Current[o])'
      <3>1. CASE Current[o] = NULL
        BY <1>1, <1>5, <2>2, <3>1 DEF ReferenceInv, Unarmed
      <3>2. CASE Current[o] # NULL
        <4>1. Referred(o, Current[o])
          BY <1>1, <3>2 DEF ReferenceInv
        <4> QED BY <1>5, <2>2, <3>2, <4>1 DEF Referred
      <3> QED BY <3>1, <3>2
    <2>3. \A r \in Requests :
             /\ ~InProgress(r)' => RefCount'[r] = {} /\ cancelState'[r] = "off"
             /\ cancelState'[r] = "off" <=> CancelRoutine'[r] = "none"
      BY <1>1 DEF ReferenceInv, InProgress
    <2> QED
      BY <1>2, <2>1, <2>2, <2>3 DEF ReferenceInv
  <1>11. StartInv'
    BY <1>1 DEF StartInv
  <1> QED
    BY <1>7, <1>8, <1>9, <1>10, <1>11 DEF WriteInv

LEMMA TransmitImmediateKeepsInv ==
    ASSUME WriteInv, TransmitImmediateChar
    PROVE  WriteInv'
  <1>1. /\ Left["Immediate"] > 0 /\ Left' = [Left EXCEPT !["Immediate"] = 0]
        /\ CompleteDpc' = [CompleteDpc EXCEPT !["Immediate"] = TRUE]
        /\ UNCHANGED isrFrame /\ UNCHANGED errorVars
        /\ sent' = sent /\ Information' = Information /\ Status' = Status
    BY DEF TransmitImmediateChar
  <1>2. Information' \in [Requests -> Nat] /\ Status' \in [Requests -> Statuses]
    BY <1>1 DEF WriteInv, RequestTypes, Statuses
  <1>3. "Immediate" \in OPS /\ 0 \in Nat /\ 0 < Left["Immediate"]
    BY <1>1 DEF OPS
  <1>4. Interrupted("Immediate", 0)
    BY <1>1, <1>2, <1>3 DEF Interrupted
  <1> QED
    BY <1>4, InterruptKeepsInv

LEMMA TransmitWriteKeepsInv ==
    ASSUME WriteInv, TransmitWrite
    PROVE  WriteInv'
  <1> DEFINE c == Current["Write"]
             n == Left["Write"] - AmountToWrite
  <1>1. "Write" \in OPS /\ Left["Write"] \in Nat \ {0}
    BY DEF WriteInv, RequestTypes, OPS, TransmitWrite
  <1>2. c # NULL
    BY <1>1 DEF WriteInv, ReferenceInv, Unarmed
  <1>3. /\ c \in Queued /\ c \in Requests
        /\ Cost(c) \in Nat
        /\ Information \in [Requests -> Nat] /\ Status \in [Requests -> Statuses]
    BY <1>1, <1>2, CurrentIsAlone DEF WriteInv, RequestTypes, Cost, Statuses
  <1>4. AmountToWrite \in Nat \ {0} /\ AmountToWrite <= Left["Write"]
    BY <1>1, WriteBoundsAssumption DEF AmountToWrite, Lesser
  <1>5. n \in Nat /\ n < Left["Write"] /\ AmountToWrite = Left["Write"] - n
    BY <1>1, <1>4
  <1>6. /\ Left' = [Left EXCEPT !["Write"] = n]
        /\ sent' = [sent EXCEPT ![c] = @ + AmountToWrite]
        /\ IF n = 0
             THEN /\ Information' = [Information EXCEPT ![c] = Cost(c)]
                  /\ CompleteDpc' = [CompleteDpc EXCEPT !["Write"] = TRUE]
             ELSE UNCHANGED <<Information, CompleteDpc>>
        /\ UNCHANGED isrFrame /\ UNCHANGED errorVars /\ Status' = Status
    BY DEF TransmitWrite
  <1> HIDE DEF n
  <1>7. /\ Information' \in [Requests -> Nat] /\ Status' \in [Requests -> Statuses]
        /\ CompleteDpc' = IF n = 0 THEN [CompleteDpc EXCEPT !["Write"] = TRUE]
                                   ELSE CompleteDpc
    BY <1>3, <1>6
  <1>8. sent' = [sent EXCEPT ![c] = @ + (Left["Write"] - n)]
    BY <1>5, <1>6
  <1>9. Interrupted("Write", n)
    BY <1>1, <1>5, <1>6, <1>7, <1>8 DEF Interrupted
  <1> QED
    BY <1>9, InterruptKeepsInv

LEMMA CountReceivedKeepsInv ==
    ASSUME WriteInv, CountReceived
    PROVE  WriteInv'
  <1> DEFINE c == Current["Xoff"]
             n == Left["Xoff"] - 1
  <1>1. "Xoff" \in OPS /\ Left["Xoff"] \in Nat \ {0}
    BY DEF WriteInv, RequestTypes, OPS, CountReceived
  <1>2. /\ Information \in [Requests -> Nat] /\ Status \in [Requests -> Statuses]
    BY DEF WriteInv, RequestTypes, Statuses
  <1>3. n \in Nat /\ n < Left["Xoff"] /\ (n = 0 <=> Left["Xoff"] = 1)
    BY <1>1
  <1>4. /\ Left' = [Left EXCEPT !["Xoff"] = n]
        /\ IF Left["Xoff"] = 1
             THEN /\ Status' = [Status EXCEPT ![c] = "SUCCESS"]
                  /\ Information' = [Information EXCEPT ![c] = 0]
                  /\ CompleteDpc' = [CompleteDpc EXCEPT !["Xoff"] = TRUE]
             ELSE UNCHANGED <<Status, Information, CompleteDpc>>
        /\ UNCHANGED isrFrame /\ UNCHANGED errorVars /\ sent' = sent
    BY DEF CountReceived
  <1> HIDE DEF n
  <1>5. /\ Information' \in [Requests -> Nat] /\ Status' \in [Requests -> Statuses]
        /\ CompleteDpc' = IF n = 0 THEN [CompleteDpc EXCEPT !["Xoff"] = TRUE]
                                   ELSE CompleteDpc
    BY <1>2, <1>3, <1>4 DEF Statuses
  <1>6. Interrupted("Xoff", n)
    BY <1>1, <1>3, <1>4, <1>5 DEF Interrupted
  <1> QED
    BY <1>6, InterruptKeepsInv

\* A request cancelled is taken off the queue, or its cancel routine dispatched.
LEMMA CancelledOffQueue ==
    ASSUME WriteInv, NEW r \in Requests, CancelRequest(r)
    PROVE  /\ WriteQueue' \in Seq(Queued) /\ NoRepeats(WriteQueue')
           /\ Waiting(WriteQueue) \subseteq Queued
           /\ \/ /\ r \in Waiting(WriteQueue)
                 /\ Waiting(WriteQueue') = Waiting(WriteQueue) \ {r}
                 /\ canceledOnQueue' = canceledOnQueue \cup {r}
              \/ UNCHANGED <<WriteQueue, canceledOnQueue>>
  <1>1. WriteQueue \in Seq(Queued) /\ NoRepeats(WriteQueue)
        /\ Waiting(WriteQueue) \subseteq Queued
    BY WaitingInQueue DEF WriteInv, RequestTypes, PlaceInv
  <1>2. CASE UNCHANGED <<WriteQueue, canceledOnQueue>>
    BY <1>1, <1>2
  <1>3. CASE /\ \E i \in 1 .. Len(WriteQueue) :
                   /\ WriteQueue[i] = r
                   /\ WriteQueue' = Without(WriteQueue, i)
             /\ canceledOnQueue' = canceledOnQueue \cup {r}
    <2>1. PICK i \in 1 .. Len(WriteQueue) :
             WriteQueue[i] = r /\ WriteQueue' = Without(WriteQueue, i)
      BY <1>3
    <2>2. r \in Waiting(WriteQueue)
      BY <2>1 DEF Waiting
    <2> QED
      BY <1>1, <1>3, <2>1, <2>2, WithoutProperties
  <1> QED
    BY <1>2, <1>3 DEF CancelRequest

LEMMA CancelRequestKeepsInv ==
    ASSUME WriteInv, NEW r \in Requests, CancelRequest(r)
    PROVE  WriteInv'
  <1>1. /\ WriteQueue' \in Seq(Queued) /\ NoRepeats(WriteQueue')
        /\ Waiting(WriteQueue) \subseteq Queued
        /\ \/ /\ r \in Waiting(WriteQueue)
              /\ Waiting(WriteQueue') = Waiting(WriteQueue) \ {r}
              /\ canceledOnQueue' = canceledOnQueue \cup {r}
           \/ UNCHANGED <<WriteQueue, canceledOnQueue>>
    BY CancelledOffQueue
  <1>2. /\ r \in submitted /\ completions[r] = 0
        /\ cancelAsked' = cancelAsked \cup {r}
        /\ cancelState' = [cancelState EXCEPT ![r] = IF @ = "on" THEN "fired" ELSE @]
        /\ UNCHANGED <<contextVars, WriteQueueStopped, viaQueue, RefCount,
                       CancelRoutine, Cancelled, Timer, endVars, flushVars, isrVars,
                       errorVars, Current, writeTimeout, pc>>
    BY DEF CancelRequest
  <1> USE DEF contextVars, endVars, flushVars, isrVars, errorVars
  <1>3. /\ cancelState' \in [Requests -> {"off", "on", "fired"}]
        /\ \A q \in Requests : cancelState'[q] = "off" <=> cancelState[q] = "off"
    BY <1>2 DEF WriteInv, RequestTypes
  <1>4. RequestTypes'
    <2>1. cancelAsked' \subseteq Requests /\ canceledOnQueue' \subseteq Queued
      BY <1>1, <1>2 DEF WriteInv, RequestTypes
    <2> QED
      BY <1>1, <1>2, <1>3, <2>1 DEF WriteInv, RequestTypes
  <1>5. KindInv' /\ StartInv'
    BY <1>2 DEF WriteInv, KindInv, StartInv
  <1>6. PlaceInv'
    <2>1. Waiting(WriteQueue') \cup canceledOnQueue' =
            Waiting(WriteQueue) \cup canceledOnQueue
          /\ Waiting(WriteQueue') \cap canceledOnQueue' = {}
      BY <1>1 DEF WriteInv, PlaceInv
    <2> QED
      BY <1>1, <1>2, <2>1 DEF WriteInv, PlaceInv, InProgress
  <1>7. SizeInv'
    <2>1. Waiting(WriteQueue') \subseteq Waiting(WriteQueue)
      BY <1>1
    <2> QED
      BY <1>2, <2>1 DEF WriteInv, SizeInv, Cost
  <1>8. ReferenceInv'
    <2>1. ASSUME NEW o \in OPS
          PROVE  IF Current[o] = NULL THEN Unarmed(o)' ELSE Referred(o, Current[o])'
      <3>1. CASE Current[o] = NULL
        BY <1>2, <3>1 DEF WriteInv, ReferenceInv, Unarmed
      <3>2. CASE Current[o] # NULL
        <4>1. Referred(o, Current[o]) /\ Current[o] \in Requests
          BY <3>2, CurrentIsAlone
        <4> QED BY <1>2, <1>3, <3>2, <4>1 DEF Referred
      <3> QED BY <3>1, <3>2
    <2> QED
      BY <1>2, <1>3, <2>1 DEF WriteInv, ReferenceInv, InProgress
  <1> QED
    BY <1>4, <1>5, <1>6, <1>7, <1>8 DEF WriteInv

-------------------------------------------------------------------------------
(* Giving a request to the interrupt *)

\* A request nothing refers to is marked cancelable, timed, and given to the
\* interrupt with n characters, in an operation where nothing is armed.
Arms(op, r, n, timed) ==
    /\ op \in OPS /\ r \in Requests /\ n \in Nat \ {0}
    /\ Unarmed(op) /\ cancelState[r] = "off" /\ CancelRoutine[r] = "none"
    /\ op = "Xoff" => (timed <=> Xc[r].Timeout)
    /\ MarkCancelable(r, op)
    /\ Left' = [Left EXCEPT ![op] = n]
    /\ Timer' = IF timed THEN [Timer EXCEPT ![op] = "set"] ELSE Timer
    /\ RefCount' = [RefCount EXCEPT ![r] = {"CANCEL", "ISR"} \cup
                      (IF timed /\ Timer[op] # "set" THEN {"TOTAL_TIMER"} ELSE {})]
    /\ CompleteDpc' = CompleteDpc

LEMMA ArmedProperties ==
    ASSUME RequestTypes, NEW op, NEW r, NEW n, NEW timed, Arms(op, r, n, timed),
           Xc' = Xc
    PROVE  /\ Referred(op, r)'
           /\ RefCount' \in [Requests -> SUBSET REFS] /\ RefCount'[r] # {}
           /\ cancelState' \in [Requests -> {"off", "on", "fired"}]
           /\ CancelRoutine' \in [Requests -> OPS \cup {"none"}]
           /\ Timer' \in [OPS -> {"off", "set", "fired"}] /\ Left' \in [OPS -> Nat]
           /\ Left'[op] = n
           /\ cancelState'[r] # "off" /\ CancelRoutine'[r] # "none"
           /\ \A o \in OPS : o # op => Timer'[o] = Timer[o] /\ Left'[o] = Left[o]
           /\ \A q \in Requests : q # r =>
                 /\ RefCount'[q] = RefCount[q] /\ cancelState'[q] = cancelState[q]
                 /\ CancelRoutine'[q] = CancelRoutine[q]
  <1>1. /\ op \in OPS /\ r \in Requests /\ n \in Nat \ {0}
        /\ Timer[op] = "off" /\ ~CompleteDpc[op]
        /\ op = "Xoff" => (timed <=> Xc[r].Timeout)
        /\ cancelState' = [cancelState EXCEPT
                             ![r] = IF r \in cancelAsked THEN "fired" ELSE "on"]
        /\ CancelRoutine' = [CancelRoutine EXCEPT ![r] = op]
        /\ Left' = [Left EXCEPT ![op] = n]
        /\ Timer' = IF timed THEN [Timer EXCEPT ![op] = "set"] ELSE Timer
        /\ RefCount' = [RefCount EXCEPT ![r] = {"CANCEL", "ISR"} \cup
                          (IF timed /\ Timer[op] # "set" THEN {"TOTAL_TIMER"} ELSE {})]
        /\ CompleteDpc' = CompleteDpc
    BY DEF Arms, Unarmed, MarkCancelable
  <1>2. /\ RefCount \in [Requests -> SUBSET REFS]
        /\ cancelState \in [Requests -> {"off", "on", "fired"}]
        /\ CancelRoutine \in [Requests -> OPS \cup {"none"}]
        /\ Timer \in [OPS -> {"off", "set", "fired"}] /\ Left \in [OPS -> Nat]
    BY DEF RequestTypes
  <1>3. /\ cancelState' \in [Requests -> {"off", "on", "fired"}]
        /\ CancelRoutine' \in [Requests -> OPS \cup {"none"}]
        /\ cancelState'[r] # "off" /\ CancelRoutine'[r] = op
        /\ \A q \in Requests : q # r =>
              cancelState'[q] = cancelState[q] /\ CancelRoutine'[q] = CancelRoutine[q]
    BY <1>1, <1>2
  <1>4. /\ Timer' \in [OPS -> {"off", "set", "fired"}] /\ Left' \in [OPS -> Nat]
        /\ Left'[op] = n /\ Timer'[op] = IF timed THEN "set" ELSE "off"
        /\ \A o \in OPS : o # op => Timer'[o] = Timer[o] /\ Left'[o] = Left[o]
    BY <1>1, <1>2
  <1>5. /\ RefCount' \in [Requests -> SUBSET REFS]
        /\ RefCount'[r] = {"CANCEL", "ISR"} \cup
                            (IF timed THEN {"TOTAL_TIMER"} ELSE {})
        /\ \A q \in Requests : q # r => RefCount'[q] = RefCount[q]
    BY <1>1, <1>2 DEF REFS
  <1>6. /\ "ISR" \in RefCount'[r] /\ "CANCEL" \in RefCount'[r]
        /\ "TOTAL_TIMER" \in RefCount'[r] <=> timed
    BY <1>5
  <1>7. Referred(op, r)'
    BY <1>1, <1>3, <1>4, <1>6 DEF Referred
  <1>8. op # "none"
    BY <1>1 DEF OPS
  <1> QED
    BY <1>3, <1>4, <1>5, <1>6, <1>7, <1>8

\* A current write nothing refers to leaves nothing armed.
LEMMA UnreferredWrite ==
    ASSUME WriteInv, pc \in Starting
    PROVE  /\ Current["Write"] # NULL /\ RefCount[Current["Write"]] = {}
           /\ Unarmed("Write")
           /\ cancelState[Current["Write"]] = "off"
           /\ CancelRoutine[Current["Write"]] = "none"
           /\ Left["Write"] = 0
  <1>1. /\ "Write" \in OPS /\ Current["Write"] # NULL
        /\ RefCount[Current["Write"]] = {}
    BY DEF WriteInv, StartInv, OPS
  <1>2. Referred("Write", Current["Write"]) /\ Current["Write"] \in Requests
    BY <1>1, CurrentIsAlone
  <1>3. /\ Left["Write"] \in Nat /\ CompleteDpc["Write"] \in BOOLEAN
    BY <1>1 DEF WriteInv, RequestTypes
  <1>4. Unarmed("Write") /\ cancelState[Current["Write"]] = "off"
    BY <1>1, <1>2, <1>3 DEF Referred, Unarmed
  <1> QED
    BY <1>1, <1>2, <1>4 DEF WriteInv, ReferenceInv, Unarmed

LEMMA SerialStartWriteKeepsInv ==
    ASSUME WriteInv, SerialStartWrite
    PROVE  WriteInv'
  <1> DEFINE r == Current["Write"]
  <1> USE DEF contextVars, queueVars, endVars, flushVars, errorVars, callbackFrame
  <1>1. /\ RequestTypes /\ KindInv /\ PlaceInv /\ SizeInv /\ ReferenceInv /\ StartInv
    BY DEF WriteInv
  <1>2. /\ pc = "give" /\ pc' = "idle"
        /\ UNCHANGED <<callbackFrame, CompleteDpc, Cancelled, endVars, Current>>
    BY DEF SerialStartWrite
  <1>3. /\ r # NULL /\ RefCount[r] = {} /\ Unarmed("Write")
        /\ cancelState[r] = "off" /\ CancelRoutine[r] = "none"
    BY <1>2, UnreferredWrite DEF Starting
  <1>4. /\ "Write" \in OPS /\ r \in Requests /\ r \in Queued /\ r \in submitted
        /\ completions[r] = 0 /\ InProgress(r)
        /\ \A o \in OPS : Current[o] = r => o = "Write"
    BY <1>3, CurrentIsAlone DEF OPS
  <1>5. Cost(r) \in Nat \ {0}
    <2>1. r \in Writes => Length[r] \in Nat /\ Length[r] > 0
      BY <1>1, <1>4 DEF RequestTypes, SizeInv
    <2> QED BY <2>1 DEF Cost
  <1>6. Arms("Write", r, Cost(r), writeTimeout)
    BY <1>2, <1>3, <1>4, <1>5 DEF Arms, SerialStartWrite
  <1>7. /\ Referred("Write", r)'
        /\ RefCount' \in [Requests -> SUBSET REFS] /\ RefCount'[r] # {}
        /\ cancelState' \in [Requests -> {"off", "on", "fired"}]
        /\ CancelRoutine' \in [Requests -> OPS \cup {"none"}]
        /\ Timer' \in [OPS -> {"off", "set", "fired"}] /\ Left' \in [OPS -> Nat]
        /\ Left'["Write"] = Cost(r)
        /\ cancelState'[r] # "off" /\ CancelRoutine'[r] # "none"
        /\ \A o \in OPS : o # "Write" => Timer'[o] = Timer[o] /\ Left'[o] = Left[o]
        /\ \A q \in Requests : q # r =>
              /\ RefCount'[q] = RefCount[q] /\ cancelState'[q] = cancelState[q]
              /\ CancelRoutine'[q] = CancelRoutine[q]
    BY <1>1, <1>2, <1>6, ArmedProperties
  <1>8. RequestTypes'
    BY <1>1, <1>2, <1>7 DEF RequestTypes
  <1>9. KindInv' /\ PlaceInv'
    BY <1>1, <1>2 DEF KindInv, PlaceInv, InProgress
  <1>10. SizeInv'
    <2>1. sent[r] = 0
      BY <1>1, <1>2 DEF SizeInv
    <2>2. Left'["Write"] = Cost(r) - sent'[r]
      BY <1>2, <1>5, <1>7, <2>1
    <2>3. Cost(r)' = Cost(r)
      BY <1>2 DEF Cost
    <2> QED
      BY <1>1, <1>2, <2>2, <2>3 DEF SizeInv
  <1>11. ReferenceInv'
    <2>1. ASSUME NEW o \in OPS, o # "Write"
          PROVE  IF Current[o] = NULL THEN Unarmed(o)' ELSE Referred(o, Current[o])'
      <3>1. CASE Current[o] = NULL
        BY <1>1, <1>2, <1>7, <2>1, <3>1 DEF ReferenceInv, Unarmed
      <3>2. CASE Current[o] # NULL
        <4>1. Referred(o, Current[o]) /\ Current[o] \in Requests /\ Current[o] # r
          BY <1>4, <2>1, <3>2, CurrentIsAlone
        <4> QED BY <1>2, <1>7, <2>1, <3>2, <4>1 DEF Referred
      <3> QED BY <3>1, <3>2
    <2>2. Referred("Write", Current["Write"])'
      BY <1>2, <1>7
    <2>3. \A q \in Requests :
             /\ ~InProgress(q)' => RefCount'[q] = {} /\ cancelState'[q] = "off"
             /\ cancelState'[q] = "off" <=> CancelRoutine'[q] = "none"
      BY <1>1, <1>2, <1>4, <1>7 DEF ReferenceInv, InProgress
    <2> QED
      BY <1>2, <1>3, <2>1, <2>2, <2>3 DEF ReferenceInv
  <1>12. StartInv'
    <2>1. \A op \in {"Xoff", "Immediate"} : Current[op] # NULL =>
             Current[op] \in Requests /\ Current[op] # r
      BY <1>4, CurrentIsAlone DEF OPS
    <2> QED BY <1>1, <1>2, <1>7, <2>1 DEF StartInv, Starting
  <1> QED
    BY <1>8, <1>9, <1>10, <1>11, <1>12 DEF WriteInv

\* A request cancelled on the queue is completed by its callback.
LEMMA CanceledOnQueueKeepsInv ==
    ASSUME WriteInv, NEW r \in Requests, SerialEvtCanceledOnQueue(r)
    PROVE  WriteInv'
  <1> USE DEF contextVars, referVars, flushVars, isrVars, errorVars
  <1>1. /\ r \in canceledOnQueue /\ canceledOnQueue' = canceledOnQueue \ {r}
        /\ completions' = [completions EXCEPT ![r] = @ + 1]
        /\ Status' = [Status EXCEPT ![r] = "CANCELLED"]
        /\ Information' = [Information EXCEPT ![r] = 0]
        /\ UNCHANGED <<contextVars, WriteQueue, WriteQueueStopped, viaQueue, referVars,
                       flushVars, isrVars, errorVars, Current, cancelAsked,
                       writeTimeout, pc>>
    BY DEF SerialEvtCanceledOnQueue, Finish
  <1>2. RequestTypes /\ PlaceInv /\ completions \in [Requests -> Nat]
    BY DEF WriteInv, RequestTypes
  <1>3. /\ r \in submitted /\ completions[r] = 0 /\ ~InProgress(r)
        /\ r \notin Waiting(WriteQueue)
    BY <1>1, <1>2 DEF PlaceInv
  <1>4. /\ completions' \in [Requests -> Nat] /\ completions'[r] = 1
        /\ \A q \in Requests : q # r => completions'[q] = completions[q]
    BY <1>1, <1>2, <1>3
  <1>5. RequestTypes'
    BY <1>1, <1>2, <1>4 DEF RequestTypes
  <1>6. KindInv' /\ ReferenceInv' /\ StartInv'
    BY <1>1 DEF WriteInv, KindInv, ReferenceInv, Referred, Unarmed, InProgress, StartInv
  <1>7. PlaceInv'
    <2>1. Waiting(WriteQueue) \subseteq Requests /\ canceledOnQueue \subseteq Requests
      BY <1>2, WaitingInQueue DEF RequestTypes, Requests
    <2>2. \A q : InProgress(q)' <=> InProgress(q)
      BY <1>1 DEF InProgress
    <2> QED
      BY <1>1, <1>2, <1>3, <1>4, <2>1, <2>2 DEF PlaceInv
  <1>8. SizeInv'
    <2>1. \A q \in submitted : completions'[q] = 0 => completions[q] = 0
      BY <1>2, <1>4 DEF RequestTypes
    <2> QED
      BY <1>1, <2>1 DEF WriteInv, SizeInv, Cost
  <1> QED
    BY <1>5, <1>6, <1>7, <1>8 DEF WriteInv

-------------------------------------------------------------------------------
(* SerialGetNextWrite *)

\* The request taken out of the queue, if any, is one nothing is known of yet.
LEMMA NextWriteTaken ==
    ASSUME WriteInv, SerialGetNextWrite,
           NEW next, next = IF NextWrite THEN Head(WriteQueue) ELSE NULL
    PROVE  /\ WriteQueue' \in Seq(Queued) /\ NoRepeats(WriteQueue')
           /\ viaQueue' \subseteq Queued
           /\ Waiting(WriteQueue) \subseteq Queued
           /\ Waiting(WriteQueue') = Waiting(WriteQueue) \ {next}
           /\ next \in Queued \cup {NULL}
           /\ next = NULL => pc' \in {"idle", "purgeXoff"}
           /\ next # NULL =>
                 /\ pc' = "start" /\ next \in Waiting(WriteQueue)
                 /\ next \in submitted /\ completions[next] = 0
                 /\ ~InProgress(next) /\ sent[next] = 0
                 /\ RefCount[next] = {} /\ cancelState[next] = "off"
  <1>1. /\ WriteQueue \in Seq(Queued) /\ NoRepeats(WriteQueue)
        /\ viaQueue \subseteq Queued /\ Waiting(WriteQueue) \subseteq Queued
        /\ NULL \notin Queued
    BY WaitingInQueue, WriteRequestsAssumption
    DEF WriteInv, RequestTypes, PlaceInv, Requests
  <1>2. IF next = NULL
          THEN /\ pc' = IF pc = "next" THEN "idle" ELSE "purgeXoff"
               /\ WriteQueue' = WriteQueue /\ viaQueue' = viaQueue
          ELSE /\ WriteQueue' = Tail(WriteQueue)
               /\ viaQueue' = viaQueue \cup {next} /\ pc' = "start"
    BY DEF SerialGetNextWrite, RestOfQueue
  <1>3. CASE next = NULL
    BY <1>1, <1>2, <1>3
  <1>4. CASE next # NULL
    <2>1. next = Head(WriteQueue) /\ WriteQueue # <<>>
      BY <1>4 DEF NextWrite
    <2>2. /\ next \in Queued /\ next \in Waiting(WriteQueue)
          /\ Tail(WriteQueue) \in Seq(Queued) /\ NoRepeats(Tail(WriteQueue))
          /\ Waiting(Tail(WriteQueue)) = Waiting(WriteQueue) \ {next}
      BY <1>1, <2>1, TailProperties
    <2>3. /\ next \in submitted /\ completions[next] = 0
          /\ ~InProgress(next) /\ sent[next] = 0
      BY <2>2 DEF WriteInv, PlaceInv, SizeInv
    <2>4. RefCount[next] = {} /\ cancelState[next] = "off"
      BY <2>2, <2>3 DEF WriteInv, ReferenceInv, Requests
    <2> QED
      BY <1>1, <1>2, <1>4, <2>2, <2>3, <2>4
  <1> QED
    BY <1>3, <1>4

\* What becomes of the write that was current: it starts to count, which arms the
\* counter's operation, or is completed.
LEMMA OldWriteEnds ==
    ASSUME WriteInv, SerialGetNextWrite, CounterMayStart,
           NEW r, r = Current["Write"]
    PROVE  \/ /\ BecomesXoff(r) /\ completions' = completions
              /\ Current["Xoff"] = NULL /\ Current'["Xoff"] = r
              /\ Xc[r].Counter \in Nat /\ Xc[r].Timeout \in BOOLEAN
              /\ Arms("Xoff", r, Xc[r].Counter, Xc[r].Timeout)
           \/ /\ completions' = [completions EXCEPT ![r] = 1]
              /\ Current'["Xoff"] = Current["Xoff"]
              /\ UNCHANGED <<RefCount, cancelState, CancelRoutine, Timer, Left>>
  <1>1. /\ pc \in {"next", "purgeNext"} /\ CompleteDpc' = CompleteDpc
        /\ \/ BecomesXoff(r) /\ StartXoff(r)
           \/ /\ ~BecomesXoff(r)
              /\ completions' = [completions EXCEPT ![r] = @ + 1]
              /\ UNCHANGED <<RefCount, cancelState, CancelRoutine, Timer, Left>>
    BY DEF SerialGetNextWrite
  <1>2. /\ Current' = [Current EXCEPT
                         !["Write"] = IF NextWrite THEN Head(WriteQueue) ELSE NULL,
                         !["Xoff"] = IF BecomesXoff(r) THEN r ELSE @]
    BY DEF SerialGetNextWrite
  <1>3. Current \in [OPS -> Requests \cup {NULL}] /\ "Xoff" \in OPS /\ "Write" \in OPS
    BY DEF WriteInv, RequestTypes, OPS
  <1>4. Current'["Xoff"] = IF BecomesXoff(r) THEN r ELSE Current["Xoff"]
    BY <1>2, <1>3
  <1>5. /\ r # NULL /\ cancelState[r] = "off" /\ CancelRoutine[r] = "none"
        /\ r \in Requests /\ r \in submitted /\ completions[r] = 0
    BY <1>1, <1>3, UnreferredWrite, CurrentIsAlone DEF Starting
  <1>6. CASE BecomesXoff(r) /\ StartXoff(r)
    <2>1. r \in XoffCounters /\ Current["Xoff"] = NULL
      BY <1>6 DEF CounterMayStart, BecomesXoff
    <2>2. Unarmed("Xoff")
      BY <1>3, <2>1 DEF WriteInv, ReferenceInv
    <2>3. Xc[r] \in [Counter : Nat, Timeout : BOOLEAN]
      BY <2>1 DEF WriteInv, RequestTypes
    <2>4. Xc[r].Counter \in Nat \ {0} /\ Xc[r].Timeout \in BOOLEAN
      BY <1>5, <2>1, <2>3 DEF WriteInv, SizeInv
    <2>5. Arms("Xoff", r, Xc[r].Counter, Xc[r].Timeout) /\ completions' = completions
      BY <1>1, <1>3, <1>5, <1>6, <2>2, <2>4 DEF Arms, StartXoff
    <2> QED
      BY <1>4, <1>6, <2>1, <2>4, <2>5
  <1>7. CASE /\ ~BecomesXoff(r)
             /\ completions' = [completions EXCEPT ![r] = @ + 1]
             /\ UNCHANGED <<RefCount, cancelState, CancelRoutine, Timer, Left>>
    BY <1>4, <1>5, <1>7
  <1> QED
    BY <1>1, <1>6, <1>7

LEMMA SerialGetNextWriteKeepsInv ==
    ASSUME WriteInv, SerialGetNextWrite, CounterMayStart
    PROVE  WriteInv'
  <1>0. PICK r, next : /\ r = Current["Write"]
                       /\ next = IF NextWrite THEN Head(WriteQueue) ELSE NULL
    OBVIOUS
  <1> USE DEF contextVars, flushVars, errorVars
  <1>1. /\ RequestTypes /\ KindInv /\ PlaceInv /\ SizeInv /\ ReferenceInv /\ StartInv
    BY DEF WriteInv
  <1>2. /\ pc \in {"next", "purgeNext"}
        /\ Current' = [Current EXCEPT !["Write"] = next,
                                      !["Xoff"] = IF BecomesXoff(r) THEN r ELSE @]
        /\ UNCHANGED <<contextVars, WriteQueueStopped, canceledOnQueue, Cancelled,
                       Information, Status, flushVars, CompleteDpc, sent, errorVars,
                       cancelAsked, writeTimeout>>
    BY <1>0 DEF SerialGetNextWrite
  <1>3. /\ r # NULL /\ RefCount[r] = {} /\ Unarmed("Write")
        /\ cancelState[r] = "off" /\ Left["Write"] = 0
    BY <1>0, <1>2, UnreferredWrite DEF Starting
  <1>4. /\ r \in Requests /\ r \in Queued /\ r \in submitted
        /\ completions[r] = 0 /\ InProgress(r)
        /\ r \notin Waiting(WriteQueue) \cup canceledOnQueue
        /\ \A o \in OPS : Current[o] = r => o = "Write"
    BY <1>0, <1>3, CurrentIsAlone DEF OPS
  <1>5. /\ WriteQueue' \in Seq(Queued) /\ NoRepeats(WriteQueue')
        /\ viaQueue' \subseteq Queued
        /\ Waiting(WriteQueue) \subseteq Queued
        /\ Waiting(WriteQueue') = Waiting(WriteQueue) \ {next}
        /\ next \in Queued \cup {NULL}
        /\ next = NULL => pc' \in {"idle", "purgeXoff"}
        /\ next # NULL =>
              /\ pc' = "start" /\ next \in Waiting(WriteQueue)
              /\ next \in submitted /\ completions[next] = 0
              /\ ~InProgress(next) /\ sent[next] = 0
              /\ RefCount[next] = {} /\ cancelState[next] = "off"
    BY <1>0, NextWriteTaken
  <1>6. \/ /\ BecomesXoff(r) /\ completions' = completions
           /\ Current["Xoff"] = NULL /\ Current'["Xoff"] = r
           /\ Xc[r].Counter \in Nat /\ Xc[r].Timeout \in BOOLEAN
           /\ Arms("Xoff", r, Xc[r].Counter, Xc[r].Timeout)
        \/ /\ completions' = [completions EXCEPT ![r] = 1]
           /\ Current'["Xoff"] = Current["Xoff"]
           /\ UNCHANGED <<RefCount, cancelState, CancelRoutine, Timer, Left>>
    BY <1>0, OldWriteEnds
  <1>7. /\ Current' \in [OPS -> Requests \cup {NULL}]
        /\ Current'["Write"] = next
        /\ Current'["Immediate"] = Current["Immediate"]
        /\ next # r /\ (next # NULL => next \in Requests)
    <2>1. Current \in [OPS -> Requests \cup {NULL}]
      BY <1>1 DEF RequestTypes
    <2>2. next # NULL => next \in Requests
      BY <1>5 DEF Requests
    <2> QED BY <1>2, <1>3, <1>4, <1>5, <2>1, <2>2 DEF OPS
  <1>8. /\ RefCount' \in [Requests -> SUBSET REFS]
        /\ cancelState' \in [Requests -> {"off", "on", "fired"}]
        /\ CancelRoutine' \in [Requests -> OPS \cup {"none"}]
        /\ Timer' \in [OPS -> {"off", "set", "fired"}] /\ Left' \in [OPS -> Nat]
        /\ completions' \in [Requests -> Nat]
        /\ \A o \in OPS : o # "Xoff" => Timer'[o] = Timer[o] /\ Left'[o] = Left[o]
        /\ \A q \in Requests : q # r =>
              /\ RefCount'[q] = RefCount[q] /\ cancelState'[q] = cancelState[q]
              /\ CancelRoutine'[q] = CancelRoutine[q]
              /\ completions'[q] = completions[q]
        /\ \/ /\ Current["Xoff"] = NULL /\ Current'["Xoff"] = r
              /\ Referred("Xoff", r)' /\ RefCount'[r] # {} /\ completions'[r] = 0
              /\ cancelState'[r] # "off" /\ CancelRoutine'[r] # "none"
              /\ r \in XoffCounters
           \/ /\ Current'["Xoff"] = Current["Xoff"] /\ completions'[r] = 1
              /\ UNCHANGED <<RefCount, cancelState, CancelRoutine, Timer, Left>>
    <2>1. CASE /\ BecomesXoff(r) /\ completions' = completions
               /\ Current["Xoff"] = NULL /\ Current'["Xoff"] = r
               /\ Arms("Xoff", r, Xc[r].Counter, Xc[r].Timeout)
      <3>1. /\ Referred("Xoff", r)'
            /\ RefCount' \in [Requests -> SUBSET REFS] /\ RefCount'[r] # {}
            /\ cancelState' \in [Requests -> {"off", "on", "fired"}]
            /\ CancelRoutine' \in [Requests -> OPS \cup {"none"}]
            /\ Timer' \in [OPS -> {"off", "set", "fired"}] /\ Left' \in [OPS -> Nat]
            /\ cancelState'[r] # "off" /\ CancelRoutine'[r] # "none"
            /\ \A o \in OPS : o # "Xoff" => Timer'[o] = Timer[o] /\ Left'[o] = Left[o]
            /\ \A q \in Requests : q # r =>
                  /\ RefCount'[q] = RefCount[q] /\ cancelState'[q] = cancelState[q]
                  /\ CancelRoutine'[q] = CancelRoutine[q]
        BY <1>1, <1>2, <2>1, ArmedProperties
      <3> QED
        BY <1>1, <1>4, <2>1, <3>1 DEF RequestTypes, BecomesXoff
    <2>2. CASE /\ completions' = [completions EXCEPT ![r] = 1]
               /\ Current'["Xoff"] = Current["Xoff"]
               /\ UNCHANGED <<RefCount, cancelState, CancelRoutine, Timer, Left>>
      BY <1>1, <1>4, <2>2 DEF RequestTypes
    <2> QED BY <1>6, <2>1, <2>2
  <1>9. \A q \in Requests : InProgress(q)' <=>
           \/ q = next \/ q = Current["Immediate"] \/ q = Current'["Xoff"]
    BY <1>7 DEF InProgress, OPS
  <1>10. \A q \in Requests : q # r /\ q # next => (InProgress(q)' <=> InProgress(q))
    BY <1>3, <1>4, <1>8, <1>9, <1>0, WriteRequestsAssumption DEF InProgress, OPS
  <1>11. InProgress(r)' <=> completions'[r] = 0
    <2>1. r # Current["Immediate"] /\ r # Current["Xoff"]
      BY <1>4 DEF OPS
    <2> QED BY <1>4, <1>7, <1>8, <1>9, <2>1
  <1>12. RequestTypes'
    <2>1. pc' \in {"idle", "next", "purgeNext", "start", "give", "purgeXoff"}
      BY <1>5
    <2> QED BY <1>1, <1>2, <1>5, <1>7, <1>8, <2>1 DEF RequestTypes
  <1>13. KindInv'
    <2>1. Current'["Xoff"] \in XoffCounters \cup {NULL}
      BY <1>1, <1>8 DEF KindInv
    <2>2. next # NULL => next # Current'["Xoff"]
      BY <1>5, <1>7, <1>8 DEF InProgress, OPS
    <2> QED BY <1>1, <1>5, <1>7, <2>1, <2>2 DEF KindInv
  <1>14. PlaceInv'
    <2>1. Waiting(WriteQueue) \subseteq Requests /\ canceledOnQueue \subseteq Requests
      BY <1>1, <1>5 DEF RequestTypes, Requests
    <2>2. Waiting(WriteQueue') \cap canceledOnQueue = {}
      BY <1>1, <1>5 DEF PlaceInv
    <2>3. \A q \in Waiting(WriteQueue') \cup canceledOnQueue :
             q \in submitted /\ completions'[q] = 0 /\ ~InProgress(q)'
      <3>1. TAKE q \in Waiting(WriteQueue') \cup canceledOnQueue
      <3>2. /\ q \in Waiting(WriteQueue) \cup canceledOnQueue
            /\ q # r /\ q # next /\ q \in Requests
        BY <1>1, <1>4, <1>5, <2>1, WriteRequestsAssumption DEF PlaceInv
      <3>3. q \in submitted /\ completions[q] = 0 /\ ~InProgress(q)
        BY <1>1, <3>2 DEF PlaceInv
      <3> QED BY <1>8, <1>10, <3>2, <3>3
    <2>4. \A q \in Requests : InProgress(q)' => q \in submitted /\ completions'[q] = 0
      <3>1. TAKE q \in Requests
      <3>2. CASE q = r
        BY <1>4, <1>11, <3>2
      <3>3. CASE q = next
        BY <1>5, <1>7, <1>8, <3>3, WriteRequestsAssumption
      <3>4. CASE q # r /\ q # next
        BY <1>1, <1>8, <1>10, <3>4 DEF PlaceInv
      <3> QED BY <3>2, <3>3, <3>4
    <2>5. \A q \in Requests : /\ q \notin submitted => completions'[q] = 0
                              /\ completions'[q] <= 1
      BY <1>1, <1>4, <1>8 DEF PlaceInv
    <2> QED BY <1>2, <1>5, <2>2, <2>3, <2>4, <2>5 DEF PlaceInv
  <1>15. SizeInv'
    <2>1. \A q \in submitted : completions'[q] = 0 => completions[q] = 0
      BY <1>1, <1>4, <1>8 DEF RequestTypes
    <2>2. Left'["Write"] = 0
      BY <1>3, <1>8 DEF OPS
    <2>3. pc' \in {"start", "give"} => sent[next] = 0
      BY <1>5
    <2>4. \A q \in Queued :
             q \in Waiting(WriteQueue') \/ q \notin submitted => sent[q] = 0
      BY <1>1, <1>5 DEF SizeInv
    <2>5. \A q \in submitted : completions'[q] = 0 =>
             /\ q \in Writes => Length[q] > 0
             /\ q \in XoffCounters => Xc[q].Counter > 0
      BY <1>1, <2>1 DEF SizeInv
    <2>6. ~(Left'["Write"] > 0)
      BY <2>2
    <2>7. \A q \in XoffCounters : Xc[q].Timeout => TRUE \in XoffTimeoutChoices
      BY <1>1 DEF SizeInv
    <2>8. Length' = Length /\ Xc' = Xc /\ submitted' = submitted /\ sent' = sent
      BY <1>2
    <2> QED
      BY <1>7, <2>3, <2>4, <2>5, <2>6, <2>7, <2>8 DEF SizeInv
  <1>16. ReferenceInv'
    <2>1. IF Current'["Write"] = NULL THEN Unarmed("Write")'
                                      ELSE Referred("Write", Current["Write"])'
      <3>1. Unarmed("Write")'
        BY <1>2, <1>3, <1>8 DEF Unarmed, OPS
      <3>2. next # NULL => RefCount'[next] = {} /\ cancelState'[next] = "off"
        BY <1>5, <1>7, <1>8
      <3>3. Left'["Write"] = 0 /\ ~CompleteDpc'["Write"] /\ Timer'["Write"] = "off"
        BY <3>1 DEF Unarmed
      <3> QED BY <1>7, <3>1, <3>2, <3>3 DEF Referred
    <2>2. IF Current'["Xoff"] = NULL THEN Unarmed("Xoff")'
                                     ELSE Referred("Xoff", Current["Xoff"])'
      <3>1. CASE Current'["Xoff"] = r /\ Referred("Xoff", r)'
        BY <1>3, <3>1
      <3>2. CASE /\ Current'["Xoff"] = Current["Xoff"]
                 /\ UNCHANGED <<RefCount, cancelState, CancelRoutine, Timer, Left>>
        <4>1. IF Current["Xoff"] = NULL THEN Unarmed("Xoff")
                                        ELSE Referred("Xoff", Current["Xoff"])
          BY <1>1 DEF ReferenceInv, OPS
        <4>2. CompleteDpc' = CompleteDpc /\ Xc' = Xc
          BY <1>2
        <4> QED BY <3>2, <4>1, <4>2 DEF Referred, Unarmed
      <3> QED BY <1>8, <3>1, <3>2
    <2>3. IF Current'["Immediate"] = NULL
            THEN Unarmed("Immediate")'
            ELSE Referred("Immediate", Current["Immediate"])'
      <3>1. /\ Timer'["Immediate"] = Timer["Immediate"]
            /\ Left'["Immediate"] = Left["Immediate"]
            /\ CompleteDpc' = CompleteDpc /\ Xc' = Xc
        BY <1>2, <1>8 DEF OPS
      <3>2. CASE Current["Immediate"] = NULL
        <4>1. Unarmed("Immediate")
          BY <1>1, <3>2 DEF ReferenceInv, OPS
        <4> QED BY <1>7, <3>1, <3>2, <4>1 DEF Unarmed
      <3>3. CASE Current["Immediate"] # NULL
        <4>1. /\ Referred("Immediate", Current["Immediate"])
              /\ Current["Immediate"] \in Requests /\ Current["Immediate"] # r
          BY <1>4, <3>3, CurrentIsAlone DEF OPS
        <4>2. LET i == Current["Immediate"]
              IN  /\ RefCount'[i] = RefCount[i] /\ cancelState'[i] = cancelState[i]
                  /\ CancelRoutine'[i] = CancelRoutine[i]
          BY <1>8, <4>1
        <4> QED BY <1>7, <3>1, <3>3, <4>1, <4>2 DEF Referred
      <3> QED BY <3>2, <3>3
    <2>4. \A q \in Requests :
             /\ ~InProgress(q)' => RefCount'[q] = {} /\ cancelState'[q] = "off"
             /\ cancelState'[q] = "off" <=> CancelRoutine'[q] = "none"
      <3>1. TAKE q \in Requests
      <3>2. CASE q = r
        BY <1>1, <1>3, <1>8, <1>11, <3>2 DEF ReferenceInv
      <3>3. CASE q = next
        BY <1>1, <1>5, <1>7, <1>8, <3>3, WriteRequestsAssumption DEF ReferenceInv
      <3>4. CASE q # r /\ q # next
        BY <1>1, <1>8, <1>10, <3>4 DEF ReferenceInv
      <3> QED BY <3>2, <3>3, <3>4
    <2> QED
      BY <1>7, <2>1, <2>2, <2>3, <2>4 DEF ReferenceInv, OPS
  <1>17. StartInv'
    <2>1. next # NULL => RefCount'[next] = {}
      BY <1>5, <1>7, <1>8
    <2>2. Current["Immediate"] # NULL =>
             /\ Current["Immediate"] \in Requests /\ Current["Immediate"] # r
             /\ RefCount[Current["Immediate"]] # {}
      BY <1>1, <1>4, CurrentIsAlone DEF OPS, StartInv
    <2>3. Current'["Xoff"] # NULL => RefCount'[Current'["Xoff"]] # {}
      BY <1>1, <1>8 DEF StartInv
    <2> QED BY <1>5, <1>7, <1>8, <2>1, <2>2, <2>3 DEF StartInv, Starting
  <1> QED
    BY <1>12, <1>13, <1>14, <1>15, <1>16, <1>17 DEF WriteInv

-------------------------------------------------------------------------------
(* New requests *)

\* Nothing is known of a request before it is submitted.
LEMMA Unsubmitted ==
    ASSUME WriteInv, NEW r \in Requests \ submitted
    PROVE  /\ r # NULL /\ ~InProgress(r) /\ completions[r] = 0
           /\ r \notin Waiting(WriteQueue) \cup canceledOnQueue
           /\ RefCount[r] = {} /\ cancelState[r] = "off" /\ CancelRoutine[r] = "none"
           /\ r \in Queued => sent[r] = 0
           /\ \A op \in OPS : Current[op] # r
  <1>1. ~InProgress(r) /\ completions[r] = 0
        /\ r \notin Waiting(WriteQueue) \cup canceledOnQueue
    BY DEF WriteInv, PlaceInv
  <1>2. r \in Queued => sent[r] = 0
    BY DEF WriteInv, SizeInv
  <1>3. RefCount[r] = {} /\ cancelState[r] = "off" /\ CancelRoutine[r] = "none"
    BY <1>1 DEF WriteInv, ReferenceInv
  <1>4. \A op \in OPS : Current[op] # r
    BY <1>1 DEF InProgress
  <1> QED
    BY <1>1, <1>2, <1>3, <1>4, WriteRequestsAssumption

\* A request refused is completed at once.
LEMMA RefusedKeepsInv ==
    ASSUME WriteInv, NEW r \in Requests \ submitted, NEW status \in Statuses,
           Refuse(r, status), submitted' = submitted \cup {r},
           UNCHANGED <<submitFrame, RefCount, cancelState, CancelRoutine, Timer, Left>>
    PROVE  WriteInv'
  <1> USE DEF submitFrame, flushVars, errorVars
  <1>1. /\ completions' = [completions EXCEPT ![r] = @ + 1]
        /\ Status' = [Status EXCEPT ![r] = status]
        /\ Information' = [Information EXCEPT ![r] = 0]
        /\ UNCHANGED <<Length, Xc, Current, pc, WriteQueue>>
    BY DEF Refuse, Finish
  <1>2. RequestTypes /\ PlaceInv /\ SizeInv /\ completions \in [Requests -> Nat]
    BY DEF WriteInv, RequestTypes
  <1>3. /\ ~InProgress(r) /\ completions[r] = 0
        /\ r \notin Waiting(WriteQueue) \cup canceledOnQueue
    BY Unsubmitted
  <1>4. /\ completions' \in [Requests -> Nat] /\ completions'[r] = 1
        /\ \A q \in Requests : q # r => completions'[q] = completions[q]
    BY <1>1, <1>2, <1>3
  <1>5. RequestTypes'
    <2>1. Status' \in [Requests -> Statuses] /\ Information' \in [Requests -> Nat]
      BY <1>1, <1>2 DEF RequestTypes, Statuses
    <2> QED BY <1>1, <1>2, <1>4, <2>1 DEF RequestTypes, Statuses
  <1>6. KindInv' /\ ReferenceInv' /\ StartInv'
    BY <1>1 DEF WriteInv, KindInv, ReferenceInv, Referred, Unarmed, InProgress, StartInv
  <1>7. PlaceInv'
    <2>1. Waiting(WriteQueue) \subseteq Requests /\ canceledOnQueue \subseteq Requests
      BY <1>2, WaitingInQueue DEF RequestTypes, Requests
    <2>2. \A q : InProgress(q)' <=> InProgress(q)
      BY <1>1 DEF InProgress
    <2> QED
      BY <1>1, <1>2, <1>3, <1>4, <2>1, <2>2 DEF PlaceInv
  <1>8. SizeInv'
    <2>1. \A q \in submitted' : completions'[q] = 0 =>
             q \in submitted /\ completions[q] = 0
      BY <1>2, <1>4 DEF RequestTypes
    <2> QED
      BY <1>1, <1>2, <2>1 DEF SizeInv, Cost
  <1> QED
    BY <1>5, <1>6, <1>7, <1>8 DEF WriteInv

\* A request accepted that travels through the queue.
Accepted(r) ==
    /\ r \in Queued /\ r \notin submitted /\ pc = "idle"
    /\ submitted' = submitted \cup {r}
    /\ Length' \in [Writes -> Nat]
    /\ Xc' \in [XoffCounters -> [Counter : Nat, Timeout : BOOLEAN]]
    /\ r \in Writes => Length'[r] > 0
    /\ r \in XoffCounters => /\ Xc'[r].Counter > 0
                             /\ Xc'[r].Timeout => TRUE \in XoffTimeoutChoices
    /\ \A q \in Writes : q # r => Length'[q] = Length[q]
    /\ \A q \in XoffCounters : q # r => Xc'[q] = Xc[q]
    /\ StartOrQueue(r)
    /\ UNCHANGED <<endVars, submitFrame, RefCount, cancelState, CancelRoutine, Timer,
                   Left>>

LEMMA AcceptedKeepsInv ==
    ASSUME WriteInv, NEW r, Accepted(r)
    PROVE  WriteInv'
  <1> USE DEF submitFrame, flushVars, errorVars, endVars
  <1>1. /\ RequestTypes /\ KindInv /\ PlaceInv /\ SizeInv /\ ReferenceInv /\ StartInv
    BY DEF WriteInv
  <1>2. /\ r \in Queued /\ r \in Requests \ submitted
        /\ submitted' = submitted \cup {r} /\ pc = "idle"
        /\ UNCHANGED <<endVars, submitFrame, RefCount, cancelState, CancelRoutine,
                       Timer, Left>>
    BY DEF Accepted, Requests
  <1>3. /\ Length' \in [Writes -> Nat]
        /\ Xc' \in [XoffCounters -> [Counter : Nat, Timeout : BOOLEAN]]
        /\ r \in Writes => Length'[r] > 0
        /\ r \in XoffCounters => /\ Xc'[r].Counter > 0
                                 /\ Xc'[r].Timeout => TRUE \in XoffTimeoutChoices
        /\ \A q \in Writes : q # r => Length'[q] = Length[q]
        /\ \A q \in XoffCounters : q # r => Xc'[q] = Xc[q]
    BY DEF Accepted
  <1>4. /\ r # NULL /\ ~InProgress(r) /\ completions[r] = 0
        /\ r \notin Waiting(WriteQueue) \cup canceledOnQueue
        /\ RefCount[r] = {} /\ cancelState[r] = "off"
        /\ sent[r] = 0 /\ \A op \in OPS : Current[op] # r
    BY <1>2, Unsubmitted
  <1>5. \/ /\ Current["Write"] = NULL
           /\ Current' = [Current EXCEPT !["Write"] = r]
           /\ pc' = "start" /\ WriteQueue' = WriteQueue
        \/ WriteQueue' = Append(WriteQueue, r) /\ Current' = Current /\ pc' = pc
    BY DEF Accepted, StartOrQueue
  <1>6. /\ WriteQueue' \in Seq(Queued) /\ NoRepeats(WriteQueue')
        /\ Waiting(WriteQueue') \subseteq Waiting(WriteQueue) \cup {r}
        /\ Current' # Current => Waiting(WriteQueue') = Waiting(WriteQueue)
    <2>1. WriteQueue \in Seq(Queued) /\ NoRepeats(WriteQueue)
      BY <1>1 DEF RequestTypes, PlaceInv
    <2>2. /\ Append(WriteQueue, r) \in Seq(Queued) /\ NoRepeats(Append(WriteQueue, r))
          /\ Waiting(Append(WriteQueue, r)) = Waiting(WriteQueue) \cup {r}
      BY <1>2, <1>4, <2>1, AppendToQueue
    <2> QED BY <1>5, <2>1, <2>2
  <1>7. /\ Current' \in [OPS -> Requests \cup {NULL}]
        /\ Current'["Xoff"] = Current["Xoff"]
        /\ Current'["Immediate"] = Current["Immediate"]
        /\ \/ Current["Write"] = NULL /\ Current'["Write"] = r /\ pc' = "start"
              /\ WriteQueue' = WriteQueue
           \/ Current' = Current /\ pc' = "idle"
    BY <1>1, <1>2, <1>5 DEF RequestTypes, OPS
  <1>8. RequestTypes'
    <2>1. submitted' \subseteq Requests
          /\ pc' \in {"idle", "next", "purgeNext", "start", "give", "purgeXoff"}
      BY <1>1, <1>2, <1>7 DEF RequestTypes
    <2> QED BY <1>1, <1>2, <1>3, <1>6, <1>7, <2>1 DEF RequestTypes
  <1>9. KindInv'
    BY <1>1, <1>2, <1>4, <1>7 DEF KindInv, OPS
  <1>10. \A q \in Requests : q # r => (InProgress(q)' <=> InProgress(q))
    BY <1>4, <1>7, WriteRequestsAssumption DEF InProgress, OPS
  <1>11. PlaceInv'
    <2>1. Waiting(WriteQueue) \subseteq Requests /\ canceledOnQueue \subseteq Requests
      BY <1>1, WaitingInQueue DEF RequestTypes, PlaceInv, Requests
    <2>2. Waiting(WriteQueue') \cap canceledOnQueue' = {}
      BY <1>1, <1>2, <1>4, <1>6 DEF PlaceInv
    <2>3. \A q \in Waiting(WriteQueue') \cup canceledOnQueue' :
             q \in submitted' /\ completions'[q] = 0 /\ ~InProgress(q)'
      <3>1. TAKE q \in Waiting(WriteQueue') \cup canceledOnQueue'
      <3>2. CASE q = r
        <4>1. r \in Waiting(WriteQueue')
          BY <1>2, <1>4, <3>2
        <4>2. Current' = Current
          BY <1>4, <1>6, <4>1
        <4>3. ~InProgress(r)'
          BY <1>4, <4>2 DEF InProgress
        <4> QED BY <1>2, <1>4, <3>2, <4>3
      <3>3. CASE q # r
        <4>1. q \in Waiting(WriteQueue) \cup canceledOnQueue /\ q \in Requests
          BY <1>2, <1>6, <2>1, <3>3
        <4> QED BY <1>1, <1>2, <1>10, <3>3, <4>1 DEF PlaceInv
      <3> QED BY <3>2, <3>3
    <2>4. \A q \in Requests : InProgress(q)' => q \in submitted' /\ completions'[q] = 0
      BY <1>1, <1>2, <1>4, <1>10 DEF PlaceInv
    <2>5. \A q \in Requests : /\ q \notin submitted' => completions'[q] = 0
                              /\ completions'[q] <= 1
      BY <1>1, <1>2 DEF PlaceInv
    <2> QED BY <1>6, <2>2, <2>3, <2>4, <2>5 DEF PlaceInv
  <1>12. SizeInv'
    <2>1. \A q \in submitted' : completions'[q] = 0 =>
             /\ q \in Writes => Length'[q] > 0
             /\ q \in XoffCounters => Xc'[q].Counter > 0
      BY <1>1, <1>2, <1>3 DEF SizeInv
    <2>2. \A q \in XoffCounters : Xc'[q].Timeout => TRUE \in XoffTimeoutChoices
      BY <1>1, <1>3 DEF SizeInv
    <2>3. \A q \in Queued : q \in Waiting(WriteQueue') \/ q \notin submitted' =>
             sent'[q] = 0
      BY <1>1, <1>2, <1>4, <1>6 DEF SizeInv
    <2>4. pc' \in {"start", "give"} => sent'[Current'["Write"]] = 0
      BY <1>2, <1>4, <1>7
    <2>5. ASSUME Left'["Write"] > 0
          PROVE  Left'["Write"] = Cost(Current["Write"])' - sent'[Current'["Write"]]
      <3>1. Left["Write"] > 0 /\ "Write" \in OPS
        BY <1>2, <2>5 DEF OPS
      <3>2. Current["Write"] # NULL
        BY <1>1, <3>1 DEF ReferenceInv, Unarmed
      <3>3. Current' = Current /\ Current["Write"] # r
        BY <1>4, <1>7, <3>1, <3>2
      <3>4. Cost(Current["Write"])' = Cost(Current["Write"])
        BY <1>3, <3>3 DEF Cost
      <3> QED BY <1>1, <1>2, <3>1, <3>3, <3>4 DEF SizeInv
    <2> QED BY <2>1, <2>2, <2>3, <2>4, <2>5 DEF SizeInv
  <1>13. ReferenceInv'
    <2>1. ASSUME NEW op \in OPS
          PROVE  IF Current'[op] = NULL THEN Unarmed(op)'
                                        ELSE Referred(op, Current[op])'
      <3>1. Unarmed(op)' <=> Unarmed(op)
        BY <1>2 DEF Unarmed
      <3>2. CASE Current'[op] = r
        <4>1. op = "Write" /\ Current["Write"] = NULL
          BY <1>4, <1>7, <3>2 DEF OPS
        <4>2. Unarmed("Write")
          BY <1>1, <4>1 DEF ReferenceInv
        <4>3. RefCount'[r] = {} /\ cancelState'[r] = "off"
          BY <1>2, <1>4
        <4> QED BY <1>2, <1>4, <3>2, <4>1, <4>2, <4>3 DEF Referred, Unarmed
      <3>3. CASE Current'[op] # r
        <4>1. Current'[op] = Current[op]
          BY <1>7, <3>3 DEF OPS
        <4>2. IF Current[op] = NULL THEN Unarmed(op) ELSE Referred(op, Current[op])
          BY <1>1 DEF ReferenceInv
        <4>3. CASE Current[op] = NULL
          BY <3>1, <4>1, <4>2, <4>3
        <4>4. CASE Current[op] # NULL
          <5>1. op = "Xoff" => Xc'[Current[op]] = Xc[Current[op]]
            BY <1>1, <1>3, <3>3, <4>1, <4>4 DEF KindInv
          <5> QED BY <1>2, <4>1, <4>2, <4>4, <5>1 DEF Referred
        <4> QED BY <4>3, <4>4
      <3> QED BY <3>2, <3>3
    <2>2. \A q \in Requests :
             /\ ~InProgress(q)' => RefCount'[q] = {} /\ cancelState'[q] = "off"
             /\ cancelState'[q] = "off" <=> CancelRoutine'[q] = "none"
      BY <1>1, <1>2, <1>4, <1>10 DEF ReferenceInv
    <2> QED BY <2>1, <2>2 DEF ReferenceInv
  <1>14. StartInv'
    BY <1>1, <1>2, <1>4, <1>7 DEF StartInv, Starting
  <1> QED
    BY <1>8, <1>9, <1>11, <1>12, <1>13, <1>14 DEF WriteInv

LEMMA SubmitWriteKeepsInv ==
    ASSUME WriteInv, NEW r \in Writes, NEW n \in 1 .. MaxLength, SerialEvtIoWrite(r, n)
    PROVE  WriteInv'
  <1>1. /\ r \in Requests \ submitted /\ submitted' = submitted \cup {r}
        /\ "CANCELLED" \in Statuses
    BY DEF SerialEvtIoWrite, Requests, Queued, Statuses
  <1>2. CASE Refuse(r, "CANCELLED")
    BY <1>1, <1>2, RefusedKeepsInv DEF SerialEvtIoWrite
  <1>3. CASE /\ Length' = [Length EXCEPT ![r] = n]
             /\ StartOrQueue(r) /\ UNCHANGED <<Xc, endVars>>
    <2>1. n \in Nat /\ n > 0
      BY WriteBoundsAssumption
    <2>2. /\ Length \in [Writes -> Nat]
          /\ Xc \in [XoffCounters -> [Counter : Nat, Timeout : BOOLEAN]]
          /\ r \notin XoffCounters
      BY WriteRequestsAssumption DEF WriteInv, RequestTypes
    <2>3. /\ Length' \in [Writes -> Nat] /\ Length'[r] > 0
          /\ \A q \in Writes : q # r => Length'[q] = Length[q]
      BY <1>3, <2>1, <2>2
    <2>4. Accepted(r)
      BY <1>1, <1>3, <2>2, <2>3 DEF Accepted, SerialEvtIoWrite, Queued
    <2> QED BY <2>4, AcceptedKeepsInv
  <1> QED
    BY <1>2, <1>3 DEF SerialEvtIoWrite

LEMMA SubmitXoffKeepsInv ==
    ASSUME WriteInv, NEW r \in XoffCounters, NEW n \in 1 .. MaxCounter,
           NEW t \in XoffTimeoutChoices, XoffCounter(r, n, t)
    PROVE  WriteInv'
  <1>1. /\ r \in Requests \ submitted /\ submitted' = submitted \cup {r}
        /\ "CANCELLED" \in Statuses
    BY DEF XoffCounter, Requests, Queued, Statuses
  <1>2. CASE Refuse(r, "CANCELLED")
    BY <1>1, <1>2, RefusedKeepsInv DEF XoffCounter
  <1>3. CASE /\ Xc' = [Xc EXCEPT ![r] = [Counter |-> n, Timeout |-> t]]
             /\ StartOrQueue(r) /\ UNCHANGED <<Length, endVars>>
    <2>1. n \in Nat /\ n > 0 /\ t \in BOOLEAN /\ (t => TRUE \in XoffTimeoutChoices)
      <3>1. n \in Nat /\ n > 0
        BY WriteBoundsAssumption
      <3>2. t = TRUE \/ t = FALSE
        BY WriteFlagsAssumption, Zenon
      <3> QED BY <3>1, <3>2, Zenon
    <2>2. /\ Length \in [Writes -> Nat]
          /\ Xc \in [XoffCounters -> [Counter : Nat, Timeout : BOOLEAN]]
          /\ r \notin Writes
      BY WriteRequestsAssumption DEF WriteInv, RequestTypes
    <2>3. /\ Xc' \in [XoffCounters -> [Counter : Nat, Timeout : BOOLEAN]]
          /\ Xc'[r].Counter > 0 /\ (Xc'[r].Timeout => TRUE \in XoffTimeoutChoices)
          /\ \A q \in XoffCounters : q # r => Xc'[q] = Xc[q]
      BY <1>3, <2>1, <2>2
    <2>4. Accepted(r)
      BY <1>1, <1>3, <2>2, <2>3 DEF Accepted, XoffCounter, Queued
    <2> QED BY <2>4, AcceptedKeepsInv
  <1> QED
    BY <1>2, <1>3 DEF XoffCounter

LEMMA SubmitImmediateKeepsInv ==
    ASSUME WriteInv, NEW r \in Immediates, ImmediateChar(r)
    PROVE  WriteInv'
  <1> USE DEF submitFrame, flushVars, errorVars, endVars
  <1>1. /\ r \in Requests \ submitted /\ submitted' = submitted \cup {r}
        /\ pc = "idle" /\ UNCHANGED submitFrame /\ r \notin Queued
    BY WriteRequestsAssumption DEF ImmediateChar, Requests
  <1>2. CASE /\ Refuse(r, IF RefusedForError THEN "CANCELLED" ELSE "INVALID_PARAMETER")
             /\ UNCHANGED <<RefCount, cancelState, CancelRoutine, Timer, Left>>
    <2>1. (IF RefusedForError THEN "CANCELLED" ELSE "INVALID_PARAMETER") \in Statuses
      BY DEF Statuses
    <2> HIDE DEF submitFrame
    <2> QED BY <1>1, <1>2, <2>1, RefusedKeepsInv
  <1>3. CASE /\ ~ImmediateTaken /\ StartImmediate(r)
             /\ UNCHANGED <<Length, Xc, endVars, pc, WriteQueue>>
    <2>1. /\ RequestTypes /\ KindInv /\ PlaceInv /\ SizeInv /\ ReferenceInv /\ StartInv
          /\ Current["Immediate"] = NULL /\ "Immediate" \in OPS
      BY <1>3 DEF WriteInv, ImmediateTaken, OPS
    <2>2. /\ r # NULL /\ ~InProgress(r) /\ completions[r] = 0
          /\ r \notin Waiting(WriteQueue) \cup canceledOnQueue
          /\ cancelState[r] = "off" /\ CancelRoutine[r] = "none"
          /\ \A op \in OPS : Current[op] # r
      BY <1>1, Unsubmitted
    <2>3. /\ Current' = [Current EXCEPT !["Immediate"] = r]
          /\ Current \in [OPS -> Requests \cup {NULL}]
      BY <1>3, <2>1 DEF StartImmediate, RequestTypes
    <2>4. /\ Current' \in [OPS -> Requests \cup {NULL}]
          /\ Current'["Write"] = Current["Write"]
          /\ Current'["Xoff"] = Current["Xoff"]
          /\ Current'["Immediate"] = r
      BY <1>1, <2>3 DEF OPS
    <2>5. Arms("Immediate", r, 1, writeTimeout)
      BY <1>1, <1>3, <2>1, <2>2 DEF Arms, StartImmediate, ReferenceInv
    <2>6. /\ Referred("Immediate", r)'
          /\ RefCount' \in [Requests -> SUBSET REFS] /\ RefCount'[r] # {}
          /\ cancelState' \in [Requests -> {"off", "on", "fired"}]
          /\ CancelRoutine' \in [Requests -> OPS \cup {"none"}]
          /\ Timer' \in [OPS -> {"off", "set", "fired"}] /\ Left' \in [OPS -> Nat]
          /\ cancelState'[r] # "off" /\ CancelRoutine'[r] # "none"
          /\ \A o \in OPS : o # "Immediate" =>
                Timer'[o] = Timer[o] /\ Left'[o] = Left[o]
          /\ \A q \in Requests : q # r =>
                /\ RefCount'[q] = RefCount[q] /\ cancelState'[q] = cancelState[q]
                /\ CancelRoutine'[q] = CancelRoutine[q]
      BY <1>3, <2>1, <2>5, ArmedProperties
    <2>7. \A q \in Requests : InProgress(q)' <=> InProgress(q) \/ q = r
      BY <2>1, <2>4, WriteRequestsAssumption DEF InProgress, OPS
    <2>8. RequestTypes'
      <3>1. submitted' \subseteq Requests
        BY <1>1, <2>1 DEF RequestTypes
      <3> QED BY <1>1, <1>3, <2>1, <2>4, <2>6, <3>1 DEF RequestTypes
    <2>9. KindInv'
      BY <2>1, <2>4 DEF KindInv
    <2>10. PlaceInv'
      <3>1. Waiting(WriteQueue) \subseteq Requests /\ canceledOnQueue \subseteq Requests
        BY <2>1, WaitingInQueue DEF RequestTypes, PlaceInv, Requests
      <3> QED BY <1>1, <1>3, <2>1, <2>2, <2>7, <3>1 DEF PlaceInv
    <2>11. SizeInv'
      <3>1. \A q \in submitted' : completions'[q] = 0 =>
               /\ q \in Writes => Length'[q] > 0
               /\ q \in XoffCounters => Xc'[q].Counter > 0
        BY <1>1, <1>3, <2>1 DEF SizeInv, Queued
      <3>2. \A q \in Queued : q \in Waiting(WriteQueue') \/ q \notin submitted' =>
               sent'[q] = 0
        BY <1>1, <1>3, <2>1 DEF SizeInv
      <3>3. Left'["Write"] = Left["Write"]
        BY <2>6 DEF OPS
      <3>4. Left'["Write"] > 0 =>
               Left'["Write"] = Cost(Current["Write"])' - sent'[Current'["Write"]]
        BY <1>1, <1>3, <2>1, <2>4, <3>3 DEF SizeInv, Cost
      <3> QED BY <1>1, <1>3, <2>1, <2>4, <3>1, <3>2, <3>4 DEF SizeInv
    <2>12. ReferenceInv'
      <3>1. ASSUME NEW o \in OPS, o # "Immediate"
            PROVE  IF Current'[o] = NULL THEN Unarmed(o)' ELSE Referred(o, Current[o])'
        <4>1. Current'[o] = Current[o]
          BY <2>3, <3>1
        <4>2. CASE Current[o] = NULL
          BY <1>1, <2>1, <2>6, <3>1, <4>1, <4>2 DEF ReferenceInv, Unarmed
        <4>3. CASE Current[o] # NULL
          <5>1. Referred(o, Current[o]) /\ Current[o] \in Requests /\ Current[o] # r
            BY <2>2, <4>3, CurrentIsAlone
          <5> QED BY <1>1, <1>3, <2>6, <3>1, <4>1, <4>3, <5>1 DEF Referred
        <4> QED BY <4>2, <4>3
      <3>2. IF Current'["Immediate"] = NULL THEN Unarmed("Immediate")'
            ELSE Referred("Immediate", Current["Immediate"])'
        BY <2>2, <2>4, <2>6
      <3>3. \A q \in Requests :
               /\ ~InProgress(q)' => RefCount'[q] = {} /\ cancelState'[q] = "off"
               /\ cancelState'[q] = "off" <=> CancelRoutine'[q] = "none"
        BY <2>1, <2>6, <2>7 DEF ReferenceInv
      <3> QED BY <3>1, <3>2, <3>3 DEF ReferenceInv
    <2>13. StartInv'
      <3>1. \A op \in OPS : Current[op] # NULL =>
               Current[op] \in Requests /\ Current[op] # r
        BY <2>2, CurrentIsAlone
      <3>2. \A op \in {"Write", "Xoff"} : Current[op] # NULL =>
               RefCount'[Current[op]] = RefCount[Current[op]]
        BY <2>6, <3>1 DEF OPS
      <3> QED BY <1>1, <1>3, <2>1, <2>2, <2>4, <2>6, <3>2 DEF StartInv, Starting
    <2> QED
      BY <2>8, <2>9, <2>10, <2>11, <2>12, <2>13 DEF WriteInv
  <1> QED
    BY <1>2, <1>3 DEF ImmediateChar

-------------------------------------------------------------------------------
(* The invariant holds *)

LEMMA InitEstablishesInv ==
    ASSUME Init
    PROVE  WriteInv
  <1>1. /\ Current = [op \in OPS |-> NULL]
        /\ \A r : ~(r \in Requests /\ InProgress(r))
    BY WriteRequestsAssumption DEF Init, InProgress, OPS
  <1>2. <<>> \in Seq(Queued) /\ NoRepeats(<<>>) /\ Waiting(<<>>) = {}
    BY EmptyQueue
  <1>3. RequestTypes
    BY <1>2, WriteFlagsAssumption DEF Init, RequestTypes, Queued, Requests, OPS
  <1>4. KindInv /\ PlaceInv /\ StartInv
    BY <1>1, <1>2 DEF Init, KindInv, PlaceInv, StartInv, Starting, OPS, Queued, Requests
  <1>5. SizeInv
    <2>1. \A r \in XoffCounters : ~Xc[r].Timeout
      BY DEF Init
    <2>2. /\ submitted = {} /\ pc = "idle" /\ ~(Left["Write"] > 0)
          /\ \A r \in Queued : sent[r] = 0
      BY DEF Init, OPS
    <2> QED BY <2>1, <2>2 DEF SizeInv
  <1>6. ReferenceInv
    BY <1>1 DEF Init, ReferenceInv, Unarmed, OPS
  <1> QED
    BY <1>3, <1>4, <1>5, <1>6 DEF WriteInv

LEMMA NextKeepsInv ==
    ASSUME WriteInv, [Next]_vars, SerialGetNextWrite => CounterMayStart
    PROVE  WriteInv'
  <1>1. CASE UNCHANGED vars
    BY <1>1, SettingsKeepInv
  <1>2. CASE SubmitWrite \/ SubmitXoff \/ SubmitImmediate
    BY <1>2, SubmitWriteKeepsInv, SubmitXoffKeepsInv, SubmitImmediateKeepsInv
    DEF SubmitWrite, SubmitXoff, SubmitImmediate
  <1>3. CASE \/ StartPurge \/ GetCommStatus
             \/ \E t \in WriteTimeoutChoices : SetTimeouts(t)
             \/ \E f \in Flushes : FlushStopsQueue(f) \/ FlushEnds(f)
    BY <1>3, PurgesKeepInv, SettingsKeepInv
  <1>4. CASE Continue
    BY <1>4, SerialGetNextWriteKeepsInv, OvertakeXoffKeepsInv, SerialStartWriteKeepsInv,
       PurgesKeepInv DEF Continue
  <1>5. CASE Callback
    BY <1>5, SerialCompleteKeepsInv, SerialTimeoutKeepsInv, PurgesKeepInv,
       SerialCancelCurrentKeepsInv, CanceledOnQueueKeepsInv DEF Callback
  <1>6. CASE (\E op \in OPS : TimerExpires(op)) \/ \E r \in Requests : CancelRequest(r)
    BY <1>6, TimerExpiresKeepsInv, CancelRequestKeepsInv
  <1>7. CASE TransmitImmediateChar \/ TransmitWrite \/ CountReceived \/ LineError
    BY <1>7, TransmitImmediateKeepsInv, TransmitWriteKeepsInv, CountReceivedKeepsInv,
       SettingsKeepInv
  <1> QED
    BY <1>1, <1>2, <1>3, <1>4, <1>5, <1>6, <1>7, Zenon DEF Next

\* What XoffEndsBeforeNext asks of every step ...
XoffEnds == Current["Xoff"] # NULL => Current'["Xoff"] \in {NULL, Current["Xoff"]}

LEMMA CounterStartsAlone ==
    ASSUME WriteInv, XoffEnds, SerialGetNextWrite
    PROVE  CounterMayStart
  <1>1. ASSUME BecomesXoff(Current["Write"]), Current["Xoff"] # NULL
        PROVE  FALSE
    <2>1. Current["Write"] # NULL /\ Current["Write"] # Current["Xoff"]
      BY <1>1, UnreferredWrite DEF SerialGetNextWrite, Starting, WriteInv, KindInv
    <2>2. Current'["Xoff"] = Current["Write"]
      BY <1>1 DEF SerialGetNextWrite, WriteInv, RequestTypes, OPS
    <2> QED BY <1>1, <2>1, <2>2 DEF XoffEnds
  <1> QED
    BY <1>1 DEF CounterMayStart

LEMMA StepKeepsInv ==
    ASSUME WriteInv, [Next]_vars, [XoffEnds]_vars
    PROVE  WriteInv'
  <1>1. CASE UNCHANGED vars
    BY <1>1, SettingsKeepInv
  <1>2. CASE Next /\ XoffEnds
    BY <1>2, CounterStartsAlone, NextKeepsInv
  <1> QED
    BY <1>1, <1>2

\* ... and what a single counter cannot do: take its own place.
OneCounter == \A x, y \in XoffCounters : x = y

LEMMA OneCounterMayStart ==
    ASSUME WriteInv, OneCounter, SerialGetNextWrite
    PROVE  CounterMayStart
  <1>1. Current["Write"] # NULL
    BY UnreferredWrite DEF SerialGetNextWrite, Starting
  <1> QED
    BY <1>1 DEF CounterMayStart, OneCounter, BecomesXoff, WriteInv, KindInv

\* As long as an Xoff counter has ended before another takes its place (the ASSERT
\* of SerialGetNextWrite), the write path keeps its invariant: every request is in
\* one place, and its reference bits say exactly who will still call back for it.
THEOREM InvariantHolds == Spec /\ XoffEndsBeforeNext => []WriteInv
  <1>1. Init => WriteInv
    BY InitEstablishesInv
  <1>2. WriteInv /\ [Next]_vars /\ [XoffEnds]_vars => WriteInv'
    BY StepKeepsInv
  <1> QED
    BY <1>1, <1>2, PTL DEF Spec, XoffEndsBeforeNext, XoffEnds

\* With one Xoff counter nothing has to be supposed.
THEOREM OneCounterInvariant == ASSUME OneCounter PROVE Spec => []WriteInv
  <1>1. Init => WriteInv
    BY InitEstablishesInv
  <1>2. WriteInv /\ [Next]_vars => WriteInv'
    BY NextKeepsInv, OneCounterMayStart
  <1> QED
    BY <1>1, <1>2, PTL DEF Spec

\* A single counter has ended before it would take its place again: the ASSERT of
\* SerialGetNextWrite holds, for any number of writes and immediate characters.
THEOREM OneCounterEnds == ASSUME OneCounter PROVE Spec => XoffEndsBeforeNext
  <1>1. ASSUME WriteInv, WriteInv' PROVE XoffEnds
    BY <1>1 DEF XoffEnds, OneCounter, WriteInv, KindInv
  <1>2. WriteInv /\ WriteInv' => [XoffEnds]_vars
    BY <1>1
  <1>3. Spec => []WriteInv
    BY OneCounterInvariant
  <1> QED
    BY <1>2, <1>3, PTL DEF XoffEndsBeforeNext, XoffEnds

-------------------------------------------------------------------------------
(* What follows from it *)

\* Whatever can still call back for an operation, its timer, its DPC or a cancel
\* routine, finds its own request current there with the reference it will drop.
THEOREM CallbacksFindIt ==
    Spec /\ XoffEndsBeforeNext => []CallbacksFindTheirRequest
  <1>1. ASSUME WriteInv PROVE CallbacksFindTheirRequest
    <2>1. ASSUME NEW op \in OPS
          PROVE  /\ Timer[op] # "off" => References(op, "TOTAL_TIMER")
                 /\ CompleteDpc[op] => References(op, "ISR")
      <3>1. IF Current[op] = NULL THEN Unarmed(op) ELSE Referred(op, Current[op])
        BY <1>1 DEF WriteInv, ReferenceInv
      <3> QED BY <3>1 DEF Unarmed, Referred, References
    <2>2. ASSUME NEW r \in Requests, cancelState[r] # "off"
          PROVE  /\ CancelRoutine[r] # "none"
                 /\ Current[CancelRoutine[r]] = r /\ "CANCEL" \in RefCount[r]
      BY <1>1, <2>2, CancelRoutineOfCurrent DEF OPS
    <2> QED
      BY <2>1, <2>2 DEF CallbacksFindTheirRequest
  <1>2. WriteInv => CallbacksFindTheirRequest
    BY <1>1
  <1> QED
    BY <1>2, InvariantHolds, PTL

\* What the interrupt still has to send or to count belongs to a request that is
\* neither completed nor handed to its DPC, and for a write is what is unsent of it.
THEOREM InterruptOwnsIt ==
    Spec /\ XoffEndsBeforeNext => []InterruptOwnsALiveRequest
  <1>1. ASSUME WriteInv PROVE InterruptOwnsALiveRequest
    <2> SUFFICES ASSUME NEW op \in OPS, Left[op] > 0
                 PROVE  /\ References(op, "ISR") /\ ~CompleteDpc[op]
                        /\ completions[Current[op]] = 0
                        /\ op = "Write" =>
                              Left[op] = Cost(Current[op]) - sent[Current[op]]
      BY DEF InterruptOwnsALiveRequest
    <2>1. Current[op] # NULL
      BY <1>1 DEF WriteInv, ReferenceInv, Unarmed
    <2>2. Referred(op, Current[op]) /\ completions[Current[op]] = 0
      BY <1>1, <2>1, CurrentIsAlone
    <2>3. op = "Write" => Left[op] = Cost(Current[op]) - sent[Current[op]]
      BY <1>1 DEF WriteInv, SizeInv
    <2> QED
      BY <2>1, <2>2, <2>3 DEF Referred, References
  <1>2. WriteInv => InterruptOwnsALiveRequest
    BY <1>1
  <1> QED
    BY <1>2, InvariantHolds, PTL

\* A request is completed once, and from then on nothing refers to it and it waits
\* nowhere.
THEOREM CompletedOnce ==
    Spec /\ XoffEndsBeforeNext => []CompletedForGood
  <1>1. ASSUME WriteInv PROVE CompletedForGood
    <2> SUFFICES ASSUME NEW r \in Requests, completions[r] > 0
                 PROVE  /\ completions[r] = 1 /\ RefCount[r] = {}
                        /\ \A op \in OPS : r # Current[op]
                        /\ r \notin canceledOnQueue \cup Waiting(WriteQueue)
      BY DEF CompletedForGood
    <2>1. completions[r] = 1
      BY <1>1 DEF WriteInv, RequestTypes, PlaceInv
    <2>2. ~InProgress(r) /\ r \notin canceledOnQueue \cup Waiting(WriteQueue)
      BY <1>1, <2>1 DEF WriteInv, PlaceInv
    <2>3. RefCount[r] = {}
      BY <1>1, <2>2 DEF WriteInv, ReferenceInv
    <2> QED
      BY <2>1, <2>2, <2>3 DEF InProgress
  <1>2. WriteInv => CompletedForGood
    BY <1>1
  <1> QED
    BY <1>2, InvariantHolds, PTL

\* When no Xoff counter brings a timeout, a current request always has somebody left
\* who will end it.  (SerialTimeoutXoff does not pass its timer on, so that with a
\* timeout its reference can stay for ever.)
THEOREM SomebodyEndsThem ==
    ASSUME TRUE \notin XoffTimeoutChoices
    PROVE  Spec /\ XoffEndsBeforeNext => []SomebodyEndsIt
  <1>1. ASSUME WriteInv PROVE SomebodyEndsIt
    <2> SUFFICES ASSUME pc = "idle", NEW op \in OPS, Current[op] # NULL,
                        NEW r, r = Current[op]
                 PROVE  /\ RefCount[r] # {}
                        /\ "ISR" \in RefCount[r] => Left[op] > 0 \/ CompleteDpc[op]
                        /\ "TOTAL_TIMER" \in RefCount[r] => Timer[op] # "off"
                        /\ "CANCEL" \in RefCount[r] => cancelState[r] # "off"
      BY DEF SomebodyEndsIt
    <2>1. Referred(op, r) /\ (op = "Xoff" => r \in XoffCounters)
      BY <1>1, CurrentIsAlone
    <2>2. op = "Xoff" => ~Xc[r].Timeout
      BY <1>1, <2>1 DEF WriteInv, SizeInv
    <2>3. RefCount[r] # {}
      BY <1>1 DEF WriteInv, StartInv, Starting, OPS
    <2> QED
      BY <2>1, <2>2, <2>3 DEF Referred
  <1>2. WriteInv => SomebodyEndsIt
    BY <1>1
  <1> QED
    BY <1>2, InvariantHolds, PTL

-------------------------------------------------------------------------------
(* Nobody is left waiting *)

\* Without flushes and counters the queue is never stopped, the current write is the
\* only request out of it that has not ended, and none waits when there is none.
NobodyFlushesOrCounts == Flushes = {} /\ XoffCounters = {}

QueueInv ==
    /\ ~WriteQueueStopped
    /\ \A r \in viaQueue : completions[r] = 0 => r = Current["Write"]
    /\ Current["Write"] = NULL => WriteQueue = <<>>

\* Most steps neither start a write nor queue one.
StartsNoWrite ==
    /\ Current'["Write"] = Current["Write"] /\ viaQueue' = viaQueue
    /\ WriteQueueStopped' \in {FALSE, WriteQueueStopped}
    /\ WriteQueue = <<>> => WriteQueue' = <<>>
    /\ \A r \in Requests : completions[r] > 0 => completions'[r] > 0

LEMMA TryToCompleteStartsNoWrite ==
    ASSUME WriteInv, NEW op \in OPS, Current[op] # NULL, NEW status, NEW refType,
           NEW grab, NEW totalTimer, NEW after,
           TryToCompleteCurrent(op, status, refType, grab, totalTimer, after)
    PROVE  /\ Current'["Write"] = Current["Write"]
           /\ \A r \in Requests : completions[r] > 0 => completions'[r] > 0
  <1>1. /\ Current \in [OPS -> Requests \cup {NULL}] /\ "Write" \in OPS
        /\ completions \in [Requests -> Nat] /\ Current[op] \in Requests
    BY CurrentIsAlone DEF WriteInv, RequestTypes, OPS
  <1>2. \/ UNCHANGED <<Current, completions>>
        \/ /\ op # "Write" /\ Current' = [Current EXCEPT ![op] = NULL]
           /\ completions' = [completions EXCEPT ![Current[op]] = @ + 1]
    BY DEF TryToCompleteCurrent, EndWithoutNext
  <1> QED
    BY <1>1, <1>2

LEMMA FinishKeepsEnded ==
    ASSUME WriteInv, NEW r \in Requests, NEW status, Finish(r, status)
    PROVE  \A q \in Requests : completions[q] > 0 => completions'[q] > 0
  <1>1. completions \in [Requests -> Nat]
    BY DEF WriteInv, RequestTypes
  <1> QED
    BY <1>1 DEF Finish

LEMMA FlushWritesStartsNoWrite ==
    ASSUME WriteInv, NEW op \in OPS, NEW after, FlushWrites(op, after)
    PROVE  StartsNoWrite
  <1>1. /\ WriteQueue' = <<>> /\ WriteQueueStopped' = FALSE /\ viaQueue' = viaQueue
        /\ \/ UNCHANGED <<Current, completions>>
           \/ /\ CallsCancelRoutine(Current[op])
              /\ TryToCompleteCurrent(CancelRoutine[Current[op]], "CANCELLED", "CANCEL",
                                      TRUE, TRUE, after)
    BY DEF FlushWrites, endVars
  <1>2. CASE UNCHANGED <<Current, completions>>
    BY <1>1, <1>2 DEF StartsNoWrite
  <1>3. CASE /\ CallsCancelRoutine(Current[op])
             /\ TryToCompleteCurrent(CancelRoutine[Current[op]], "CANCELLED", "CANCEL",
                                     TRUE, TRUE, after)
    <2>1. Current[op] # NULL /\ CancelRoutine[Current[op]] # "none"
      BY <1>3 DEF CallsCancelRoutine
    <2>2. /\ CancelRoutine[Current[op]] \in OPS
          /\ Current[CancelRoutine[Current[op]]] # NULL
      BY <2>1, CurrentIsAlone, CancelRoutineOfCurrent
    <2> QED
      BY <1>1, <1>3, <2>2, TryToCompleteStartsNoWrite DEF StartsNoWrite
  <1> QED
    BY <1>1, <1>2, <1>3

LEMMA CallbackStartsNoWrite ==
    ASSUME WriteInv, Callback \/ StartPurge \/ PurgeXoff \/ OvertakeXoff
    PROVE  StartsNoWrite
  <1> USE DEF callbackFrame, queueVars, endVars
  <1>1. ASSUME NEW op \in OPS, SerialComplete(op) \/ SerialTimeout(op)
        PROVE  StartsNoWrite
    <2>1. Current[op] # NULL /\ UNCHANGED <<WriteQueue, WriteQueueStopped, viaQueue>>
      BY <1>1 DEF SerialComplete, SerialTimeout
    <2> QED
      BY <1>1, <2>1, TryToCompleteStartsNoWrite
      DEF SerialComplete, SerialTimeout, StartsNoWrite
  <1>2. ASSUME NEW r \in Requests, SerialCancelCurrent(r)
        PROVE  StartsNoWrite
    <2>1. /\ CancelRoutine[r] \in OPS /\ Current[CancelRoutine[r]] # NULL
          /\ UNCHANGED <<WriteQueue, WriteQueueStopped, viaQueue>>
      BY <1>2, CancelRoutineOfCurrent DEF SerialCancelCurrent
    <2> QED
      BY <1>2, <2>1, TryToCompleteStartsNoWrite DEF SerialCancelCurrent, StartsNoWrite
  <1>3. ASSUME NEW r \in Requests, SerialEvtCanceledOnQueue(r)
        PROVE  StartsNoWrite
    BY <1>3, FinishKeepsEnded DEF SerialEvtCanceledOnQueue, StartsNoWrite
  <1>4. CASE SerialCommError \/ StartPurge \/ PurgeXoff
    BY <1>4, FlushWritesStartsNoWrite DEF SerialCommError, StartPurge, PurgeXoff, OPS
  <1>5. CASE OvertakeXoff
    <2>1. UNCHANGED <<WriteQueue, WriteQueueStopped, viaQueue>> /\ "Xoff" \in OPS
      BY <1>5 DEF OvertakeXoff, OPS
    <2>2. CASE UNCHANGED <<Current, completions>>
      BY <2>1, <2>2 DEF StartsNoWrite
    <2>3. CASE /\ XoffIsCounting
               /\ TryToCompleteCurrent("Xoff", "MORE_WRITES", "XOFF_REF", TRUE, TRUE,
                                       "give")
      BY <2>1, <2>3, TryToCompleteStartsNoWrite DEF XoffIsCounting, StartsNoWrite
    <2> QED
      BY <1>5, <2>2, <2>3 DEF OvertakeXoff
  <1> QED
    BY <1>1, <1>2, <1>3, <1>4, <1>5 DEF Callback

LEMMA OtherStepStartsNoWrite ==
    ASSUME WriteInv, NobodyFlushesOrCounts,
           \/ UNCHANGED vars \/ SubmitImmediate \/ GetCommStatus
           \/ \E t \in WriteTimeoutChoices : SetTimeouts(t)
           \/ \E f \in Flushes : FlushStopsQueue(f) \/ FlushEnds(f)
           \/ SerialStartWrite
           \/ \E op \in OPS : TimerExpires(op)
           \/ \E r \in Requests : CancelRequest(r)
           \/ TransmitImmediateChar \/ TransmitWrite \/ CountReceived \/ LineError
    PROVE  StartsNoWrite
  <1> USE DEF vars, queueVars, endVars, isrFrame, callbackFrame, submitFrame
  <1>1. CASE \/ UNCHANGED vars \/ GetCommStatus
             \/ \E t \in WriteTimeoutChoices : SetTimeouts(t)
             \/ SerialStartWrite
             \/ \E op \in OPS : TimerExpires(op)
             \/ TransmitImmediateChar \/ TransmitWrite \/ CountReceived \/ LineError
    <2>1. UNCHANGED <<WriteQueue, WriteQueueStopped, viaQueue, Current, completions>>
      BY <1>1 DEF GetCommStatus, SetTimeouts, SerialStartWrite, TimerExpires,
         TransmitImmediateChar, TransmitWrite, CountReceived, LineError
    <2> QED BY <2>1 DEF StartsNoWrite
  <1>2. CASE \E f \in Flushes : FlushStopsQueue(f) \/ FlushEnds(f)
    BY <1>2 DEF NobodyFlushesOrCounts
  <1>3. ASSUME NEW r \in Requests, CancelRequest(r)
        PROVE  StartsNoWrite
    <2>1. UNCHANGED <<WriteQueueStopped, viaQueue, Current, completions>>
      BY <1>3 DEF CancelRequest
    <2>2. \/ WriteQueue' = WriteQueue \/ 1 .. Len(WriteQueue) # {}
      BY <1>3 DEF CancelRequest
    <2>3. WriteQueue = <<>> => 1 .. Len(WriteQueue) = {}
      OBVIOUS
    <2> QED BY <2>1, <2>2, <2>3 DEF StartsNoWrite
  <1>4. ASSUME NEW r \in Immediates, ImmediateChar(r)
        PROVE  StartsNoWrite
    <2>1. UNCHANGED <<WriteQueue, WriteQueueStopped, viaQueue>> /\ r \in Requests
      BY <1>4 DEF ImmediateChar, Refuse, Requests
    <2>2. CASE \E status : Refuse(r, status)
      BY <2>1, <2>2, FinishKeepsEnded DEF Refuse, StartsNoWrite
    <2>3. CASE StartImmediate(r) /\ UNCHANGED endVars
      BY <2>1, <2>3 DEF StartImmediate, StartsNoWrite, WriteInv, RequestTypes, OPS
    <2> QED BY <1>4, <2>2, <2>3 DEF ImmediateChar
  <1> QED
    BY <1>1, <1>2, <1>3, <1>4 DEF SubmitImmediate

LEMMA QueuedStepKeepsQueueInv ==
    ASSUME WriteInv, QueueInv, NobodyFlushesOrCounts,
           SubmitWrite \/ SubmitXoff \/ SerialGetNextWrite
    PROVE  QueueInv'
  <1>1. ASSUME NEW r \in Writes, NEW n, SerialEvtIoWrite(r, n)
        PROVE  QueueInv'
    <2>1. /\ UNCHANGED <<WriteQueueStopped, viaQueue>> /\ r \in Requests
          /\ completions[r] = 0 /\ r # NULL
      BY <1>1, Unsubmitted DEF SerialEvtIoWrite, submitFrame, Requests, Queued
    <2>2. CASE Refuse(r, "CANCELLED")
      <3>1. \A q \in Requests : completions[q] > 0 => completions'[q] > 0
        BY <2>1, <2>2, FinishKeepsEnded DEF Refuse
      <3>2. /\ viaQueue \subseteq Requests /\ completions \in [Requests -> Nat]
        BY DEF WriteInv, RequestTypes, Requests
      <3> QED BY <2>1, <2>2, <3>1, <3>2 DEF Refuse, QueueInv
    <2>3. CASE StartOrQueue(r) /\ UNCHANGED endVars
      <3>1. CASE /\ IsQueueEmpty
                 /\ Current' = [Current EXCEPT !["Write"] = r]
                 /\ WriteQueue' = WriteQueue
        <4>1. Current'["Write"] = r
          BY <3>1 DEF WriteInv, RequestTypes, OPS
        <4> QED BY <2>1, <2>3, <3>1, <4>1 DEF QueueInv, IsQueueEmpty, endVars
      <3>2. CASE /\ ~(IsQueueEmpty /\ Current["Write"] = NULL)
                 /\ Current' = Current
        <4>1. Current["Write"] # NULL
          BY <3>2, WriteRequestsAssumption
          DEF QueueInv, IsQueueEmpty, WriteInv, RequestTypes, Requests
        <4> QED BY <2>1, <2>3, <3>2, <4>1 DEF QueueInv, endVars
      <3> QED BY <2>3, <3>1, <3>2 DEF StartOrQueue
    <2> QED BY <1>1, <2>2, <2>3 DEF SerialEvtIoWrite
  <1>2. ASSUME SubmitXoff PROVE FALSE
    BY <1>2 DEF SubmitXoff, NobodyFlushesOrCounts
  <1>3. ASSUME SerialGetNextWrite PROVE QueueInv'
    <2> DEFINE r == Current["Write"]
               next == IF NextWrite THEN Head(WriteQueue) ELSE NULL
    <2>1. /\ completions' = [completions EXCEPT ![r] = @ + 1]
          /\ Current'["Write"] = next /\ WriteQueueStopped' = WriteQueueStopped
          /\ viaQueue' \subseteq viaQueue \cup {next}
      BY <1>3 DEF SerialGetNextWrite, BecomesXoff, NobodyFlushesOrCounts, WriteInv,
         RequestTypes, OPS
    <2>2. next = NULL => WriteQueue = <<>> /\ WriteQueue' = WriteQueue
      <3>1. WriteQueue # <<>> => Head(WriteQueue) \in Queued
        BY TailProperties DEF WriteInv, RequestTypes, PlaceInv
      <3>2. NULL \notin Queued
        BY WriteRequestsAssumption DEF Requests
      <3> QED BY <1>3, <3>1, <3>2 DEF SerialGetNextWrite, NextWrite, QueueInv
    <2>3. \A q \in viaQueue : completions'[q] > 0
      <3>1. /\ viaQueue \subseteq Requests /\ completions \in [Requests -> Nat]
        BY DEF WriteInv, RequestTypes, Requests
      <3>2. \A q \in viaQueue : q # r => completions[q] > 0
        BY <3>1 DEF QueueInv
      <3> QED BY <2>1, <3>1, <3>2
    <2> HIDE DEF next
    <2> QED BY <2>1, <2>2, <2>3 DEF QueueInv
  <1> QED
    BY <1>1, <1>2, <1>3 DEF SubmitWrite

LEMMA NextKeepsQueueInv ==
    ASSUME WriteInv, QueueInv, NobodyFlushesOrCounts, [Next]_vars
    PROVE  QueueInv'
  <1>1. ASSUME StartsNoWrite PROVE QueueInv'
    <2>1. viaQueue \subseteq Requests /\ completions \in [Requests -> Nat]
      BY DEF WriteInv, RequestTypes, Requests
    <2>2. \A r \in viaQueue : completions'[r] = 0 => completions[r] = 0
      BY <1>1, <2>1 DEF StartsNoWrite
    <2>3. ~WriteQueueStopped'
      BY <1>1, Zenon DEF QueueInv, StartsNoWrite
    <2> QED BY <1>1, <2>2, <2>3 DEF QueueInv, StartsNoWrite
  <1>2. CASE UNCHANGED vars
    BY <1>1, <1>2, OtherStepStartsNoWrite
  <1>3. CASE SubmitWrite \/ SubmitXoff
    BY <1>3, QueuedStepKeepsQueueInv
  <1>4. CASE \/ SubmitImmediate \/ GetCommStatus
             \/ \E t \in WriteTimeoutChoices : SetTimeouts(t)
             \/ \E f \in Flushes : FlushStopsQueue(f) \/ FlushEnds(f)
    BY <1>1, <1>4, OtherStepStartsNoWrite
  <1>5. CASE StartPurge \/ Callback
    BY <1>1, <1>5, CallbackStartsNoWrite
  <1>6. CASE Continue
    BY <1>1, <1>6, QueuedStepKeepsQueueInv, CallbackStartsNoWrite,
       OtherStepStartsNoWrite DEF Continue
  <1>7. CASE (\E op \in OPS : TimerExpires(op)) \/ \E r \in Requests : CancelRequest(r)
    BY <1>1, <1>7, OtherStepStartsNoWrite
  <1>8. CASE TransmitImmediateChar \/ TransmitWrite \/ CountReceived \/ LineError
    BY <1>1, <1>8, OtherStepStartsNoWrite
  <1> QED
    BY <1>2, <1>3, <1>4, <1>5, <1>6, <1>7, <1>8, Zenon DEF Next

\* With writes and immediate characters only, a request never waits in a running
\* queue without one in progress before it.
THEOREM NobodyWaitsAlone ==
    ASSUME NobodyFlushesOrCounts
    PROVE  Spec => []NobodyStranded
  <1>1. Init => QueueInv
    BY DEF Init, QueueInv
  <1>2. WriteInv /\ QueueInv /\ [Next]_vars => QueueInv'
    BY NextKeepsQueueInv
  <1>3. QueueInv => NobodyStranded
    BY DEF QueueInv, NobodyStranded
  <1>4. Spec => []WriteInv
    BY OneCounterInvariant DEF OneCounter, NobodyFlushesOrCounts
  <1> QED
    BY <1>1, <1>2, <1>3, <1>4, PTL DEF Spec

-------------------------------------------------------------------------------
(* The characters in the output queue *)

Costs == [r \in Requests |-> Cost(r)]

Owed == Waiting(WriteQueue) \cup canceledOnQueue
          \cup ({Current["Write"], Current["Immediate"]} \ {NULL})

\* OutQueueCount, over a set of requests that stays finite.
CountInv ==
    IsFiniteSet(Owed) /\ TotalCharsQueued = SumFunctionOnSet(Costs, Owed)

LEMMA CostsOfRequests ==
    ASSUME WriteInv
    PROVE  /\ Costs \in [Requests -> Nat] /\ Owed \subseteq Requests
           /\ \A r \in Requests : Costs[r] = Cost(r)
           /\ \A r \in Immediates : Costs[r] = 1
  <1>1. \A r \in Requests : Cost(r) \in Nat
    BY DEF WriteInv, RequestTypes, Cost
  <1>2. Owed \subseteq Requests
    <2>1. /\ Waiting(WriteQueue) \subseteq Queued /\ canceledOnQueue \subseteq Queued
          /\ Current["Write"] \in Requests \cup {NULL}
          /\ Current["Immediate"] \in Requests \cup {NULL}
      BY WaitingInQueue DEF WriteInv, RequestTypes, OPS
    <2> QED BY <2>1 DEF Owed, Requests
  <1>3. \A r \in Immediates : r \in Requests /\ r \notin Writes
    BY WriteRequestsAssumption DEF Requests, Queued
  <1> QED
    BY <1>1, <1>2, <1>3 DEF Costs, Cost

\* A step counts nothing, one request more, or one request less.
LEMMA CountsNothing ==
    ASSUME CountInv, Owed' = Owed, Length' = Length,
           TotalCharsQueued' = TotalCharsQueued
    PROVE  CountInv'
  <1>1. Costs' = Costs
    BY DEF Costs, Cost
  <1> QED
    BY <1>1 DEF CountInv

LEMMA CountsOneMore ==
    ASSUME WriteInv, WriteInv', CountInv, NEW r \in Requests, r \notin Owed,
           Owed' = Owed \cup {r}, TotalCharsQueued' = TotalCharsQueued + Cost(r)',
           \A q \in Writes : q # r => Length'[q] = Length[q]
    PROVE  CountInv'
  <1>1. /\ Costs \in [Requests -> Nat] /\ Owed \subseteq Requests
        /\ Costs' \in [Requests -> Nat]
        /\ \A q \in Requests : Costs[q] = Cost(q) /\ Costs'[q] = Cost(q)'
    <2>1. \A q \in Requests : Cost(q)' \in Nat
      BY DEF WriteInv, RequestTypes, Cost
    <2> QED BY <2>1, CostsOfRequests DEF Costs
  <1>2. \A q \in Owed : Costs[q] = Costs'[q]
    BY <1>1 DEF Cost
  <1>3. IsFiniteSet(Owed) /\ IsFiniteSet(Owed')
    BY FS_AddElement DEF CountInv
  <1>4. SumFunctionOnSet(Costs, Owed) = SumFunctionOnSet(Costs', Owed)
    BY <1>2, <1>3, SumDependsOn
  <1>5. SumFunctionOnSet(Costs', Owed \cup {r}) =
          SumFunctionOnSet(Costs', Owed) + Costs'[r]
    BY <1>1, <1>3, SumWith
  <1> QED
    BY <1>1, <1>3, <1>4, <1>5 DEF CountInv

LEMMA CountsOneLess ==
    ASSUME WriteInv, CountInv, NEW r \in Owed, Owed' = Owed \ {r}, Length' = Length,
           TotalCharsQueued' = TotalCharsQueued - Cost(r)
    PROVE  CountInv'
  <1>1. /\ Costs \in [Requests -> Nat] /\ Owed \subseteq Requests
        /\ Costs[r] = Cost(r) /\ Costs' = Costs
    BY CostsOfRequests DEF Costs, Cost
  <1>2. IsFiniteSet(Owed) /\ IsFiniteSet(Owed')
    BY FS_Subset DEF CountInv
  <1>3. SumFunctionOnSet(Costs, Owed) = Costs[r] + SumFunctionOnSet(Costs, Owed \ {r})
    BY <1>1, <1>2, SumWithout
  <1>4. SumFunctionOnSet(Costs, Owed \ {r}) \in Nat /\ Costs[r] \in Nat
    BY <1>1, <1>2, SumIsNat
  <1> QED
    BY <1>1, <1>2, <1>3, <1>4 DEF CountInv

\* Only an immediate character is counted off by SerialTryToCompleteCurrent.
LEMMA TryToCompleteCounts ==
    ASSUME WriteInv, CountInv, NEW op \in OPS, Current[op] # NULL,
           NEW status, NEW refType, NEW grab, NEW totalTimer, NEW after,
           TryToCompleteCurrent(op, status, refType, grab, totalTimer, after),
           Length' = Length,
           Waiting(WriteQueue') \cup canceledOnQueue' =
             Waiting(WriteQueue) \cup canceledOnQueue
    PROVE  CountInv'
  <1>1. \/ UNCHANGED <<Current, TotalCharsQueued>>
        \/ /\ op # "Write" /\ Current' = [Current EXCEPT ![op] = NULL]
           /\ TotalCharsQueued' = TotalCharsQueued - IF op = "Immediate" THEN 1 ELSE 0
    BY DEF TryToCompleteCurrent, EndWithoutNext
  <1>2. /\ Current \in [OPS -> Requests \cup {NULL}]
        /\ "Write" \in OPS /\ "Immediate" \in OPS
    BY DEF WriteInv, RequestTypes, OPS
  <1>3. TotalCharsQueued \in Nat
    BY CostsOfRequests, SumIsNat DEF CountInv
  <1>4. CASE /\ op = "Immediate" /\ Current' = [Current EXCEPT ![op] = NULL]
             /\ TotalCharsQueued' = TotalCharsQueued - 1
    <2> DEFINE r == Current["Immediate"]
    <2>1. /\ r \in Immediates /\ r # NULL /\ Current["Write"] # r
          /\ r \notin Waiting(WriteQueue) \cup canceledOnQueue
      BY <1>2, <1>4, CurrentIsAlone
    <2>2. Current'["Write"] = Current["Write"] /\ Current'["Immediate"] = NULL
      BY <1>2, <1>4
    <2>3. r \in Owed /\ Owed' = Owed \ {r}
      BY <2>1, <2>2 DEF Owed
    <2>4. Cost(r) = 1
      BY <2>1, WriteRequestsAssumption DEF Cost, Queued
    <2> HIDE DEF r
    <2> QED BY <1>4, <2>3, <2>4, CountsOneLess
  <1>5. CASE /\ Current'["Write"] = Current["Write"]
             /\ Current'["Immediate"] = Current["Immediate"]
             /\ TotalCharsQueued' = TotalCharsQueued
    <2>1. Owed' = Owed
      BY <1>5 DEF Owed
    <2> QED BY <1>5, <2>1, CountsNothing
  <1> QED
    BY <1>1, <1>2, <1>3, <1>4, <1>5 DEF OPS

LEMMA FlushWritesCounts ==
    ASSUME WriteInv, CountInv, NEW op \in OPS, NEW after, FlushWrites(op, after)
    PROVE  CountInv'
  <1>1. /\ Length' = Length
        /\ Waiting(WriteQueue') \cup canceledOnQueue' =
             Waiting(WriteQueue) \cup canceledOnQueue
    BY EmptyQueue DEF FlushWrites, contextVars
  <1>2. CASE UNCHANGED <<Current, TotalCharsQueued>>
    <2>1. Owed' = Owed
      BY <1>1, <1>2 DEF Owed
    <2> QED BY <1>1, <1>2, <2>1, CountsNothing
  <1>3. CASE /\ CallsCancelRoutine(Current[op])
             /\ TryToCompleteCurrent(CancelRoutine[Current[op]], "CANCELLED", "CANCEL",
                                     TRUE, TRUE, after)
    <2>1. Current[op] # NULL /\ CancelRoutine[Current[op]] # "none"
      BY <1>3 DEF CallsCancelRoutine
    <2>2. /\ CancelRoutine[Current[op]] \in OPS
          /\ Current[CancelRoutine[Current[op]]] # NULL
      BY <2>1, CurrentIsAlone, CancelRoutineOfCurrent
    <2> QED
      BY <1>1, <1>3, <2>2, TryToCompleteCounts
  <1> QED
    BY <1>2, <1>3 DEF FlushWrites

LEMMA CallbackCounts ==
    ASSUME WriteInv, CountInv, Callback \/ StartPurge \/ PurgeXoff \/ OvertakeXoff
    PROVE  CountInv'
  <1> USE DEF callbackFrame, queueVars, contextVars
  <1>1. ASSUME NEW op \in OPS, SerialComplete(op) \/ SerialTimeout(op)
        PROVE  CountInv'
    <2>1. Current[op] # NULL /\ UNCHANGED <<WriteQueue, canceledOnQueue, Length>>
      BY <1>1 DEF SerialComplete, SerialTimeout
    <2> QED
      BY <1>1, <2>1, TryToCompleteCounts DEF SerialComplete, SerialTimeout
  <1>2. ASSUME NEW r \in Requests, SerialCancelCurrent(r)
        PROVE  CountInv'
    <2>1. /\ CancelRoutine[r] \in OPS /\ Current[CancelRoutine[r]] # NULL
          /\ UNCHANGED <<WriteQueue, canceledOnQueue, Length>>
      BY <1>2, CancelRoutineOfCurrent DEF SerialCancelCurrent
    <2> QED
      BY <1>2, <2>1, TryToCompleteCounts DEF SerialCancelCurrent
  <1>3. ASSUME NEW r \in Requests, SerialEvtCanceledOnQueue(r)
        PROVE  CountInv'
    <2>1. /\ r \in canceledOnQueue /\ canceledOnQueue' = canceledOnQueue \ {r}
          /\ TotalCharsQueued' = TotalCharsQueued - Cost(r)
          /\ UNCHANGED <<Length, WriteQueue, Current>>
      BY <1>3 DEF SerialEvtCanceledOnQueue, CanceledCost
    <2>2. r \notin Waiting(WriteQueue) /\ ~InProgress(r)
      BY <2>1 DEF WriteInv, PlaceInv
    <2>3. r \in Owed /\ Owed' = Owed \ {r}
      BY <2>1, <2>2 DEF Owed, InProgress, OPS
    <2> QED
      BY <2>1, <2>3, CountsOneLess
  <1>4. CASE SerialCommError \/ StartPurge \/ PurgeXoff
    BY <1>4, FlushWritesCounts DEF SerialCommError, StartPurge, PurgeXoff, OPS
  <1>5. CASE OvertakeXoff
    <2>1. UNCHANGED <<WriteQueue, canceledOnQueue, Length>> /\ "Xoff" \in OPS
      BY <1>5 DEF OvertakeXoff, OPS
    <2>2. CASE UNCHANGED <<Current, TotalCharsQueued>>
      <3>1. Owed' = Owed
        BY <2>1, <2>2 DEF Owed
      <3> QED BY <2>1, <2>2, <3>1, CountsNothing
    <2>3. CASE /\ XoffIsCounting
               /\ TryToCompleteCurrent("Xoff", "MORE_WRITES", "XOFF_REF", TRUE, TRUE,
                                       "give")
      BY <2>1, <2>3, TryToCompleteCounts DEF XoffIsCounting
    <2> QED
      BY <1>5, <2>2, <2>3 DEF OvertakeXoff
  <1> QED
    BY <1>1, <1>2, <1>3, <1>4, <1>5 DEF Callback

\* The old write is counted off; the new one was counted while it waited.
LEMMA SerialGetNextWriteCounts ==
    ASSUME WriteInv, CountInv, SerialGetNextWrite
    PROVE  CountInv'
  <1>1. PICK r, next : /\ r = Current["Write"]
                       /\ next = IF NextWrite THEN Head(WriteQueue) ELSE NULL
    OBVIOUS
  <1>2. /\ TotalCharsQueued' = TotalCharsQueued - Cost(r)
        /\ Current' = [Current EXCEPT !["Write"] = next,
                                      !["Xoff"] = IF BecomesXoff(r) THEN r ELSE @]
        /\ canceledOnQueue' = canceledOnQueue /\ Length' = Length
        /\ pc \in Starting
    BY <1>1 DEF SerialGetNextWrite, CostOf, contextVars, Starting
  <1>3. Current'["Write"] = next /\ Current'["Immediate"] = Current["Immediate"]
    BY <1>2 DEF WriteInv, RequestTypes, OPS
  <1>4. /\ Waiting(WriteQueue') = Waiting(WriteQueue) \ {next}
        /\ next # NULL => next \in Waiting(WriteQueue)
        /\ Waiting(WriteQueue) \subseteq Queued /\ NULL \notin Queued
    BY <1>1, NextWriteTaken, WriteRequestsAssumption DEF Requests
  <1>5. /\ r # NULL /\ r # Current["Immediate"]
        /\ r \notin Waiting(WriteQueue) \cup canceledOnQueue
    BY <1>1, <1>2, UnreferredWrite, CurrentIsAlone DEF OPS
  <1>6. r \in Owed /\ Owed' = Owed \ {r}
    BY <1>1, <1>2, <1>3, <1>4, <1>5 DEF Owed
  <1> QED
    BY <1>2, <1>6, CountsOneLess

LEMMA RefusedCounts ==
    ASSUME CountInv, NEW r, NEW status, Refuse(r, status), UNCHANGED submitFrame
    PROVE  CountInv'
  <1>1. UNCHANGED <<WriteQueue, canceledOnQueue, Current, Length, TotalCharsQueued>>
    BY DEF Refuse, submitFrame
  <1>2. Owed' = Owed
    BY <1>1 DEF Owed
  <1> QED
    BY <1>1, <1>2, CountsNothing

LEMMA AcceptedCounts ==
    ASSUME WriteInv, WriteInv', CountInv, NEW r \in Queued \ submitted,
           StartOrQueue(r), UNCHANGED submitFrame,
           TotalCharsQueued' = TotalCharsQueued + Cost(r)',
           \A q \in Writes : q # r => Length'[q] = Length[q]
    PROVE  CountInv'
  <1>1. /\ r \in Requests \ submitted /\ canceledOnQueue' = canceledOnQueue
        /\ WriteQueue \in Seq(Queued) /\ NoRepeats(WriteQueue)
        /\ Current \in [OPS -> Requests \cup {NULL}]
    BY DEF submitFrame, Requests, WriteInv, RequestTypes, PlaceInv
  <1>2. /\ r # NULL /\ r \notin Waiting(WriteQueue) \cup canceledOnQueue
        /\ \A op \in OPS : Current[op] # r
    BY <1>1, Unsubmitted
  <1>3. r \notin Owed
    BY <1>2 DEF Owed, OPS
  <1>4. Owed' = Owed \cup {r}
    <2>1. CASE /\ Current["Write"] = NULL /\ WriteQueue' = WriteQueue
               /\ Current' = [Current EXCEPT !["Write"] = r]
      <3>1. Current'["Write"] = r /\ Current'["Immediate"] = Current["Immediate"]
        BY <1>1, <2>1 DEF OPS
      <3> QED BY <1>1, <1>2, <2>1, <3>1 DEF Owed
    <2>2. CASE WriteQueue' = Append(WriteQueue, r) /\ Current' = Current
      <3>1. Waiting(WriteQueue') = Waiting(WriteQueue) \cup {r}
        BY <1>1, <1>2, <2>2, AppendToQueue
      <3> QED BY <1>1, <2>2, <3>1 DEF Owed
    <2> QED BY <2>1, <2>2 DEF StartOrQueue
  <1> QED
    BY <1>1, <1>3, <1>4, CountsOneMore

LEMMA SubmissionCounts ==
    ASSUME WriteInv, WriteInv', CountInv, SubmitWrite \/ SubmitXoff \/ SubmitImmediate
    PROVE  CountInv'
  <1>1. ASSUME NEW r \in Writes, NEW n \in 1 .. MaxLength, SerialEvtIoWrite(r, n)
        PROVE  CountInv'
    <2>1. UNCHANGED submitFrame /\ r \in Queued \ submitted
      BY <1>1 DEF SerialEvtIoWrite, Queued
    <2>2. CASE Refuse(r, "CANCELLED")
      BY <2>1, <2>2, RefusedCounts
    <2>3. CASE /\ Length' = [Length EXCEPT ![r] = n] /\ StartOrQueue(r)
               /\ TotalCharsQueued' = TotalCharsQueued + n
      <3>1. Length \in [Writes -> Nat]
        BY DEF WriteInv, RequestTypes
      <3>2. Cost(r)' = n /\ \A q \in Writes : q # r => Length'[q] = Length[q]
        BY <2>3, <3>1 DEF Cost
      <3> QED BY <2>1, <2>3, <3>2, AcceptedCounts
    <2> QED BY <1>1, <2>2, <2>3 DEF SerialEvtIoWrite
  <1>2. ASSUME NEW r \in XoffCounters, NEW n, NEW t, XoffCounter(r, n, t)
        PROVE  CountInv'
    <2>1. UNCHANGED submitFrame /\ r \in Queued \ submitted
      BY <1>2 DEF XoffCounter, Queued
    <2>2. CASE Refuse(r, "CANCELLED")
      BY <2>1, <2>2, RefusedCounts
    <2>3. CASE /\ Length' = Length /\ StartOrQueue(r)
               /\ TotalCharsQueued' = TotalCharsQueued + 1
      <3>1. Cost(r)' = 1
        BY WriteRequestsAssumption DEF Cost
      <3> QED BY <2>1, <2>3, <3>1, AcceptedCounts
    <2> QED BY <1>2, <2>2, <2>3 DEF XoffCounter
  <1>3. ASSUME NEW r \in Immediates, ImmediateChar(r)
        PROVE  CountInv'
    <2>1. UNCHANGED submitFrame /\ r \in Requests \ submitted
      BY <1>3 DEF ImmediateChar, Requests
    <2>2. CASE Refuse(r, IF RefusedForError THEN "CANCELLED" ELSE "INVALID_PARAMETER")
      BY <2>1, <2>2, RefusedCounts
    <2>3. CASE /\ ~ImmediateTaken /\ StartImmediate(r)
               /\ TotalCharsQueued' = TotalCharsQueued + 1
               /\ UNCHANGED <<Length, WriteQueue>>
      <3>1. /\ Current["Immediate"] = NULL /\ canceledOnQueue' = canceledOnQueue
            /\ Current' = [Current EXCEPT !["Immediate"] = r]
            /\ Current \in [OPS -> Requests \cup {NULL}]
        BY <2>1, <2>3 DEF ImmediateTaken, StartImmediate, submitFrame, WriteInv,
           RequestTypes
      <3>2. Current'["Write"] = Current["Write"] /\ Current'["Immediate"] = r
        BY <3>1 DEF OPS
      <3>3. /\ r # NULL /\ r \notin Waiting(WriteQueue) \cup canceledOnQueue
            /\ \A op \in OPS : Current[op] # r
        BY <2>1, Unsubmitted
      <3>4. r \notin Owed /\ Owed' = Owed \cup {r}
        BY <2>3, <3>1, <3>2, <3>3 DEF Owed, OPS
      <3>5. Cost(r)' = 1
        BY WriteRequestsAssumption DEF Cost, Queued
      <3> QED BY <2>1, <2>3, <3>4, <3>5, CountsOneMore
    <2> QED BY <1>3, <2>2, <2>3 DEF ImmediateChar
  <1> QED
    BY <1>1, <1>2, <1>3 DEF SubmitWrite, SubmitXoff, SubmitImmediate

LEMMA OtherStepCounts ==
    ASSUME WriteInv, CountInv,
           \/ UNCHANGED vars \/ GetCommStatus
           \/ \E t \in WriteTimeoutChoices : SetTimeouts(t)
           \/ \E f \in Flushes : FlushStopsQueue(f) \/ FlushEnds(f)
           \/ SerialStartWrite
           \/ \E op \in OPS : TimerExpires(op)
           \/ \E r \in Requests : CancelRequest(r)
           \/ TransmitImmediateChar \/ TransmitWrite \/ CountReceived \/ LineError
    PROVE  CountInv'
  <1> USE DEF vars, queueVars, contextVars, isrFrame, callbackFrame
  <1>1. UNCHANGED <<Length, Current, TotalCharsQueued>>
    BY DEF GetCommStatus, SetTimeouts, SerialStartWrite, TimerExpires, CancelRequest,
       FlushStopsQueue, FlushEnds, TransmitImmediateChar, TransmitWrite, CountReceived,
       LineError
  <1>2. Waiting(WriteQueue') \cup canceledOnQueue' =
          Waiting(WriteQueue) \cup canceledOnQueue
    <2>1. ASSUME NEW r \in Requests, CancelRequest(r)
          PROVE  Waiting(WriteQueue') \cup canceledOnQueue' =
                   Waiting(WriteQueue) \cup canceledOnQueue
      BY <2>1, CancelledOffQueue
    <2>2. CASE UNCHANGED <<WriteQueue, canceledOnQueue>>
      BY <2>2
    <2> QED
      BY <2>1, <2>2 DEF GetCommStatus, SetTimeouts, SerialStartWrite, TimerExpires,
         FlushStopsQueue, FlushEnds, TransmitImmediateChar, TransmitWrite,
         CountReceived, LineError
  <1>3. Owed' = Owed
    BY <1>1, <1>2 DEF Owed
  <1> QED
    BY <1>1, <1>3, CountsNothing

LEMMA NextKeepsCount ==
    ASSUME WriteInv, WriteInv', CountInv, [Next]_vars
    PROVE  CountInv'
  <1>1. CASE UNCHANGED vars
    BY <1>1, OtherStepCounts
  <1>2. CASE SubmitWrite \/ SubmitXoff \/ SubmitImmediate
    BY <1>2, SubmissionCounts
  <1>3. CASE \/ GetCommStatus
             \/ \E t \in WriteTimeoutChoices : SetTimeouts(t)
             \/ \E f \in Flushes : FlushStopsQueue(f) \/ FlushEnds(f)
    BY <1>3, OtherStepCounts
  <1>4. CASE StartPurge \/ Callback
    BY <1>4, CallbackCounts
  <1>5. CASE Continue
    BY <1>5, SerialGetNextWriteCounts, CallbackCounts, OtherStepCounts DEF Continue
  <1>6. CASE (\E op \in OPS : TimerExpires(op)) \/ \E r \in Requests : CancelRequest(r)
    BY <1>6, OtherStepCounts
  <1>7. CASE TransmitImmediateChar \/ TransmitWrite \/ CountReceived \/ LineError
    BY <1>7, OtherStepCounts
  <1> QED
    BY <1>1, <1>2, <1>3, <1>4, <1>5, <1>6, <1>7, Zenon DEF Next

LEMMA CountHolds == Spec /\ XoffEndsBeforeNext => []CountInv
  <1>1. Init => CountInv
    <2>1. ASSUME Init PROVE CountInv
      <3>1. Owed = {} /\ TotalCharsQueued = 0
        BY <2>1, EmptyQueue DEF Init, Owed, OPS
      <3> QED BY <3>1, SumStep, FS_EmptySet DEF CountInv
    <2> QED BY <2>1
  <1>2. WriteInv /\ WriteInv' /\ CountInv /\ [Next]_vars => CountInv'
    BY NextKeepsCount
  <1> QED
    BY <1>1, <1>2, InvariantHolds, PTL DEF Spec

\* TotalCharsQueued is always the sum of the sizes of the requests the driver still
\* owes the application, wherever they are: queued, cancelled on the queue, or in
\* progress.  Each comes in once and goes out once, by whichever of its ends is first.
THEOREM OutQueueIsCounted == Spec /\ XoffEndsBeforeNext => []OutQueueCount
  <1>1. CountInv => OutQueueCount
    BY DEF CountInv, Costs, Owed, OutQueueCount
  <1> QED
    BY <1>1, CountHolds, PTL

\* Every variable has its type; in particular the character count never drops below
\* zero.
THEOREM TypeCorrect == Spec /\ XoffEndsBeforeNext => []TypeOK
  <1>1. ASSUME WriteInv, CountInv PROVE TypeOK
    <2>1. TotalCharsQueued \in Nat
      BY <1>1, CostsOfRequests, SumIsNat DEF CountInv
    <2> QED
      BY <1>1, <2>1 DEF WriteInv, TypeOK
  <1>2. WriteInv /\ CountInv => TypeOK
    BY <1>1
  <1> QED
    BY <1>2, InvariantHolds, CountHolds, PTL

===============================================================================
