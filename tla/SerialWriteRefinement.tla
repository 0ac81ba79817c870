------------------------- MODULE SerialWriteRefinement -------------------------
(***************************************************************************)
(* SerialWrite implements WriteLine, for any writes, counters, immediate   *)
(* characters and flushes: the proof that ImplementsLine holds of every    *)
(* behaviour of Spec in which a counter has ended before another takes its *)
(* place, action by action.                                                *)
(***************************************************************************)
EXTENDS SerialWriteProofs

-------------------------------------------------------------------------------
(* What the count that a request reports rests on. *)

\* The write r in progress: when nothing of it is left with the interrupt, its
\* context says how much was sent; its DPC is for a write sent whole; and the
\* status it ends with goes with the count.
Reported(r) ==
    /\ pc \notin Starting /\ Left["Write"] = 0 => Information[r] = sent[r]
    /\ CompleteDpc["Write"] => sent[r] = Cost(r)
    /\ pc \in {"next", "purgeNext"} =>
          \/ Status[r] = "CANCELLED" /\ Information[r] = 0
          \/ Status[r] = "TIMEOUT" /\ Information[r] = sent[r]
          \/ Status[r] = "SUCCESS" /\ Information[r] = sent[r] /\ sent[r] = Cost(r)

ReportInv ==
    /\ \A r \in Writes : Length[r] <= MaxLength
    /\ pc \in {"purgeNext", "purgeXoff"} => WriteQueue = <<>>
    /\ Current["Write"] # NULL => Reported(Current["Write"])
    /\ CompleteDpc["Xoff"] => Information[Current["Xoff"]] = 0


\* Most steps leave what is reported alone.
KeepsReports ==
    /\ Length' = Length /\ sent' = sent
    /\ pc' \in {"purgeNext", "purgeXoff"} => WriteQueue' = <<>>
    /\ pc' = pc \/ pc' = "give" \/ (pc \notin Starting /\ pc' \in {"idle", "purgeXoff"})
    /\ Current'["Write"] = Current["Write"] /\ Left'["Write"] = Left["Write"]
    /\ CompleteDpc'["Write"] => CompleteDpc["Write"]
    /\ Current["Write"] # NULL =>
          /\ Information'[Current["Write"]] = Information[Current["Write"]]
          /\ Status'[Current["Write"]] = Status[Current["Write"]]
    /\ CompleteDpc'["Xoff"] =>
          /\ CompleteDpc["Xoff"] /\ Current'["Xoff"] = Current["Xoff"]
          /\ Information'[Current["Xoff"]] \in {0, Information[Current["Xoff"]]}

LEMMA KeptReports == ASSUME ReportInv, KeepsReports PROVE ReportInv'
  <1>1. Cost(Current["Write"])' = Cost(Current["Write"])
    BY DEF KeepsReports, Cost
  <1>2. Current["Write"] # NULL => Reported(Current["Write"])'
    BY <1>1 DEF KeepsReports, ReportInv, Reported, Starting
  <1>3. \A r \in Writes : Length'[r] <= MaxLength
    BY DEF KeepsReports, ReportInv
  <1>4. CompleteDpc'["Xoff"] => Information'[Current'["Xoff"]] = 0
    BY DEF KeepsReports, ReportInv
  <1>5. /\ pc' \in {"purgeNext", "purgeXoff"} => WriteQueue' = <<>>
        /\ Current'["Write"] = Current["Write"]
    BY DEF KeepsReports
  <1> QED
    BY <1>2, <1>3, <1>4, <1>5 DEF ReportInv

LEMMA InitReports == Init => ReportInv
  BY WriteBoundsAssumption DEF Init, ReportInv, OPS

\* The status and the count of a request that is in no operation are its own affair.
LEMMA OthersReport ==
    ASSUME WriteInv, ReportInv,
           \/ GetCommStatus \/ LineError
           \/ \E t \in WriteTimeoutChoices : SetTimeouts(t)
           \/ \E f \in Flushes : FlushStopsQueue(f) \/ FlushEnds(f)
           \/ \E op \in OPS : TimerExpires(op)
           \/ UNCHANGED vars
    PROVE  ReportInv'
  <1>1. UNCHANGED <<contextVars, WriteQueue, endVars, isrVars, Current, pc>>
    BY DEF GetCommStatus, LineError, SetTimeouts, FlushStopsQueue, FlushEnds,
           TimerExpires, vars, contextVars, queueVars, endVars, isrVars, isrFrame
  <1>2. KeepsReports
    BY <1>1 DEF KeepsReports, ReportInv, contextVars, endVars, isrVars
  <1> QED
    BY <1>2, KeptReports

LEMMA CancelRequestReports ==
    ASSUME ReportInv, NEW r \in Requests, CancelRequest(r)
    PROVE  ReportInv'
  <1>1. UNCHANGED <<Length, endVars, isrVars, Current, pc>>
    BY DEF CancelRequest, contextVars
  <1>2. WriteQueue = <<>> => WriteQueue' = <<>>
    <2>1. CASE WriteQueue = <<>>
      <3>1. Len(WriteQueue) = 0
        BY <2>1
      <3>2. ~ \E i \in 1 .. Len(WriteQueue) : WriteQueue[i] = r
        BY <3>1
      <3> QED BY <2>1, <3>2 DEF CancelRequest
    <2> QED BY <2>1
  <1>3. KeepsReports
    BY <1>1, <1>2 DEF KeepsReports, ReportInv, endVars, isrVars
  <1> QED
    BY <1>3, KeptReports

LEMMA CanceledOnQueueReports ==
    ASSUME WriteInv, ReportInv, NEW r \in Requests, SerialEvtCanceledOnQueue(r)
    PROVE  ReportInv'
  <1>1. /\ pc = "idle" /\ r \in canceledOnQueue
        /\ Status' = [Status EXCEPT ![r] = "CANCELLED"]
        /\ Information' = [Information EXCEPT ![r] = 0]
        /\ UNCHANGED <<contextVars, WriteQueue, isrVars, Current, pc>>
    BY DEF SerialEvtCanceledOnQueue, Finish
  <1>2. \A op \in OPS : Current[op] # r
    BY <1>1, WriteRequestsAssumption DEF WriteInv, PlaceInv, InProgress
  <1>3. "Xoff" \in OPS /\ "Write" \in OPS
    BY DEF OPS
  <1>4. \A q \in Requests : q # r =>
            Information'[q] = Information[q] /\ Status'[q] = Status[q]
    BY <1>1 DEF WriteInv, RequestTypes
  <1>5. KeepsReports
    BY <1>1, <1>2, <1>3, <1>4 DEF KeepsReports, ReportInv, contextVars, isrVars
  <1> QED
    BY <1>5, KeptReports

LEMMA RefusedReports ==
    ASSUME WriteInv, ReportInv, NEW r \in Requests \ submitted, NEW status,
           pc = "idle", Refuse(r, status), UNCHANGED <<submitFrame, Left>>
    PROVE  ReportInv'
  <1>1. /\ Status' = [Status EXCEPT ![r] = status]
        /\ Information' = [Information EXCEPT ![r] = 0]
        /\ UNCHANGED <<Length, WriteQueue, sent, CompleteDpc, Left, Current, pc>>
    BY DEF Refuse, Finish, submitFrame
  <1>2. \A op \in OPS : Current[op] # r
    BY Unsubmitted
  <1>3. "Xoff" \in OPS /\ "Write" \in OPS
    BY DEF OPS
  <1>4. \A q \in Requests : q # r =>
            Information'[q] = Information[q] /\ Status'[q] = Status[q]
    BY <1>1 DEF WriteInv, RequestTypes
  <1>5. KeepsReports
    BY <1>1, <1>2, <1>3, <1>4 DEF KeepsReports, ReportInv
  <1> QED
    BY <1>5, KeptReports

\* A request that is accepted waits, or is current and not yet started.
LEMMA AcceptedReports ==
    ASSUME WriteInv, ReportInv, NEW r \in Queued \ submitted, pc = "idle",
           \A q \in Writes : Length'[q] = Length[q] \/ (q = r /\ Length'[q] <= MaxLength),
           StartOrQueue(r), UNCHANGED <<endVars, submitFrame, Left>>
    PROVE  ReportInv'
  <1>1. /\ UNCHANGED <<Information, Status, sent, CompleteDpc, Left>>
        /\ "Xoff" \in OPS /\ "Write" \in OPS
    BY DEF endVars, submitFrame, OPS
  <1>2. \A q \in Writes : Length'[q] <= MaxLength
    BY DEF ReportInv
  <1>3. CASE /\ Current["Write"] = NULL /\ Current' = [Current EXCEPT !["Write"] = r]
             /\ pc' = "start"
    <2>1. /\ Current'["Write"] = r /\ Current'["Xoff"] = Current["Xoff"]
          /\ ~CompleteDpc["Write"]
      BY <1>1, <1>3 DEF WriteInv, RequestTypes, ReferenceInv, Unarmed
    <2>2. Reported(r)'
      BY <1>1, <1>3, <2>1 DEF Reported, Starting
    <2> QED
      BY <1>1, <1>2, <1>3, <2>1, <2>2 DEF ReportInv
  <1>4. CASE UNCHANGED <<Current, pc>>
    <2>1. Current["Write"] # r
      BY Unsubmitted, <1>1 DEF Requests
    <2>2. Cost(Current["Write"])' = Cost(Current["Write"])
      BY <1>4, <2>1 DEF Cost
    <2>3. Current["Write"] # NULL => Reported(Current["Write"])'
      BY <1>1, <1>4, <2>2 DEF ReportInv, Reported
    <2> QED
      BY <1>1, <1>2, <1>4, <2>3 DEF ReportInv
  <1> QED
    BY <1>3, <1>4 DEF StartOrQueue

LEMMA SubmissionsReport ==
    ASSUME WriteInv, ReportInv, SubmitWrite \/ SubmitXoff
    PROVE  ReportInv'
  <1>1. ASSUME NEW r \in Writes, NEW n \in 1 .. MaxLength, SerialEvtIoWrite(r, n)
        PROVE  ReportInv'
    <2>1. /\ pc = "idle" /\ r \in Queued \ submitted /\ r \in Requests \ submitted
          /\ UNCHANGED <<submitFrame, Left>>
      BY <1>1 DEF SerialEvtIoWrite, Queued, Requests
    <2>2. CASE Refuse(r, "CANCELLED")
      BY <2>1, <2>2, RefusedReports
    <2>3. CASE /\ Length' = [Length EXCEPT ![r] = n]
               /\ StartOrQueue(r) /\ UNCHANGED endVars
      <3>1. \A q \in Writes : Length'[q] = Length[q] \/ (q = r /\ Length'[q] <= MaxLength)
        BY <2>3, WriteBoundsAssumption DEF WriteInv, RequestTypes
      <3> QED BY <2>1, <2>3, <3>1, AcceptedReports
    <2> QED
      BY <1>1, <2>2, <2>3 DEF SerialEvtIoWrite
  <1>2. ASSUME NEW r \in XoffCounters, NEW n \in 1 .. MaxCounter,
               NEW t \in XoffTimeoutChoices, XoffCounter(r, n, t)
        PROVE  ReportInv'
    <2>1. /\ pc = "idle" /\ r \in Queued \ submitted /\ r \in Requests \ submitted
          /\ UNCHANGED <<submitFrame, Left>>
      BY <1>2 DEF XoffCounter, Queued, Requests
    <2>2. CASE Refuse(r, "CANCELLED")
      BY <2>1, <2>2, RefusedReports
    <2>3. CASE Length' = Length /\ StartOrQueue(r) /\ UNCHANGED endVars
      BY <2>1, <2>3, AcceptedReports
    <2> QED
      BY <1>2, <2>2, <2>3 DEF XoffCounter
  <1> QED
    BY <1>1, <1>2 DEF SubmitWrite, SubmitXoff

LEMMA ImmediateReports ==
    ASSUME WriteInv, ReportInv, NEW r \in Immediates, ImmediateChar(r)
    PROVE  ReportInv'
  <1>1. pc = "idle" /\ r \in Requests \ submitted /\ UNCHANGED submitFrame
    BY DEF ImmediateChar, Requests
  <1>2. CASE /\ Refuse(r, IF RefusedForError THEN "CANCELLED" ELSE "INVALID_PARAMETER")
             /\ UNCHANGED Left
    BY <1>1, <1>2, RefusedReports
  <1>3. CASE StartImmediate(r) /\ UNCHANGED <<Length, Xc, endVars, pc, WriteQueue>>
    <2>1. /\ Current' = [Current EXCEPT !["Immediate"] = r]
          /\ Left' = [Left EXCEPT !["Immediate"] = 1]
          /\ UNCHANGED <<Length, Information, Status, pc, WriteQueue, sent, CompleteDpc>>
      BY <1>1, <1>3 DEF StartImmediate, endVars, submitFrame
    <2>2. /\ Current'["Write"] = Current["Write"] /\ Current'["Xoff"] = Current["Xoff"]
          /\ Left'["Write"] = Left["Write"]
      BY <2>1 DEF WriteInv, RequestTypes
    <2>3. KeepsReports
      BY <1>1, <2>1, <2>2 DEF KeepsReports
    <2> QED BY <2>3, KeptReports
  <1> QED
    BY <1>2, <1>3 DEF ImmediateChar

\* A write started has all of it with the interrupt.
LEMMA StartWriteReports ==
    ASSUME WriteInv, ReportInv, SerialStartWrite
    PROVE  ReportInv'
  <1> DEFINE r == Current["Write"]
  <1>1. /\ pc = "give" /\ pc' = "idle" /\ Left' = [Left EXCEPT !["Write"] = Cost(r)]
        /\ UNCHANGED <<Length, WriteQueue, endVars, Current, CompleteDpc, sent>>
    BY DEF SerialStartWrite, callbackFrame, contextVars, queueVars
  <1>2. r # NULL /\ ~CompleteDpc["Write"] /\ "Write" \in OPS
    BY <1>1, UnreferredWrite DEF Starting, Unarmed, OPS
  <1>3. Cost(r) > 0
    <2>1. r \in Queued /\ r \in submitted /\ completions[r] = 0
      BY <1>2, CurrentIsAlone
    <2> QED BY <2>1 DEF WriteInv, SizeInv, Cost, Queued
  <1>4. Left'["Write"] = Cost(r)
    BY <1>1, <1>2 DEF WriteInv, RequestTypes
  <1>5. Cost(r) # 0
    BY <1>3 DEF WriteInv, RequestTypes, Cost
  <1>6. Reported(r)'
    BY <1>1, <1>2, <1>4, <1>5 DEF Reported
  <1> QED
    BY <1>1, <1>6 DEF ReportInv, endVars

\* The next write, if there is one, is not started yet.
LEMMA NextWriteReports ==
    ASSUME WriteInv, WriteInv', ReportInv, SerialGetNextWrite, CounterMayStart
    PROVE  ReportInv'
  <1> DEFINE r == Current["Write"]
             next == IF NextWrite THEN Head(WriteQueue) ELSE NULL
  <1>1. /\ pc \in {"next", "purgeNext"}
        /\ UNCHANGED <<Length, Information, Status, CompleteDpc, sent>>
        /\ Current' = [Current EXCEPT !["Write"] = next,
                                      !["Xoff"] = IF BecomesXoff(r) THEN r ELSE @]
        /\ \/ /\ next = NULL /\ WriteQueue' = WriteQueue
              /\ pc' = (IF pc = "next" THEN "idle" ELSE "purgeXoff")
           \/ next # NULL /\ pc' = "start"
    BY DEF SerialGetNextWrite, contextVars
  <1>2. /\ Current'["Write"] = next /\ ~CompleteDpc["Write"]
        /\ Current'["Xoff"] = IF BecomesXoff(r) THEN r ELSE Current["Xoff"]
    <2>1. Current \in [OPS -> Requests \cup {NULL}] /\ "Write" \in OPS /\ "Xoff" \in OPS
      BY DEF WriteInv, RequestTypes, OPS
    <2>2. ~CompleteDpc["Write"]
      BY <1>1, UnreferredWrite DEF Starting, Unarmed
    <2> HIDE DEF r, next
    <2>3. Current'["Write"] = next
      BY <1>1, <2>1
    <2>4. Current'["Xoff"] = IF BecomesXoff(r) THEN r ELSE Current["Xoff"]
      BY <1>1, <2>1
    <2> QED BY <2>2, <2>3, <2>4
  <1>3. CompleteDpc["Xoff"] => Current["Xoff"] # NULL
    BY DEF WriteInv, ReferenceInv, Unarmed, OPS
  <1>4. BecomesXoff(r) => Current["Xoff"] = NULL
    BY DEF CounterMayStart
  <1>5. CompleteDpc'["Xoff"] => Information'[Current'["Xoff"]] = 0
    BY <1>1, <1>2, <1>3, <1>4 DEF ReportInv
  <1>6. pc' \in {"purgeNext", "purgeXoff"} => WriteQueue' = <<>>
    BY <1>1 DEF ReportInv
  <1>7. Current'["Write"] # NULL => Reported(Current["Write"])'
    <2>1. ASSUME Current'["Write"] # NULL PROVE Reported(Current["Write"])'
      BY <1>1, <1>2, <2>1 DEF Reported, Starting
    <2> QED BY <2>1
  <1> QED
    BY <1>1, <1>5, <1>6, <1>7 DEF ReportInv

-------------------------------------------------------------------------------
(* SerialTryToCompleteCurrent, as far as an application can see it *)

\* The count of the request r, current in op, once the interrupt is asked for it.
CountSoFar(op, r, refType, grab) ==
    IF grab THEN GrabbedInformation(op, r, refType) ELSE Information[r]

LEMMA TryToCompleteSeen ==
    ASSUME WriteInv, NEW op \in OPS, NEW r, r = Current[op], r # NULL,
           NEW status, NEW refType, NEW grab, NEW totalTimer, NEW after,
           TryToCompleteCurrent(op, status, refType, grab, totalTimer, after),
           NEW count,
           count = CountSoFar(op, r, refType, grab)
    PROVE  /\ \A q \in Requests : q # r =>
                 /\ completions'[q] = completions[q]
                 /\ Status'[q] = Status[q] /\ Information'[q] = Information[q]
           /\ \A o \in OPS : o # op => Current'[o] = Current[o] /\ Left'[o] = Left[o]
           /\ Left'[op] = IF grab THEN 0 ELSE Left[op]
           /\ completions[r] = 0
           /\ \/ /\ RefCount[r] \ ClearedRefs(op, r, refType, grab, totalTimer) # {}
                 /\ Current'[op] = r /\ completions'[r] = 0 /\ pc' = after
                 /\ Information'[r] = count
              \/ /\ RefCount[r] \ ClearedRefs(op, r, refType, grab, totalTimer) = {}
                 /\ IF op = "Write"
                      THEN /\ Current'[op] = r /\ completions'[r] = 0
                           /\ pc' = IF after = "idle" THEN "next" ELSE "purgeNext"
                      ELSE Current'[op] = NULL /\ completions'[r] = 1 /\ pc' = after
                 /\ Status'[r] = status
                 /\ Information'[r] = IF status = "CANCELLED" THEN 0 ELSE count
  <1> DEFINE refs == RefCount[r] \ ClearedRefs(op, r, refType, grab, totalTimer)
  <1>1. /\ Current \in [OPS -> Requests \cup {NULL}] /\ r \in Requests
        /\ completions \in [Requests -> Nat] /\ Information \in [Requests -> Nat]
        /\ DOMAIN Status = Requests /\ Left \in [OPS -> Nat]
        /\ completions[r] = 0
    BY CurrentIsAlone DEF WriteInv, RequestTypes
  <1>2. /\ Left' = [Left EXCEPT ![op] = IF grab THEN 0 ELSE @]
        /\ Information' = [Information EXCEPT
                             ![r] = IF refs = {} /\ status = "CANCELLED" THEN 0 ELSE count]
        /\ Status' = [Status EXCEPT ![r] = IF refs = {} THEN status ELSE @]
        /\ \/ refs # {} /\ pc' = after /\ UNCHANGED <<Current, completions>>
           \/ /\ refs = {} /\ op # "Write" /\ pc' = after
              /\ Current' = [Current EXCEPT ![op] = NULL]
              /\ completions' = [completions EXCEPT ![r] = @ + 1]
           \/ /\ refs = {} /\ op = "Write" /\ UNCHANGED <<Current, completions>>
              /\ pc' = IF after = "idle" THEN "next" ELSE "purgeNext"
    BY DEF TryToCompleteCurrent, EndWithoutNext, CountSoFar
  <1> HIDE DEF refs
  <1>3. /\ \A q \in Requests : q # r =>
              /\ completions'[q] = completions[q]
              /\ Status'[q] = Status[q] /\ Information'[q] = Information[q]
        /\ \A o \in OPS : o # op => Current'[o] = Current[o] /\ Left'[o] = Left[o]
        /\ Left'[op] = IF grab THEN 0 ELSE Left[op]
    <2>1. \A q \in Requests : q # r =>
              Status'[q] = Status[q] /\ Information'[q] = Information[q]
      BY <1>1, <1>2
    <2>2. \A q \in Requests : q # r => completions'[q] = completions[q]
      BY <1>1, <1>2
    <2>3. \A o \in OPS : o # op => Current'[o] = Current[o]
      BY <1>1, <1>2
    <2>4. /\ \A o \in OPS : o # op => Left'[o] = Left[o]
          /\ Left'[op] = IF grab THEN 0 ELSE Left[op]
      BY <1>1, <1>2
    <2> QED BY <2>1, <2>2, <2>3, <2>4
  <1>4. /\ Status'[r] = IF refs = {} THEN status ELSE Status[r]
        /\ Information'[r] = IF refs = {} /\ status = "CANCELLED" THEN 0 ELSE count
    BY <1>1, <1>2
  <1>5. CASE refs # {}
    BY <1>1, <1>2, <1>3, <1>4, <1>5 DEF refs
  <1>6. CASE refs = {} /\ op = "Write"
    BY <1>1, <1>2, <1>3, <1>4, <1>6 DEF refs
  <1>7. CASE refs = {} /\ op # "Write"
    <2>1. Current'[op] = NULL /\ completions'[r] = 1 /\ pc' = after
      BY <1>1, <1>2, <1>7
    <2> QED BY <1>1, <1>3, <1>4, <1>7, <2>1 DEF refs
  <1> QED
    BY <1>5, <1>6, <1>7

\* How the callers use it: a success is the DPC's, which leaves the interrupt alone;
\* the others take the request back from the interrupt.
Caller(op, status, refType, grab, totalTimer, after) ==
    /\ op \in OPS /\ Current[op] # NULL
    /\ IF status = "SUCCESS" THEN CompleteDpc[op] /\ ~grab /\ refType = "ISR" ELSE grab
    /\ op = "Write" => status \in {"SUCCESS", "TIMEOUT", "CANCELLED"}
    /\ \/ op = "Xoff" /\ status \in {"SUCCESS", "CANCELLED"}
       \/ op = "Xoff" /\ status = "MORE_WRITES" /\ refType = "XOFF_REF"
       \/ op = "Xoff" /\ refType = "TOTAL_TIMER" /\ ~totalTimer /\ Timer["Xoff"] = "fired"
       \/ op # "Xoff" /\ refType # "XOFF_REF"
    /\ \/ pc = "idle" /\ after \in {"idle", "purgeXoff"}
       \/ pc = "purgeXoff" /\ after = "idle" /\ op = "Xoff"
       \/ pc = "start" /\ after = "give" /\ op = "Xoff"
    /\ TryToCompleteCurrent(op, status, refType, grab, totalTimer, after)
    /\ sent' = sent /\ Length' = Length
    /\ \A o \in OPS : CompleteDpc'[o] => CompleteDpc[o]

\* When a write ends, its context has what was sent of it.
LEMMA WriteEndReports ==
    ASSUME WriteInv, ReportInv,
           NEW status, NEW refType, NEW grab, NEW totalTimer, NEW after,
           Caller("Write", status, refType, grab, totalTimer, after),
           NEW r, r = Current["Write"]
    PROVE  Reported(r)' /\ Current'["Write"] = r /\ Current'["Xoff"] = Current["Xoff"]
  <1>1. PICK count : count = CountSoFar("Write", r, refType, grab)
    OBVIOUS
  <1>2. /\ "Write" \in OPS /\ "Xoff" \in OPS /\ r # NULL /\ r \in Queued
        /\ Referred("Write", r) /\ pc = "idle" /\ sent' = sent /\ Length' = Length
        /\ CompleteDpc'["Write"] => CompleteDpc["Write"]
    BY CurrentIsAlone DEF Caller, OPS
  <1>3. /\ Left'["Write"] = IF grab THEN 0 ELSE Left["Write"]
        /\ Current'["Write"] = r /\ Current'["Xoff"] = Current["Xoff"]
        /\ \/ pc' = after /\ Information'[r] = count
           \/ /\ pc' \in {"next", "purgeNext"} /\ Status'[r] = status
              /\ Information'[r] = IF status = "CANCELLED" THEN 0 ELSE count
    BY <1>1, <1>2, TryToCompleteSeen DEF Caller
  <1>4. Cost(r)' = Cost(r) /\ Cost(r) \in Nat /\ sent[r] \in Nat /\ Left["Write"] \in Nat
    BY <1>2 DEF Cost, WriteInv, RequestTypes
  <1>5. Reported(r)
    BY <1>2 DEF ReportInv
  <1>6. pc \notin Starting
    BY <1>2 DEF Starting
  <1>7. count = sent[r]
    <2>1. CASE Left["Write"] > 0
      <3>1. grab
        BY <1>2, <2>1 DEF Caller, Referred
      <3>2. Left["Write"] = Cost(r) - sent[r]
        BY <2>1 DEF WriteInv, SizeInv
      <3> QED BY <1>1, <1>4, <2>1, <3>1, <3>2 DEF CountSoFar, GrabbedInformation
    <2>2. CASE Left["Write"] = 0
      <3>1. Information[r] = sent[r]
        BY <1>5, <1>6, <2>2 DEF Reported
      <3>2. refType # "XOFF_REF"
        BY DEF Caller
      <3> QED BY <1>1, <2>2, <3>1, <3>2 DEF CountSoFar, GrabbedInformation
    <2> QED BY <1>4, <2>1, <2>2
  <1>8. status = "SUCCESS" => sent[r] = Cost(r)
    BY <1>5 DEF Caller, Reported
  <1>9. /\ status \in {"SUCCESS", "TIMEOUT", "CANCELLED"} /\ after \in {"idle", "purgeXoff"}
    BY <1>2 DEF Caller
  <1>10. CompleteDpc'["Write"] => sent[r] = Cost(r)
    BY <1>2, <1>5 DEF Reported
  <1>11. ASSUME pc' = after, Information'[r] = count PROVE Reported(r)'
    <2>1. Information'[r] = sent'[r] /\ pc' \notin {"next", "purgeNext"}
      BY <1>2, <1>7, <1>9, <1>11
    <2> QED BY <1>2, <1>4, <1>10, <2>1 DEF Reported
  <1>12. ASSUME pc' \in {"next", "purgeNext"}, Status'[r] = status,
                Information'[r] = IF status = "CANCELLED" THEN 0 ELSE count
         PROVE  Reported(r)'
    <2>1. pc' \in Starting
      BY <1>12 DEF Starting
    <2>2. \/ Status'[r] = "CANCELLED" /\ Information'[r] = 0
          \/ Status'[r] = "TIMEOUT" /\ Information'[r] = sent'[r]
          \/ Status'[r] = "SUCCESS" /\ Information'[r] = sent'[r] /\ sent'[r] = Cost(r)'
      BY <1>2, <1>4, <1>7, <1>8, <1>9, <1>12
    <2> QED BY <1>2, <1>4, <1>10, <2>1, <2>2 DEF Reported
  <1> QED
    BY <1>3, <1>11, <1>12

\* No request in line or counting ends, or the one that is counting does.
SameEnds ==
    /\ Current'["Xoff"] = Current["Xoff"]
    /\ \A q \in Queued :
          /\ completions'[q] = completions[q]
          /\ completions[q] > 0 => /\ Status'[q] = Status[q]
                                   /\ Information'[q] = Information[q]

CounterEnds(r) ==
    /\ r = Current["Xoff"] /\ r # NULL /\ Current'["Xoff"] = NULL
    /\ completions'[r] = 1 /\ Information'[r] = 0
    /\ Status'[r] \in {"SUCCESS", "MORE_WRITES", "CANCELLED"}
    /\ \A q \in Queued \ {r} : /\ completions'[q] = completions[q]
                               /\ Status'[q] = Status[q]
                               /\ Information'[q] = Information[q]

LEMMA CallerSeen ==
    ASSUME WriteInv, WriteInv', ReportInv,
           NEW op, NEW status, NEW refType, NEW grab, NEW totalTimer, NEW after,
           Caller(op, status, refType, grab, totalTimer, after),
           pc' \in {"purgeNext", "purgeXoff"} => WriteQueue' = <<>>
    PROVE  /\ ReportInv' /\ Current'["Write"] = Current["Write"]
           /\ SameEnds \/ (op = "Xoff" /\ CounterEnds(Current["Xoff"]))
  <1>1. PICK r, count : r = Current[op] /\ count = CountSoFar(op, r, refType, grab)
    OBVIOUS
  <1>2. /\ op \in OPS /\ r # NULL /\ r \in Requests /\ Referred(op, r)
        /\ op = "Xoff" => r \in XoffCounters
        /\ op = "Immediate" => r \in Immediates
        /\ \A o \in OPS : Current[o] = r => o = op
        /\ "Write" \in OPS /\ "Xoff" \in OPS
        /\ sent' = sent /\ Length' = Length
        /\ \A o \in OPS : CompleteDpc'[o] => CompleteDpc[o]
    BY <1>1, CurrentIsAlone DEF Caller, OPS
  <1>3. /\ \A q \in Requests : q # r =>
              /\ completions'[q] = completions[q]
              /\ Status'[q] = Status[q] /\ Information'[q] = Information[q]
        /\ \A o \in OPS : o # op => Current'[o] = Current[o] /\ Left'[o] = Left[o]
        /\ completions[r] = 0
        /\ \/ /\ RefCount[r] \ ClearedRefs(op, r, refType, grab, totalTimer) # {}
              /\ Current'[op] = r /\ completions'[r] = 0 /\ pc' = after
              /\ Information'[r] = count
           \/ /\ RefCount[r] \ ClearedRefs(op, r, refType, grab, totalTimer) = {}
              /\ IF op = "Write"
                   THEN /\ Current'[op] = r /\ completions'[r] = 0
                        /\ pc' = IF after = "idle" THEN "next" ELSE "purgeNext"
                   ELSE Current'[op] = NULL /\ completions'[r] = 1 /\ pc' = after
              /\ Status'[r] = status
              /\ Information'[r] = IF status = "CANCELLED" THEN 0 ELSE count
    <2>1. TryToCompleteCurrent(op, status, refType, grab, totalTimer, after)
      BY DEF Caller
    <2> QED BY <1>1, <1>2, <2>1, TryToCompleteSeen
  <1>4. \A o \in OPS : o # op /\ Current[o] # NULL =>
            /\ Current[o] \in Requests
            /\ Information'[Current[o]] = Information[Current[o]]
            /\ Status'[Current[o]] = Status[Current[o]]
    BY <1>2, <1>3, CurrentIsAlone
  <1>5. \A q \in Queued : q \in Requests /\ (op = "Immediate" => q # r)
    BY <1>2, WriteRequestsAssumption DEF Requests
  <1>6. CompleteDpc["Xoff"] => Current["Xoff"] # NULL
    BY DEF WriteInv, ReferenceInv, Unarmed, OPS
  <1>7. CASE op = "Write"
    <2>1. Reported(r)' /\ Current'["Write"] = r /\ Current'["Xoff"] = Current["Xoff"]
      BY <1>1, <1>7, WriteEndReports
    <2>2. CompleteDpc'["Xoff"] => Information'[Current'["Xoff"]] = 0
      BY <1>2, <1>4, <1>6, <1>7, <2>1 DEF ReportInv
    <2>3. ReportInv'
      BY <1>1, <1>2, <1>7, <2>1, <2>2 DEF ReportInv
    <2>4. completions'[r] = completions[r]
      BY <1>3, <1>7
    <2>5. SameEnds
      BY <1>3, <1>5, <2>1, <2>4 DEF SameEnds
    <2> QED BY <1>1, <1>7, <2>1, <2>3, <2>5
  <1>8. CASE op # "Write"
    <2>1. /\ pc' = after /\ Current'["Write"] = Current["Write"]
          /\ Left'["Write"] = Left["Write"]
      BY <1>2, <1>3, <1>8
    <2>2. \/ pc' = "give"
          \/ pc \notin Starting /\ pc' \in {"idle", "purgeXoff"}
      BY <1>8, <2>1 DEF Caller, Starting
    <2>3. op = "Xoff" => count \in {0, Information[r]}
      BY <1>1 DEF CountSoFar, GrabbedInformation
    <2>4. CompleteDpc'["Xoff"] =>
             /\ CompleteDpc["Xoff"] /\ Current'["Xoff"] = Current["Xoff"]
             /\ Information'[Current["Xoff"]] \in {0, Information[Current["Xoff"]]}
      <3>1. CASE op = "Xoff"
        <4>1. CompleteDpc'["Xoff"] => Current'["Xoff"] # NULL
          BY DEF WriteInv, ReferenceInv, Unarmed, OPS
        <4> QED BY <1>1, <1>2, <1>3, <2>3, <3>1, <4>1
      <3>2. CASE op # "Xoff"
        BY <1>2, <1>3, <1>4, <1>6, <3>2
      <3> QED BY <3>1, <3>2
    <2>5. ReportInv'
      <3>1. KeepsReports
        BY <1>2, <1>4, <1>8, <2>1, <2>2, <2>4 DEF KeepsReports
      <3> QED BY <3>1, KeptReports
    <2>6. CASE op = "Immediate"
      <3>1. Current'["Xoff"] = Current["Xoff"]
        BY <1>2, <1>3, <2>6
      <3>2. SameEnds
        BY <1>3, <1>5, <2>6, <3>1 DEF SameEnds
      <3> QED BY <2>1, <2>5, <3>2
    <2>7. CASE op = "Xoff" /\ Current'[op] = r /\ completions'[r] = 0
      <3>1. SameEnds
        BY <1>1, <1>3, <1>5, <2>7 DEF SameEnds
      <3> QED BY <2>1, <2>5, <3>1
    <2>8. CASE /\ op = "Xoff"
               /\ RefCount[r] \ ClearedRefs(op, r, refType, grab, totalTimer) = {}
               /\ Current'[op] = NULL /\ completions'[r] = 1 /\ Status'[r] = status
               /\ Information'[r] = IF status = "CANCELLED" THEN 0 ELSE count
      <3>1. ~(refType = "TOTAL_TIMER" /\ ~totalTimer /\ Timer["Xoff"] = "fired")
        BY <1>2, <2>8 DEF Referred, ClearedRefs
      <3>2. CASE status = "SUCCESS"
        <4>1. CompleteDpc["Xoff"] /\ ~grab
          BY <2>8, <3>2 DEF Caller
        <4>2. Information'[r] = 0
          BY <1>1, <2>8, <3>2, <4>1 DEF CountSoFar, ReportInv
        <4>3. CounterEnds(r)
          BY <1>1, <1>2, <1>3, <1>5, <2>8, <3>2, <4>2 DEF CounterEnds
        <4> QED BY <1>1, <2>1, <2>5, <2>8, <4>3
      <3>3. CASE status = "CANCELLED"
        <4>1. CounterEnds(r)
          BY <1>1, <1>2, <1>3, <1>5, <2>8, <3>3 DEF CounterEnds
        <4> QED BY <1>1, <2>1, <2>5, <2>8, <4>1
      <3>4. CASE status = "MORE_WRITES" /\ refType = "XOFF_REF"
        <4>1. grab
          BY <3>4 DEF Caller
        <4>2. count = 0
          BY <1>1, <2>8, <3>4, <4>1 DEF CountSoFar, GrabbedInformation
        <4>3. CounterEnds(r)
          BY <1>1, <1>2, <1>3, <1>5, <2>8, <3>4, <4>2 DEF CounterEnds
        <4> QED BY <1>1, <2>1, <2>5, <2>8, <4>3
      <3> QED
        BY <2>8, <3>1, <3>2, <3>3, <3>4 DEF Caller
    <2> QED
      BY <1>2, <1>3, <1>8, <2>6, <2>7, <2>8 DEF OPS
  <1> QED
    BY <1>7, <1>8

-------------------------------------------------------------------------------
(* The line *)

LineStep == [Line!Next]_Line!vars

\* The current write stands in front of the queue.
LEMMA LineProperties ==
    ASSUME WriteInv
    PROVE  /\ InLine \in Seq(Queued)
           /\ WriteQueue \in Seq(Queued)
           /\ Waiting(InLine) = Waiting(WriteQueue) \cup ({Current["Write"]} \ {NULL})
           /\ Current["Write"] = NULL => InLine = WriteQueue
           /\ Current["Write"] # NULL =>
                 /\ Current["Write"] \in Queued
                 /\ InLine = <<Current["Write"]>> \o WriteQueue
                 /\ InLine # <<>> /\ Len(InLine) = Len(WriteQueue) + 1
                 /\ InLine[1] = Current["Write"] /\ Head(InLine) = Current["Write"]
                 /\ Tail(InLine) = WriteQueue
                 /\ \A i \in 1 .. Len(WriteQueue) : InLine[i + 1] = WriteQueue[i]
  <1>1. WriteQueue \in Seq(Queued) /\ Current["Write"] \in Queued \cup {NULL}
    BY DEF WriteInv, RequestTypes, KindInv
  <1>2. CASE Current["Write"] = NULL
    <2>1. InLine = WriteQueue
      BY <1>1, <1>2, ConcatEmptySeq DEF InLine
    <2> QED BY <1>1, <1>2, <2>1
  <1>3. CASE Current["Write"] # NULL
    <2>1. InLine = <<Current["Write"]>> \o WriteQueue
      BY <1>3 DEF InLine
    <2>2. PICK c : c = Current["Write"] /\ c \in Queued /\ c # NULL
      BY <1>1, <1>3
    <2>3. InLine = <<c>> \o WriteQueue
      BY <2>1, <2>2
    <2>4. /\ InLine \in Seq(Queued)
          /\ InLine # <<>> /\ Len(InLine) = Len(WriteQueue) + 1
          /\ InLine[1] = c /\ Head(InLine) = c /\ Tail(InLine) = WriteQueue
          /\ \A i \in 1 .. Len(WriteQueue) : InLine[i + 1] = WriteQueue[i]
          /\ Waiting(InLine) = {c} \cup Waiting(WriteQueue)
      <3>1. PICK s, t : s = WriteQueue /\ t = InLine
        OBVIOUS
      <3>2. /\ t \in Seq(Queued) /\ t # <<>> /\ Len(t) = Len(s) + 1
            /\ t[1] = c /\ Head(t) = c /\ Tail(t) = s
            /\ \A i \in 1 .. Len(s) : t[i + 1] = s[i]
            /\ Waiting(t) = {c} \cup Waiting(s)
        <4>1. c \in Queued /\ s \in Seq(Queued) /\ t = <<c>> \o s
          BY <1>1, <2>2, <2>3, <3>1
        <4>2. /\ t \in Seq(Queued) /\ t # <<>> /\ Len(t) = Len(s) + 1
              /\ t[1] = c /\ Head(t) = c /\ Tail(t) = s
              /\ \A i \in 1 .. Len(s) : t[i + 1] = s[i]
          BY <4>1, FrontProperties
        <4>3. Waiting(t) = {c} \cup Waiting(s)
          BY <4>1, WaitingWithFront
        <4> QED BY <4>2, <4>3
      <3> QED BY <3>1, <3>2
    <2> QED BY <1>1, <2>1, <2>2, <2>4
  <1> QED
    BY <1>2, <1>3

\* How a request stands in the line's results.
LEMMA SettlementProperties ==
    ASSUME WriteInv, NEW r \in Queued
    PROVE  /\ r \in Waiting(WriteQueue) \cup {Current["Write"]} =>
                 Settlement(r) = [status |-> "none", count |-> 0]
           /\ r = Current["Xoff"] => Settlement(r) = [status |-> "counting", count |-> 0]
           /\ r \notin submitted => Settlement(r) = [status |-> "none", count |-> 0]
           /\ Results[r] = Settlement(r)
  <1>1. "Write" \in OPS /\ "Xoff" \in OPS /\ r \in Requests /\ r # NULL
    BY WriteRequestsAssumption DEF OPS, Requests
  <1>2. r = Current["Write"] =>
          r # Current["Xoff"] /\ r \notin canceledOnQueue /\ completions[r] = 0
    BY <1>1, CurrentIsAlone
  <1>3. r = Current["Xoff"] => r \notin canceledOnQueue /\ completions[r] = 0
    BY <1>1, CurrentIsAlone
  <1>4. r \in Waiting(WriteQueue) =>
          r # Current["Xoff"] /\ r \notin canceledOnQueue /\ completions[r] = 0
    BY <1>1 DEF WriteInv, PlaceInv, InProgress
  <1>5. r \notin submitted =>
          r # Current["Xoff"] /\ r \notin canceledOnQueue /\ completions[r] = 0
    BY <1>1, Unsubmitted
  <1> QED
    BY <1>2, <1>3, <1>4, <1>5 DEF Settlement, Results

LEMMA SameSizes == ASSUME Length' = Length PROVE SentSize' = SentSize
  BY DEF SentSize, Cost

LEMMA SameSettlements ==
    ASSUME SameEnds, canceledOnQueue' = canceledOnQueue
    PROVE  Results' = Results
  <1>1. ASSUME NEW q \in Queued PROVE Settlement(q)' = Settlement(q)
    BY DEF SameEnds, Settlement
  <1> QED
    BY <1>1 DEF Results

LEMMA NothingSeen ==
    ASSUME SameEnds, Current'["Write"] = Current["Write"],
           UNCHANGED <<WriteQueue, canceledOnQueue, sent, Length>>
    PROVE  LineStep
  <1>1. InLine' = InLine
    BY DEF InLine
  <1> QED
    BY <1>1, SameSizes, SameSettlements DEF LineStep, Line!vars

\* EndCounting
LEMMA CounterEndSeen ==
    ASSUME WriteInv, NEW r, CounterEnds(r), Current'["Write"] = Current["Write"],
           UNCHANGED <<WriteQueue, canceledOnQueue, sent, Length>>
    PROVE  LineStep
  <1>1. r \in XoffCounters /\ r \in Queued /\ r \notin canceledOnQueue /\ r # NULL
    BY CurrentIsAlone DEF CounterEnds, OPS, Queued
  <1>2. Results[r] = [status |-> "counting", count |-> 0]
    BY <1>1, SettlementProperties DEF CounterEnds
  <1>3. Settlement(r)' = [status |-> Status'[r], count |-> 0]
    BY <1>1 DEF CounterEnds, Settlement
  <1>4. ASSUME NEW q \in Queued \ {r} PROVE Settlement(q)' = Settlement(q)
    <2>1. q # NULL
      BY WriteRequestsAssumption DEF Requests
    <2> QED BY <2>1 DEF CounterEnds, Settlement
  <1>5. Results' = [Results EXCEPT ![r] = [status |-> Status'[r], count |-> 0]]
    BY <1>1, <1>3, <1>4 DEF Results
  <1>6. InLine' = InLine
    BY DEF InLine
  <1>7. Line!EndCounting(r)
    BY <1>2, <1>5, <1>6, SameSizes DEF Line!EndCounting, Line!Counting, CounterEnds
  <1> QED
    BY <1>1, <1>7 DEF LineStep, Line!Next, Line!Requests, Queued

\* Purge: all that wait are given up.
LEMMA QueueGivenUp ==
    ASSUME WriteInv, SameEnds, Current'["Write"] = Current["Write"],
           canceledOnQueue' = canceledOnQueue \cup Waiting(WriteQueue),
           WriteQueue' = <<>>, UNCHANGED <<sent, Length>>
    PROVE  LineStep
  <1>1. CASE WriteQueue = <<>>
    <2>1. Waiting(WriteQueue) = {}
      BY <1>1, EmptyQueue
    <2> QED BY <1>1, <2>1, NothingSeen
  <1>2. CASE WriteQueue # <<>>
    <2> DEFINE i == IF Current["Write"] = NULL THEN 1 ELSE 2
    <2>1. WriteQueue \in Seq(Queued) /\ Len(WriteQueue) \in Nat \ {0}
      BY <1>2, LineProperties, EmptySeq
    <2>2. /\ i \in 1 .. Len(InLine)
          /\ {InLine[j] : j \in i .. Len(InLine)} = Waiting(WriteQueue)
      <3>1. CASE Current["Write"] = NULL
        BY <2>1, <3>1, LineProperties DEF Waiting
      <3>2. CASE Current["Write"] # NULL
        <4>1. Len(InLine) = Len(WriteQueue) + 1
              /\ \A j \in 1 .. Len(WriteQueue) : InLine[j + 1] = WriteQueue[j]
          BY <3>2, LineProperties
        <4>2. ASSUME NEW j \in 2 .. Len(InLine) PROVE InLine[j] \in Waiting(WriteQueue)
          <5>1. j - 1 \in 1 .. Len(WriteQueue) /\ InLine[j] = WriteQueue[j - 1]
            BY <2>1, <4>1
          <5> QED BY <5>1 DEF Waiting
        <4>3. ASSUME NEW j \in 1 .. Len(WriteQueue)
              PROVE  \E k \in 2 .. Len(InLine) : InLine[k] = WriteQueue[j]
          <5>1. j + 1 \in 2 .. Len(InLine)
            BY <2>1, <4>1
          <5> QED BY <4>1, <5>1
        <4>4. {InLine[j] : j \in 2 .. Len(InLine)} = Waiting(WriteQueue)
          BY <4>2, <4>3 DEF Waiting
        <4> QED BY <2>1, <3>2, <4>1, <4>4
      <3> QED BY <3>1, <3>2
    <2>3. InLine' = SubSeq(InLine, 1, i - 1)
      <3>1. CASE Current["Write"] = NULL
        <4>1. InLine' = <<>> \o <<>>
          BY <3>1 DEF InLine
        <4>2. SubSeq(InLine, 1, 0) = <<>>
          BY SubSeqEmpty
        <4>3. <<>> \o <<>> = <<>>
          BY EmptyQueue, ConcatEmptySeq
        <4> QED BY <3>1, <4>1, <4>2, <4>3
      <3>2. CASE Current["Write"] # NULL
        <4>1. InLine' = <<Current["Write"]>> \o <<>>
          BY <3>2 DEF InLine
        <4>2. Current["Write"] \in Queued /\ InLine = <<Current["Write"]>> \o WriteQueue
          BY <3>2, LineProperties
        <4>3. <<Current["Write"]>> \o <<>> = <<Current["Write"]>>
          <5>1. <<Current["Write"]>> \in Seq(Queued)
            BY <4>2
          <5> QED BY <5>1, ConcatEmptySeq
        <4>4. SubSeq(InLine, 1, 1) = <<Current["Write"]>>
          BY <2>1, <4>2, BehindTheFront
        <4>5. i - 1 = 1
          BY <3>2
        <4> QED BY <4>1, <4>3, <4>4, <4>5
      <3> QED BY <3>1, <3>2
    <2>4. Results' = [r \in Queued |->
                        IF r \in Waiting(WriteQueue)
                          THEN [status |-> "CANCELLED", count |-> 0] ELSE Results[r]]
      <3>1. ASSUME NEW r \in Queued
            PROVE  Settlement(r)' = IF r \in Waiting(WriteQueue)
                          THEN [status |-> "CANCELLED", count |-> 0] ELSE Settlement(r)
        BY DEF SameEnds, Settlement
      <3> QED BY <3>1 DEF Results
    <2> HIDE DEF i
    <2>5. Line!Purge(i)
      BY <2>2, <2>3, <2>4, SameSizes
      DEF Line!Purge, Line!GiveUp, Line!Aborted, Line!Requests, Queued
    <2> QED
      BY <2>2, <2>5 DEF LineStep, Line!Next, Line!Abort
  <1> QED
    BY <1>1, <1>2

-------------------------------------------------------------------------------
(* Each action is a step of the line, or none *)

LEMMA OthersRefine ==
    ASSUME \/ GetCommStatus \/ LineError \/ SerialStartWrite
           \/ \E t \in WriteTimeoutChoices : SetTimeouts(t)
           \/ \E f \in Flushes : FlushStopsQueue(f) \/ FlushEnds(f)
           \/ \E op \in OPS : TimerExpires(op)
           \/ UNCHANGED vars
    PROVE  LineStep
  <1>1. UNCHANGED <<contextVars, WriteQueue, canceledOnQueue, endVars, sent, Current>>
    BY DEF GetCommStatus, LineError, SetTimeouts, FlushStopsQueue, FlushEnds, SerialStartWrite,
           TimerExpires, vars, contextVars, queueVars, endVars, isrVars, isrFrame, callbackFrame
  <1>2. SameEnds
    BY <1>1 DEF SameEnds, endVars
  <1> QED
    BY <1>1, <1>2, NothingSeen DEF contextVars

\* The interrupt sends an immediate character, or counts one received.
LEMMA CountsRefine ==
    ASSUME WriteInv, ReportInv, TransmitImmediateChar \/ CountReceived
    PROVE  LineStep /\ ReportInv'
  <1>1. /\ UNCHANGED <<Length, WriteQueue, canceledOnQueue, completions, Current, sent, pc>>
        /\ "Write" \in OPS /\ "Xoff" \in OPS
    BY DEF TransmitImmediateChar, CountReceived, isrFrame, contextVars, queueVars, OPS
  <1>2. \A o \in {"Write", "Xoff"} : Current[o] # NULL =>
            Current[o] \in Requests /\ completions[Current[o]] = 0
    BY <1>1, CurrentIsAlone
  <1>3. CASE TransmitImmediateChar
    <2>1. /\ UNCHANGED <<Information, Status>> /\ Left'["Write"] = Left["Write"]
          /\ CompleteDpc'["Write"] = CompleteDpc["Write"]
          /\ CompleteDpc'["Xoff"] = CompleteDpc["Xoff"]
      BY <1>1, <1>3 DEF TransmitImmediateChar, WriteInv, RequestTypes
    <2>2. KeepsReports
      BY <1>1, <2>1 DEF KeepsReports, ReportInv
    <2>3. SameEnds
      BY <1>1, <2>1 DEF SameEnds
    <2> QED BY <1>1, <2>2, <2>3, KeptReports, NothingSeen
  <1>4. CASE CountReceived
    <2>1. PICK x : x = Current["Xoff"]
      OBVIOUS
    <2>2. x # NULL /\ x \in Requests /\ completions[x] = 0 /\ Current["Write"] # x
      <3>1. Current["Xoff"] # NULL
        BY <1>4 DEF CountReceived, WriteInv, ReferenceInv, Unarmed, OPS
      <3>2. Current["Write"] # x
        BY <2>1, <3>1 DEF WriteInv, KindInv
      <3> QED BY <1>2, <2>1, <3>1, <3>2
    <2>3. /\ \A q \in Requests : q # x => /\ Status'[q] = Status[q]
                                          /\ Information'[q] = Information[q]
          /\ CompleteDpc'["Xoff"] => Information'[x] = 0
          /\ CompleteDpc'["Write"] = CompleteDpc["Write"]
          /\ Left'["Write"] = Left["Write"]
      <3>1. /\ Status \in [Requests -> Statuses] /\ Information \in [Requests -> Nat]
            /\ CompleteDpc \in [OPS -> BOOLEAN] /\ Left \in [OPS -> Nat]
            /\ Left' = [Left EXCEPT !["Xoff"] = @ - 1]
            /\ CompleteDpc["Xoff"] => Information[x] = 0
        BY <1>4, <2>1 DEF CountReceived, WriteInv, RequestTypes, Statuses, ReportInv
      <3>2. \/ /\ Status' = [Status EXCEPT ![x] = "SUCCESS"]
               /\ Information' = [Information EXCEPT ![x] = 0]
               /\ CompleteDpc' = [CompleteDpc EXCEPT !["Xoff"] = TRUE]
            \/ UNCHANGED <<Status, Information, CompleteDpc>>
        BY <1>4, <2>1 DEF CountReceived
      <3>3. Left'["Write"] = Left["Write"]
        BY <1>1, <3>1
      <3> QED BY <1>1, <2>2, <3>1, <3>2, <3>3
    <2>4. ReportInv'
      <3>1. Current["Write"] # NULL =>
              /\ Information'[Current["Write"]] = Information[Current["Write"]]
              /\ Status'[Current["Write"]] = Status[Current["Write"]]
        BY <1>2, <2>2, <2>3
      <3>2. Cost(Current["Write"])' = Cost(Current["Write"])
        BY <1>1 DEF Cost
      <3>3. Current["Write"] # NULL => Reported(Current["Write"])'
        BY <1>1, <2>3, <3>1, <3>2 DEF ReportInv, Reported
      <3> QED BY <1>1, <2>1, <2>3, <3>3 DEF ReportInv
    <2>5. SameEnds
      <3>1. ASSUME NEW q \in Queued, completions[q] > 0
            PROVE  Status'[q] = Status[q] /\ Information'[q] = Information[q]
        BY <2>2, <2>3, <3>1 DEF Requests
      <3> QED BY <1>1, <3>1 DEF SameEnds
    <2> QED BY <1>1, <2>4, <2>5, NothingSeen
  <1> QED
    BY <1>3, <1>4

\* Transmit: what the interrupt hands over belongs to the front request.
LEMMA TransmitWriteRefines ==
    ASSUME WriteInv, ReportInv, TransmitWrite
    PROVE  LineStep /\ ReportInv'
  <1>1. PICK r, n, left : /\ r = Current["Write"] /\ n = AmountToWrite
                          /\ left = Left["Write"] - n
    OBVIOUS
  <1>2. "Write" \in OPS /\ "Xoff" \in OPS /\ Left["Write"] \in Nat \ {0}
    BY DEF TransmitWrite, WriteInv, RequestTypes, OPS
  <1>3. r # NULL
    BY <1>1, <1>2 DEF WriteInv, ReferenceInv, Unarmed
  <1>4. /\ r \in Queued /\ r \in Requests /\ completions[r] = 0
        /\ r # Current["Xoff"] /\ r \in submitted
    BY <1>1, <1>2, <1>3, CurrentIsAlone
  <1>5. /\ Left["Write"] = Cost(r) - sent[r]
        /\ sent \in [Queued -> Nat] /\ Cost(r) \in Nat
    BY <1>1, <1>2, <1>4 DEF WriteInv, SizeInv, RequestTypes, Cost
  <1>6. Cost(r) <= MaxLength
    BY <1>4, WriteBoundsAssumption DEF ReportInv, Cost
  <1>7. /\ n \in 1 .. MaxLength /\ n <= Left["Write"] /\ left \in Nat
        /\ sent[r] + n <= Cost(r) /\ (left = 0 => sent[r] + n = Cost(r))
    <2>1. n = IF TxFifoAmount < Left["Write"] THEN TxFifoAmount ELSE Left["Write"]
      BY <1>1 DEF AmountToWrite, Lesser
    <2> QED BY <1>1, <1>2, <1>4, <1>5, <1>6, <2>1, WriteBoundsAssumption
  <1>8. /\ Left' = [Left EXCEPT !["Write"] = left]
        /\ sent' = [sent EXCEPT ![r] = @ + n]
        /\ \/ /\ left = 0 /\ Information' = [Information EXCEPT ![r] = Cost(r)]
              /\ CompleteDpc' = [CompleteDpc EXCEPT !["Write"] = TRUE]
           \/ left # 0 /\ UNCHANGED <<Information, CompleteDpc>>
        /\ UNCHANGED <<Length, WriteQueue, canceledOnQueue, completions, Current, pc,
                       Status>>
    BY <1>1 DEF TransmitWrite, isrFrame, contextVars, queueVars
  <1>9. pc \notin Starting /\ ~CompleteDpc["Write"]
    <2>1. pc \notin Starting
      BY <1>2, UnreferredWrite
    <2>2. Referred("Write", r)
      BY <1>1, <1>2, <1>3 DEF WriteInv, ReferenceInv
    <2> QED BY <1>2, <2>1, <2>2 DEF Referred
  <1>10. /\ Left'["Write"] = left /\ sent'[r] = sent[r] + n
         /\ CompleteDpc'["Xoff"] = CompleteDpc["Xoff"]
         /\ \A q \in Requests : q # r => Information'[q] = Information[q]
         /\ left = 0 => Information'[r] = Cost(r)
         /\ left # 0 => ~CompleteDpc'["Write"]
    <2>1. /\ Information \in [Requests -> Nat] /\ Left \in [OPS -> Nat]
          /\ CompleteDpc \in [OPS -> BOOLEAN]
      BY DEF WriteInv, RequestTypes
    <2> QED BY <1>2, <1>4, <1>5, <1>8, <1>9, <2>1
  <1>11. Reported(r)'
    <2>1. Cost(r)' = Cost(r)
      BY <1>8 DEF Cost
    <2>2. left = 0 => Information'[r] = sent'[r] /\ sent'[r] = Cost(r)
      BY <1>7, <1>10
    <2> QED BY <1>8, <1>9, <1>10, <2>1, <2>2 DEF Reported, Starting
  <1>12. ReportInv'
    <2>1. CompleteDpc'["Xoff"] => Information'[Current'["Xoff"]] = 0
      <3>1. CompleteDpc["Xoff"] => Current["Xoff"] # NULL
        BY <1>2 DEF WriteInv, ReferenceInv, Unarmed
      <3>2. Current["Xoff"] # NULL => Current["Xoff"] \in Requests
        BY <1>2, CurrentIsAlone
      <3> QED BY <1>4, <1>8, <1>10, <3>1, <3>2 DEF ReportInv
    <2> QED BY <1>1, <1>8, <1>11, <2>1 DEF ReportInv
  <1>13. Results' = Results
    <2>1. ASSUME NEW q \in Queued, completions[q] > 0
          PROVE  Information'[q] = Information[q]
      BY <1>4, <1>10, <2>1 DEF Requests
    <2>2. SameEnds
      BY <1>8, <2>1 DEF SameEnds
    <2> QED BY <1>8, <2>2, SameSettlements
  <1>14. InLine # <<>> /\ Head(InLine) = r /\ InLine' = InLine
    BY <1>1, <1>3, <1>8, LineProperties DEF InLine
  <1>15. SentSize[r] = Cost(r) /\ SentSize' = SentSize
    BY <1>4, <1>8, SameSizes DEF SentSize
  <1>16. Line!Transmit
    BY <1>7, <1>8, <1>13, <1>14, <1>15 DEF Line!Transmit
  <1> QED
    BY <1>12, <1>16 DEF LineStep, Line!Next

\* Join: a request accepted goes to the end of the line.
LEMMA AcceptedRefines ==
    ASSUME WriteInv, NEW r \in Queued \ submitted, StartOrQueue(r),
           UNCHANGED <<endVars, submitFrame>>,
           \/ r \in Writes /\ \E n \in 1 .. MaxLength : Length' = [Length EXCEPT ![r] = n]
           \/ r \in XoffCounters /\ Length' = Length
    PROVE  LineStep
  <1>1. /\ r # NULL /\ r \notin Waiting(WriteQueue) /\ Current["Write"] # r
        /\ Current["Xoff"] # r /\ r \in Requests
    BY Unsubmitted DEF Requests, OPS
  <1>2. /\ r \notin Waiting(InLine) /\ Results[r] = [status |-> "none", count |-> 0]
        /\ WriteQueue \in Seq(Queued)
    BY <1>1, LineProperties, SettlementProperties
  <1>3. InLine' = Append(InLine, r) /\ Current'["Xoff"] = Current["Xoff"]
    <2>1. CASE /\ IsQueueEmpty /\ Current["Write"] = NULL
               /\ Current' = [Current EXCEPT !["Write"] = r] /\ WriteQueue' = WriteQueue
      <3>1. WriteQueue = <<>> /\ InLine = <<>>
        BY <2>1, LineProperties DEF IsQueueEmpty
      <3>2. Current'["Write"] = r /\ Current'["Xoff"] = Current["Xoff"]
        BY <2>1 DEF WriteInv, RequestTypes, OPS
      <3>3. InLine' = <<r>> \o <<>>
        BY <1>1, <2>1, <3>1, <3>2 DEF InLine
      <3>4. <<r>> \o <<>> = Append(<<>>, r)
        <4>1. <<r>> \in Seq(Queued)
          OBVIOUS
        <4>2. <<r>> \o <<>> = <<r>>
          BY <4>1, ConcatEmptySeq
        <4>3. Append(<<>>, r) = <<r>>
          OBVIOUS
        <4> QED BY <4>2, <4>3
      <3> QED BY <3>1, <3>2, <3>3, <3>4
    <2>2. CASE WriteQueue' = Append(WriteQueue, r) /\ Current' = Current
      <3>1. CASE Current["Write"] = NULL
        <4>1. InLine' = <<>> \o Append(WriteQueue, r) /\ InLine = WriteQueue
          BY <2>2, <3>1, LineProperties DEF InLine
        <4>2. Append(WriteQueue, r) \in Seq(Queued)
          BY <1>2, AppendProperties
        <4>3. <<>> \o Append(WriteQueue, r) = Append(WriteQueue, r)
          BY <4>2, ConcatEmptySeq
        <4> QED BY <2>2, <4>1, <4>3
      <3>2. CASE Current["Write"] # NULL
        <4>1. PICK c : c = Current["Write"] /\ c \in Queued
          BY <3>2, LineProperties
        <4>2. InLine' = <<c>> \o Append(WriteQueue, r) /\ InLine = <<c>> \o WriteQueue
          BY <2>2, <3>2, <4>1 DEF InLine
        <4>3. <<c>> \o Append(WriteQueue, r) = Append(<<c>> \o WriteQueue, r)
          BY <1>2, <4>1, BehindTheFront
        <4> QED BY <2>2, <4>2, <4>3
      <3> QED BY <3>1, <3>2
    <2> QED BY <2>1, <2>2 DEF StartOrQueue
  <1>4. Results' = Results
    <2>1. SameEnds
      BY <1>3 DEF SameEnds, endVars
    <2> QED BY <2>1, SameSettlements DEF submitFrame
  <1>5. sent' = sent
    BY DEF submitFrame
  <1>6. IF r \in Writes THEN \E n \in 1 .. MaxLength : SentSize' = [SentSize EXCEPT ![r] = n]
                        ELSE SentSize' = SentSize
    <2>1. CASE r \in Writes /\ \E n \in 1 .. MaxLength : Length' = [Length EXCEPT ![r] = n]
      <3>1. PICK n \in 1 .. MaxLength : Length' = [Length EXCEPT ![r] = n]
        BY <2>1
      <3>2. SentSize' = [SentSize EXCEPT ![r] = n]
        BY <2>1, <3>1 DEF SentSize, Cost, WriteInv, RequestTypes
      <3> QED BY <2>1, <3>2
    <2>2. CASE r \in XoffCounters /\ Length' = Length
      <3>1. r \notin Writes
        BY <2>2, WriteRequestsAssumption
      <3> QED BY <2>2, <3>1, SameSizes
    <2> QED BY <2>1, <2>2
  <1>7. Line!Join(r)
    BY <1>2, <1>3, <1>4, <1>5, <1>6 DEF Line!Join, Line!Unsettled, Line!Waiting, Waiting
  <1> QED
    BY <1>7 DEF LineStep, Line!Next, Line!Requests, Queued

\* Refuse
LEMMA RefusedRefines ==
    ASSUME WriteInv, NEW r \in Queued \ submitted, Refuse(r, "CANCELLED"),
           UNCHANGED submitFrame
    PROVE  LineStep
  <1>1. /\ r # NULL /\ r \notin Waiting(WriteQueue) /\ r \notin canceledOnQueue
        /\ Current["Write"] # r /\ completions[r] = 0 /\ r \in Requests
    BY Unsubmitted DEF Requests, OPS
  <1>2. r \notin Waiting(InLine) /\ Results[r] = [status |-> "none", count |-> 0]
    BY <1>1, LineProperties, SettlementProperties
  <1>3. /\ completions' = [completions EXCEPT ![r] = @ + 1]
        /\ Status' = [Status EXCEPT ![r] = "CANCELLED"]
        /\ Information' = [Information EXCEPT ![r] = 0]
        /\ UNCHANGED <<Length, Current, WriteQueue, canceledOnQueue, sent>>
    BY DEF Refuse, Finish, submitFrame
  <1>4. /\ completions'[r] = 1 /\ Status'[r] = "CANCELLED" /\ Information'[r] = 0
        /\ \A q \in Requests : q # r =>
              /\ completions'[q] = completions[q]
              /\ Status'[q] = Status[q] /\ Information'[q] = Information[q]
    BY <1>1, <1>3 DEF WriteInv, RequestTypes
  <1>5. Results' = [Results EXCEPT ![r] = [status |-> "CANCELLED", count |-> 0]]
    <2>1. Settlement(r)' = [status |-> "CANCELLED", count |-> 0]
      BY <1>1, <1>3, <1>4 DEF Settlement
    <2>2. ASSUME NEW q \in Queued \ {r} PROVE Settlement(q)' = Settlement(q)
      <3>1. q \in Requests /\ q # r
        BY DEF Requests
      <3> QED BY <1>3, <1>4, <3>1 DEF Settlement
    <2> QED BY <2>1, <2>2 DEF Results
  <1>6. InLine' = InLine
    BY <1>3 DEF InLine
  <1>7. Line!Refuse(r)
    BY <1>2, <1>3, <1>5, <1>6, SameSizes
    DEF Line!Refuse, Line!Unsettled, Line!Aborted, Line!Waiting, Waiting
  <1> QED
    BY <1>7 DEF LineStep, Line!Next, Line!Requests, Queued

LEMMA SubmissionsRefine ==
    ASSUME WriteInv, SubmitWrite \/ SubmitXoff
    PROVE  LineStep
  <1>1. ASSUME NEW r \in Writes, NEW n \in 1 .. MaxLength, SerialEvtIoWrite(r, n)
        PROVE  LineStep
    <2>1. r \in Queued \ submitted /\ UNCHANGED submitFrame
      BY <1>1 DEF SerialEvtIoWrite, Queued
    <2>2. CASE Refuse(r, "CANCELLED")
      BY <2>1, <2>2, RefusedRefines
    <2>3. CASE /\ Length' = [Length EXCEPT ![r] = n]
               /\ StartOrQueue(r) /\ UNCHANGED endVars
      BY <2>1, <2>3, AcceptedRefines
    <2> QED
      BY <1>1, <2>2, <2>3 DEF SerialEvtIoWrite
  <1>2. ASSUME NEW r \in XoffCounters, NEW n \in 1 .. MaxCounter,
               NEW t \in XoffTimeoutChoices, XoffCounter(r, n, t)
        PROVE  LineStep
    <2>1. r \in Queued \ submitted /\ UNCHANGED submitFrame
      BY <1>2 DEF XoffCounter, Queued
    <2>2. CASE Refuse(r, "CANCELLED")
      BY <2>1, <2>2, RefusedRefines
    <2>3. CASE Length' = Length /\ StartOrQueue(r) /\ UNCHANGED endVars
      BY <2>1, <2>3, AcceptedRefines
    <2> QED
      BY <1>2, <2>2, <2>3 DEF XoffCounter
  <1> QED
    BY <1>1, <1>2 DEF SubmitWrite, SubmitXoff

\* Immediate characters do not stand in line.
LEMMA ImmediateRefines ==
    ASSUME WriteInv, NEW r \in Immediates, ImmediateChar(r)
    PROVE  LineStep
  <1>1. /\ r \in Requests /\ UNCHANGED submitFrame
        /\ \A q \in Queued : q \in Requests /\ q # r
    BY WriteRequestsAssumption DEF ImmediateChar, Requests
  <1>2. CASE Refuse(r, IF RefusedForError THEN "CANCELLED" ELSE "INVALID_PARAMETER")
    <2>1. /\ completions' = [completions EXCEPT ![r] = @ + 1]
          /\ Status' = [Status EXCEPT ![r] = IF RefusedForError THEN "CANCELLED"
                                                                ELSE "INVALID_PARAMETER"]
          /\ Information' = [Information EXCEPT ![r] = 0]
          /\ UNCHANGED <<Length, Current, WriteQueue, canceledOnQueue, sent>>
      BY <1>1, <1>2 DEF Refuse, Finish, submitFrame
    <2>2. SameEnds
      BY <1>1, <2>1 DEF SameEnds, WriteInv, RequestTypes
    <2> QED BY <2>1, <2>2, NothingSeen
  <1>3. CASE StartImmediate(r) /\ UNCHANGED <<Length, endVars, WriteQueue>>
    <2>1. /\ Current' = [Current EXCEPT !["Immediate"] = r]
          /\ UNCHANGED <<canceledOnQueue, sent>>
      BY <1>1, <1>3 DEF StartImmediate, submitFrame
    <2>2. Current'["Write"] = Current["Write"] /\ Current'["Xoff"] = Current["Xoff"]
      BY <2>1 DEF WriteInv, RequestTypes, OPS
    <2>3. SameEnds
      BY <1>3, <2>2 DEF SameEnds, endVars
    <2> QED BY <1>3, <2>1, <2>2, <2>3, NothingSeen
  <1> QED
    BY <1>2, <1>3 DEF ImmediateChar

\* Withdraw: a request is cancelled in the queue.
LEMMA CancelRequestRefines ==
    ASSUME WriteInv, NEW r \in Requests, CancelRequest(r)
    PROVE  LineStep
  <1>1. UNCHANGED <<Length, endVars, Current, sent>>
    BY DEF CancelRequest, contextVars, isrVars
  <1>2. SameEnds
    BY <1>1 DEF SameEnds, endVars
  <1>3. CASE UNCHANGED <<WriteQueue, canceledOnQueue>>
    BY <1>1, <1>2, <1>3, NothingSeen
  <1>4. ASSUME NEW i \in 1 .. Len(WriteQueue), WriteQueue[i] = r,
               WriteQueue' = Without(WriteQueue, i),
               canceledOnQueue' = canceledOnQueue \cup {r}
        PROVE  LineStep
    <2>1. WriteQueue \in Seq(Queued) /\ Len(WriteQueue) \in Nat /\ r \in Queued
      BY <1>4, LineProperties, LenProperties, ElementOfSeq
    <2>2. PICK k \in 1 .. Len(InLine) :
              InLine[k] = r /\ InLine' = Without(InLine, k)
      <3>1. CASE Current["Write"] = NULL
        <4>1. InLine = WriteQueue /\ InLine' = <<>> \o Without(WriteQueue, i)
          BY <1>1, <1>4, <3>1, LineProperties DEF InLine
        <4>2. Without(WriteQueue, i) \in Seq(Queued)
          BY <2>1, WithoutProperties DEF WriteInv, PlaceInv
        <4>3. InLine' = Without(InLine, i)
          BY <4>1, <4>2, ConcatEmptySeq
        <4> QED BY <1>4, <4>1, <4>3
      <3>2. CASE Current["Write"] # NULL
        <4>1. PICK c : c = Current["Write"] /\ c \in Queued
          BY <3>2, LineProperties
        <4>2. /\ InLine' = <<c>> \o Without(WriteQueue, i) /\ InLine = <<c>> \o WriteQueue
          BY <1>1, <1>4, <3>2, <4>1 DEF InLine
        <4>3. Len(InLine) = Len(WriteQueue) + 1 /\ InLine[i + 1] = WriteQueue[i]
          BY <3>2, LineProperties
        <4>4. <<c>> \o Without(WriteQueue, i) = Without(<<c>> \o WriteQueue, i + 1)
          BY <1>4, <2>1, <4>1, TakenBehindTheFront
        <4>5. i + 1 \in 1 .. Len(InLine)
          BY <2>1, <4>3
        <4>6. InLine' = Without(InLine, i + 1)
          BY <4>2, <4>4
        <4> QED BY <1>4, <4>3, <4>5, <4>6
      <3> QED BY <3>1, <3>2
    <2>3. Results' = [q \in Queued |->
                        IF q \in {r} THEN [status |-> "CANCELLED", count |-> 0]
                                     ELSE Results[q]]
      <3>1. ASSUME NEW q \in Queued
            PROVE  Settlement(q)' = IF q \in {r} THEN [status |-> "CANCELLED", count |-> 0]
                                                 ELSE Settlement(q)
        BY <1>1, <1>4 DEF Settlement, endVars
      <3> QED BY <3>1 DEF Results
    <2>4. Line!Withdraw(k)
      BY <1>1, <2>2, <2>3, SameSizes
      DEF Line!Withdraw, Line!GiveUp, Line!Aborted, Line!Requests, Line!Without, Without,
          Queued
    <2> QED
      BY <2>4 DEF LineStep, Line!Next, Line!Abort
  <1> QED
    BY <1>3, <1>4 DEF CancelRequest

\* The callback of a request cancelled on the queue tells what was settled before.
LEMMA CanceledOnQueueRefines ==
    ASSUME WriteInv, NEW r \in Requests, SerialEvtCanceledOnQueue(r)
    PROVE  LineStep
  <1>1. /\ r \in canceledOnQueue /\ canceledOnQueue' = canceledOnQueue \ {r}
        /\ completions' = [completions EXCEPT ![r] = @ + 1]
        /\ Status' = [Status EXCEPT ![r] = "CANCELLED"]
        /\ Information' = [Information EXCEPT ![r] = 0]
        /\ UNCHANGED <<Length, Current, WriteQueue, sent>>
    BY DEF SerialEvtCanceledOnQueue, Finish, contextVars, isrVars
  <1>2. completions[r] = 0
    BY <1>1 DEF WriteInv, PlaceInv
  <1>3. ASSUME NEW q \in Queued PROVE Settlement(q)' = Settlement(q)
    <2>1. q \in Requests
      BY DEF Requests
    <2>2. CASE q = r
      <3>1. completions'[q] = 1 /\ Status'[q] = "CANCELLED" /\ Information'[q] = 0
        BY <1>1, <1>2, <2>1, <2>2 DEF WriteInv, RequestTypes
      <3> QED BY <1>1, <2>2, <3>1 DEF Settlement
    <2>3. CASE q # r
      <3>1. /\ completions'[q] = completions[q]
            /\ Status'[q] = Status[q] /\ Information'[q] = Information[q]
        BY <1>1, <2>1, <2>3 DEF WriteInv, RequestTypes
      <3> QED BY <1>1, <2>3, <3>1 DEF Settlement
    <2> QED BY <2>2, <2>3
  <1>4. Results' = Results
    BY <1>3 DEF Results
  <1>5. InLine' = InLine
    BY <1>1 DEF InLine
  <1> QED
    BY <1>1, <1>4, <1>5, SameSizes DEF LineStep, Line!vars

\* LeaveFront: the write at the front has ended, or its counter starts to count;
\* one that was cancelled in progress is withdrawn.
LEMMA GetNextWriteRefines ==
    ASSUME WriteInv, ReportInv, SerialGetNextWrite, CounterMayStart
    PROVE  LineStep
  <1>1. PICK r, next : /\ r = Current["Write"]
                       /\ next = IF NextWrite THEN Head(WriteQueue) ELSE NULL
    OBVIOUS
  <1>2. /\ "Write" \in OPS /\ "Xoff" \in OPS /\ pc \in {"next", "purgeNext"}
        /\ UNCHANGED <<Length, canceledOnQueue, Information, Status, sent>>
        /\ Current' = [Current EXCEPT !["Write"] = next,
                                      !["Xoff"] = IF BecomesXoff(r) THEN r ELSE @]
        /\ IF next = NULL THEN WriteQueue' = WriteQueue
                          ELSE WriteQueue' = Tail(WriteQueue)
    BY <1>1 DEF SerialGetNextWrite, RestOfQueue, contextVars, OPS
  <1>3. r # NULL
    BY <1>1, <1>2, UnreferredWrite DEF Starting
  <1>4. /\ r \in Queued /\ r \in Requests /\ completions[r] = 0 /\ r # Current["Xoff"]
        /\ r \notin canceledOnQueue
    BY <1>1, <1>2, <1>3, CurrentIsAlone
  <1>5. /\ InLine # <<>> /\ Head(InLine) = r /\ Tail(InLine) = WriteQueue
        /\ InLine[1] = r /\ Len(InLine) = Len(WriteQueue) + 1
        /\ InLine = <<r>> \o WriteQueue /\ WriteQueue \in Seq(Queued)
    BY <1>1, <1>3, LineProperties
  <1>6. Current'["Write"] = next
    <2>1. Current \in [OPS -> Requests \cup {NULL}]
      BY DEF WriteInv, RequestTypes
    <2> QED BY <1>2, <2>1
  <1>7. InLine' = WriteQueue
    <2>1. CASE next = NULL
      <3>1. InLine' = <<>> \o WriteQueue
        BY <1>2, <1>6, <2>1 DEF InLine
      <3> QED BY <1>5, <3>1, ConcatEmptySeq
    <2>2. CASE next # NULL
      <3>1. InLine' = <<Head(WriteQueue)>> \o Tail(WriteQueue) /\ WriteQueue # <<>>
        BY <1>1, <1>2, <1>6, <2>2 DEF InLine, NextWrite
      <3> QED BY <1>5, <3>1, HeadAndTail
    <2> QED BY <2>1, <2>2
  <1>8. SentSize' = SentSize /\ SentSize[r] = Cost(r)
    BY <1>2, <1>4, SameSizes DEF SentSize
  <1>9. \/ Status[r] = "CANCELLED" /\ Information[r] = 0
        \/ Status[r] = "TIMEOUT" /\ Information[r] = sent[r]
        \/ Status[r] = "SUCCESS" /\ Information[r] = sent[r] /\ sent[r] = Cost(r)
    BY <1>1, <1>2, <1>3 DEF ReportInv, Reported
  <1>10. CASE /\ BecomesXoff(r) /\ completions' = completions
              /\ Current["Xoff"] = NULL /\ Current'["Xoff"] = r
    <2>1. r \in XoffCounters /\ sent[r] = SentSize[r]
      BY <1>8, <1>9, <1>10 DEF BecomesXoff
    <2>2. Results' = [Results EXCEPT ![r] = [status |-> "counting", count |-> 0]]
      <3>1. Settlement(r)' = [status |-> "counting", count |-> 0]
        BY <1>2, <1>4, <1>10 DEF Settlement
      <3>2. ASSUME NEW q \in Queued \ {r} PROVE Settlement(q)' = Settlement(q)
        <4>1. q # NULL
          BY WriteRequestsAssumption DEF Requests
        <4> QED BY <1>2, <1>10, <4>1 DEF Settlement
      <3> QED BY <3>1, <3>2 DEF Results
    <2>3. Line!Settle([status |-> "counting", count |-> 0])
      BY <1>2, <1>5, <1>7, <1>8, <2>2 DEF Line!Settle
    <2>4. Line!LeaveFront
      BY <1>5, <2>1, <2>3 DEF Line!LeaveFront, Line!Counting
    <2> QED BY <2>4 DEF LineStep, Line!Next
  <1>11. CASE /\ completions' = [completions EXCEPT ![r] = 1]
              /\ Current'["Xoff"] = Current["Xoff"]
    <2>1. Results' = [Results EXCEPT ![r] =
                        [status |-> Status[r], count |-> Information[r]]]
      <3>1. completions'[r] = 1 /\ \A q \in Requests : q # r =>
                                       completions'[q] = completions[q]
        BY <1>4, <1>11 DEF WriteInv, RequestTypes
      <3>2. Settlement(r)' = [status |-> Status[r], count |-> Information[r]]
        BY <1>2, <1>4, <3>1 DEF Settlement
      <3>3. ASSUME NEW q \in Queued \ {r} PROVE Settlement(q)' = Settlement(q)
        <4>1. q \in Requests
          BY DEF Requests
        <4> QED BY <1>2, <1>11, <3>1, <4>1 DEF Settlement
      <3> QED BY <3>2, <3>3 DEF Results
    <2>2. CASE Status[r] = "CANCELLED" /\ Information[r] = 0
      <3>1. Results' = [q \in Queued |-> IF q \in {r}
                                           THEN [status |-> "CANCELLED", count |-> 0]
                                           ELSE Results[q]]
        BY <1>4, <2>1, <2>2 DEF Results
      <3>2. InLine' = Without(InLine, 1)
        <4>1. Without(<<r>> \o WriteQueue, 1) = WriteQueue
          BY <1>4, <1>5, BehindTheFront
        <4> QED BY <1>5, <1>7, <4>1
      <3>3. 1 \in 1 .. Len(InLine)
        <4>1. Len(WriteQueue) \in Nat
          BY <1>5, LenProperties
        <4> QED BY <1>5, <4>1
      <3>4. Line!Withdraw(1)
        BY <1>2, <1>5, <1>8, <3>1, <3>2
        DEF Line!Withdraw, Line!GiveUp, Line!Aborted, Line!Requests, Line!Without,
            Without, Queued
      <3> QED BY <3>3, <3>4 DEF LineStep, Line!Next, Line!Abort
    <2>3. ASSUME Status[r] # "CANCELLED" PROVE Line!LeaveFront
      <3>1. Line!Settle([status |-> Status[r], count |-> sent[r]])
        BY <1>2, <1>5, <1>7, <1>8, <1>9, <2>1, <2>3 DEF Line!Settle
      <3> QED BY <1>5, <1>8, <1>9, <2>3, <3>1 DEF Line!LeaveFront
    <2> QED BY <1>9, <2>2, <2>3 DEF LineStep, Line!Next
  <1> QED
    BY <1>1, <1>10, <1>11, OldWriteEnds

-------------------------------------------------------------------------------
(* The callbacks that end a request.  An immediate character and a write are *)
(* not settled by them; a counter in progress is.                            *)

LEMMA CallerRefines ==
    ASSUME WriteInv, WriteInv', ReportInv,
           NEW op, NEW status, NEW refType, NEW grab, NEW totalTimer, NEW after,
           Caller(op, status, refType, grab, totalTimer, after),
           after \in {"idle", "give"}, UNCHANGED <<WriteQueue, canceledOnQueue>>
    PROVE  LineStep /\ ReportInv'
  <1>1. pc' \notin {"purgeNext", "purgeXoff"}
    BY DEF Caller, TryToCompleteCurrent, EndWithoutNext
  <1>2. /\ ReportInv' /\ Current'["Write"] = Current["Write"]
        /\ SameEnds \/ (op = "Xoff" /\ CounterEnds(Current["Xoff"]))
    BY <1>1, CallerSeen
  <1>3. sent' = sent /\ Length' = Length
    BY DEF Caller
  <1>4. CASE SameEnds
    BY <1>2, <1>3, <1>4, NothingSeen
  <1>5. CASE CounterEnds(Current["Xoff"])
    BY <1>2, <1>3, <1>5, CounterEndSeen
  <1> QED
    BY <1>2, <1>4, <1>5

LEMMA SerialCompleteRefines ==
    ASSUME WriteInv, WriteInv', ReportInv, NEW op \in OPS, SerialComplete(op)
    PROVE  LineStep /\ ReportInv'
  <1>1. /\ pc = "idle" /\ CompleteDpc[op] /\ Current[op] # NULL
        /\ CompleteDpc' = [CompleteDpc EXCEPT ![op] = FALSE]
        /\ TryToCompleteCurrent(op, "SUCCESS", "ISR", FALSE, TRUE, "idle")
        /\ UNCHANGED <<WriteQueue, canceledOnQueue, sent, Length>>
    BY DEF SerialComplete, callbackFrame, queueVars, contextVars
  <1>2. \A o \in OPS : CompleteDpc'[o] => CompleteDpc[o]
    BY <1>1 DEF WriteInv, RequestTypes
  <1>3. Caller(op, "SUCCESS", "ISR", FALSE, TRUE, "idle")
    BY <1>1, <1>2 DEF Caller
  <1> QED
    BY <1>1, <1>3, CallerRefines

LEMMA SerialTimeoutRefines ==
    ASSUME WriteInv, WriteInv', ReportInv, NEW op \in OPS, SerialTimeout(op)
    PROVE  LineStep /\ ReportInv'
  <1>1. PICK status, passes : /\ status = IF op = "Xoff" THEN "COUNTER_TIMEOUT"
                                                        ELSE "TIMEOUT"
                              /\ passes = PassesTimer(op)
    OBVIOUS
  <1>2. /\ pc = "idle" /\ Timer[op] = "fired" /\ Current[op] # NULL
        /\ CompleteDpc' = CompleteDpc
        /\ UNCHANGED <<WriteQueue, canceledOnQueue, sent, Length>>
    BY DEF SerialTimeout, callbackFrame, queueVars, contextVars
  <1>3. TryToCompleteCurrent(op, status, "TOTAL_TIMER", TRUE, passes, "idle")
    BY <1>1 DEF SerialTimeout
  <1>4. op = "Xoff" => ~passes
    BY <1>1 DEF PassesTimer
  <1>5. Caller(op, status, "TOTAL_TIMER", TRUE, passes, "idle")
    <2>1. \A o \in OPS : CompleteDpc'[o] => CompleteDpc[o]
      BY <1>2
    <2>2. op = "Xoff" \/ (op # "Xoff" /\ status = "TIMEOUT")
      BY <1>1
    <2>3. status # "SUCCESS"
      BY <1>1
    <2> QED BY <1>2, <1>3, <1>4, <2>1, <2>2, <2>3 DEF Caller
  <1> QED
    BY <1>2, <1>5, CallerRefines

LEMMA SerialCancelCurrentRefines ==
    ASSUME WriteInv, WriteInv', ReportInv, NEW r \in Requests, SerialCancelCurrent(r)
    PROVE  LineStep /\ ReportInv'
  <1>1. PICK op : op = CancelRoutine[r]
    OBVIOUS
  <1>2. /\ pc = "idle" /\ cancelState[r] = "fired" /\ Current[op] # NULL
        /\ CompleteDpc' = CompleteDpc
        /\ TryToCompleteCurrent(op, "CANCELLED", "CANCEL", TRUE, TRUE, "idle")
        /\ UNCHANGED <<WriteQueue, canceledOnQueue, sent, Length>>
    BY <1>1 DEF SerialCancelCurrent, callbackFrame, queueVars, contextVars
  <1>3. op \in OPS
    BY <1>1, <1>2, CancelRoutineOfCurrent
  <1>4. Caller(op, "CANCELLED", "CANCEL", TRUE, TRUE, "idle")
    BY <1>2, <1>3 DEF Caller, OPS
  <1> QED
    BY <1>2, <1>4, CallerRefines

\* A new write ends the counting of the counter it overtakes.
LEMMA OvertakeXoffRefines ==
    ASSUME WriteInv, WriteInv', ReportInv, OvertakeXoff
    PROVE  LineStep /\ ReportInv'
  <1>1. /\ pc = "start" /\ CompleteDpc' = CompleteDpc
        /\ UNCHANGED <<WriteQueue, canceledOnQueue, sent, Length>>
    BY DEF OvertakeXoff, callbackFrame, queueVars, contextVars
  <1>2. CASE /\ XoffIsCounting
             /\ TryToCompleteCurrent("Xoff", "MORE_WRITES", "XOFF_REF", TRUE, TRUE,
                                     "give")
    <2>1. Caller("Xoff", "MORE_WRITES", "XOFF_REF", TRUE, TRUE, "give")
      BY <1>1, <1>2 DEF Caller, XoffIsCounting, OPS
    <2> QED BY <1>1, <2>1, CallerRefines
  <1>3. CASE pc' = "give" /\ UNCHANGED <<endVars, Left, Current>>
    <2>1. KeepsReports
      BY <1>1, <1>3 DEF KeepsReports, ReportInv, endVars
    <2>2. SameEnds
      BY <1>3 DEF SameEnds, endVars
    <2> QED BY <1>1, <1>3, <2>1, <2>2, KeptReports, NothingSeen
  <1> QED
    BY <1>2, <1>3 DEF OvertakeXoff

\* A purge or a line error gives up all that wait, and what is in progress.
LEMMA FlushWritesRefines ==
    ASSUME WriteInv, WriteInv', ReportInv, NEW op \in {"Write", "Xoff"},
           NEW after \in {"idle", "purgeXoff"}, FlushWrites(op, after),
           \/ pc = "idle" /\ op = "Write"
           \/ pc = "purgeXoff" /\ op = "Xoff" /\ after = "idle"
    PROVE  LineStep /\ ReportInv'
  <1>1. /\ canceledOnQueue' = canceledOnQueue \cup Waiting(WriteQueue)
        /\ WriteQueue' = <<>> /\ CompleteDpc' = CompleteDpc
        /\ UNCHANGED <<sent, Length>>
    BY DEF FlushWrites, contextVars
  <1>2. op = "Xoff" => UNCHANGED <<WriteQueue, canceledOnQueue>>
    BY <1>1, EmptyQueue DEF ReportInv
  <1>3. ASSUME Current'["Write"] = Current["Write"],
               SameEnds \/ (op = "Xoff" /\ CounterEnds(Current["Xoff"]))
        PROVE  LineStep
    <2>1. CASE SameEnds
      BY <1>1, <1>3, <2>1, QueueGivenUp
    <2>2. CASE op = "Xoff" /\ CounterEnds(Current["Xoff"])
      BY <1>1, <1>2, <1>3, <2>2, CounterEndSeen
    <2> QED BY <1>3, <2>1, <2>2
  <1>4. CASE pc' = after /\ UNCHANGED <<endVars, Left, Current>>
    <2>1. KeepsReports
      BY <1>1, <1>4 DEF KeepsReports, ReportInv, endVars, Starting
    <2>2. SameEnds
      BY <1>4 DEF SameEnds, endVars
    <2> QED BY <1>3, <1>4, <2>1, <2>2, KeptReports
  <1>5. CASE /\ CallsCancelRoutine(Current[op])
             /\ TryToCompleteCurrent(CancelRoutine[Current[op]], "CANCELLED", "CANCEL",
                                     TRUE, TRUE, after)
    <2>1. PICK r : r = Current[op]
      OBVIOUS
    <2>2. r # NULL /\ r \in Requests /\ CancelRoutine[r] # "none" /\ op \in OPS
      BY <1>5, <2>1, CurrentIsAlone DEF CallsCancelRoutine, OPS
    <2>3. CancelRoutine[r] = op
      <3>1. CancelRoutine[r] \in OPS /\ Current[CancelRoutine[r]] = r
        BY <2>2, CancelRoutineOfCurrent
      <3> QED BY <2>1, <2>2, <3>1, CurrentIsAlone
    <2>4. TryToCompleteCurrent(op, "CANCELLED", "CANCEL", TRUE, TRUE, after)
      BY <1>5, <2>1, <2>3
    <2>5. Caller(op, "CANCELLED", "CANCEL", TRUE, TRUE, after)
      BY <1>1, <2>1, <2>2, <2>4 DEF Caller
    <2>6. /\ ReportInv' /\ Current'["Write"] = Current["Write"]
          /\ SameEnds \/ (op = "Xoff" /\ CounterEnds(Current["Xoff"]))
      BY <1>1, <2>5, CallerSeen
    <2> QED BY <1>3, <2>6
  <1> QED
    BY <1>4, <1>5 DEF FlushWrites

LEMMA PurgesRefine ==
    ASSUME WriteInv, WriteInv', ReportInv, SerialCommError \/ StartPurge \/ PurgeXoff
    PROVE  LineStep /\ ReportInv'
  BY FlushWritesRefines DEF SerialCommError, StartPurge, PurgeXoff

-------------------------------------------------------------------------------
(* The whole specification *)

LEMMA InitRefines == Init => Line!Init
  <1> SUFFICES ASSUME Init PROVE Line!Init
    OBVIOUS
  <1>1. InLine = <<>>
    <2>1. InLine = <<>> \o <<>>
      BY DEF Init, InLine, OPS
    <2> QED BY <2>1, EmptyQueue, ConcatEmptySeq
  <1>2. SentSize = [r \in Queued |-> IF r \in XoffCounters THEN 1 ELSE 0]
    BY WriteRequestsAssumption DEF Init, SentSize, Cost, Queued
  <1>3. Results = [r \in Queued |-> [status |-> "none", count |-> 0]]
    <2>1. ASSUME NEW r \in Queued
          PROVE  Settlement(r) = [status |-> "none", count |-> 0]
      <3>1. r \in Requests /\ r # NULL
        BY WriteRequestsAssumption DEF Requests
      <3> QED BY <3>1 DEF Init, Settlement, OPS
    <2> QED BY <2>1 DEF Results
  <1> QED
    BY <1>1, <1>2, <1>3 DEF Init, Line!Init, Line!Unsettled, Line!Requests, Queued

LEMMA NextRefines ==
    ASSUME WriteInv, WriteInv', ReportInv, [Next]_vars,
           SerialGetNextWrite => CounterMayStart
    PROVE  LineStep /\ ReportInv'
  <1>1. CASE SubmitWrite \/ SubmitXoff
    BY <1>1, SubmissionsRefine, SubmissionsReport
  <1>2. CASE SubmitImmediate
    BY <1>2, ImmediateRefines, ImmediateReports DEF SubmitImmediate
  <1>3. CASE StartPurge \/ PurgeXoff \/ SerialCommError
    BY <1>3, PurgesRefine
  <1>4. CASE \/ GetCommStatus \/ LineError
             \/ \E t \in WriteTimeoutChoices : SetTimeouts(t)
             \/ \E f \in Flushes : FlushStopsQueue(f) \/ FlushEnds(f)
             \/ \E op \in OPS : TimerExpires(op)
             \/ UNCHANGED vars
    <2>1. LineStep
      BY <1>4, OthersRefine
    <2>2. ReportInv'
      BY <1>4, OthersReport
    <2> QED BY <2>1, <2>2
  <1>5. CASE SerialStartWrite
    BY <1>5, OthersRefine, StartWriteReports
  <1>6. CASE SerialGetNextWrite
    BY <1>6, GetNextWriteRefines, NextWriteReports
  <1>7. CASE OvertakeXoff
    BY <1>7, OvertakeXoffRefines
  <1>8. CASE \E op \in OPS : SerialComplete(op) \/ SerialTimeout(op)
    BY <1>8, SerialCompleteRefines, SerialTimeoutRefines
  <1>9. CASE \E r \in Requests : \/ SerialCancelCurrent(r) \/ SerialEvtCanceledOnQueue(r)
                                 \/ CancelRequest(r)
    BY <1>9, SerialCancelCurrentRefines, CanceledOnQueueRefines, CanceledOnQueueReports,
       CancelRequestRefines, CancelRequestReports
  <1>10. CASE TransmitImmediateChar \/ CountReceived
    BY <1>10, CountsRefine
  <1>11. CASE TransmitWrite
    BY <1>11, TransmitWriteRefines
  <1> QED
    BY <1>1, <1>2, <1>3, <1>4, <1>5, <1>6, <1>7, <1>8, <1>9, <1>10, <1>11, Zenon
    DEF Next, Continue, Callback

LEMMA StepRefines ==
    ASSUME WriteInv, WriteInv', ReportInv, [Next]_vars, [XoffEnds]_vars
    PROVE  LineStep /\ ReportInv'
  <1>1. CASE UNCHANGED vars
    BY <1>1, OthersRefine, OthersReport
  <1>2. CASE Next /\ XoffEnds
    BY <1>2, CounterStartsAlone, NextRefines
  <1> QED
    BY <1>1, <1>2

\* As long as an Xoff counter has ended before another takes its place (the ASSERT
\* of SerialGetNextWrite), the write path implements the line: requests are sent in
\* the order they were submitted, one at a time, none succeeds before all of it is
\* sent, and the count a request reports is what was sent of it, or nothing when it
\* was cancelled.
THEOREM WriteImplementsLine == Spec /\ XoffEndsBeforeNext => ImplementsLine
  <1>1. Init => ReportInv /\ Line!Init
    BY InitReports, InitRefines
  <1>2. WriteInv /\ WriteInv' /\ ReportInv /\ [Next]_vars /\ [XoffEnds]_vars
        => [Line!Next]_Line!vars /\ ReportInv'
    BY StepRefines DEF LineStep
  <1>3. Spec /\ XoffEndsBeforeNext => []WriteInv
    BY InvariantHolds
  <1> QED
    BY <1>1, <1>2, <1>3, PTL
    DEF Spec, XoffEndsBeforeNext, XoffEnds, ImplementsLine, Line!Spec

\* With one Xoff counter, and any writes and immediate characters, nothing has to be
\* supposed: the write path implements the line.
THEOREM OneCounterImplementsLine == ASSUME OneCounter PROVE Spec => ImplementsLine
  BY OneCounterEnds, WriteImplementsLine

===============================================================================
