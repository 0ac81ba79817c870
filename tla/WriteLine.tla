------------------------------ MODULE WriteLine ------------------------------
(***************************************************************************)
(* What the write path promises, without queues, locks or timers: requests *)
(* stand in line in the order they were submitted; only the front one puts *)
(* characters on the wire; it succeeds only when all of them are out; and  *)
(* the count a request reports is what it really sent, or nothing when it  *)
(* was cancelled.                                                          *)
(***************************************************************************)
EXTENDS RequestQueue

CONSTANTS Writes,         \* write requests
          XoffCounters,   \* one character to send, then received ones to count
          MaxLength       \* longest write

Requests == Writes \cup XoffCounters

VARIABLES line,     \* requests waiting to be sent, the front one first
          size,     \* per request: characters to send
          sent,     \* per request: characters put on the wire
          result    \* per request: how it ended and the count it reported

vars == <<line, size, sent, result>>

Unsettled == [status |-> "none", count |-> 0]
Counting  == [status |-> "counting", count |-> 0]
Aborted   == [status |-> "CANCELLED", count |-> 0]

Init ==
    /\ line = <<>>
    /\ size = [r \in Requests |-> IF r \in XoffCounters THEN 1 ELSE 0]
    /\ sent = [r \in Requests |-> 0]
    /\ result = [r \in Requests |-> Unsettled]

\* A new request goes to the end of the line, or is turned away.
Join(r) ==
    /\ r \notin Waiting(line) /\ result[r] = Unsettled
    /\ line' = Append(line, r)
    /\ IF r \in Writes THEN \E n \in 1 .. MaxLength : size' = [size EXCEPT ![r] = n]
                       ELSE UNCHANGED size
    /\ UNCHANGED <<sent, result>>

Refuse(r) ==
    /\ r \notin Waiting(line) /\ result[r] = Unsettled
    /\ result' = [result EXCEPT ![r] = Aborted]
    /\ UNCHANGED <<line, size, sent>>

Transmit ==
    /\ line # <<>>
    /\ \E n \in 1 .. MaxLength :
          /\ sent[Head(line)] + n <= size[Head(line)]
          /\ sent' = [sent EXCEPT ![Head(line)] = @ + n]
    /\ UNCHANGED <<line, size, result>>

\* The front request is settled.  A counter whose character went out leaves
\* the line and starts to count.
Settle(settlement) ==
    /\ line' = Tail(line)
    /\ result' = [result EXCEPT ![Head(line)] = settlement]
    /\ UNCHANGED <<size, sent>>

LeaveFront ==
    /\ line # <<>>
    /\ LET r == Head(line)
       IN \/ Settle([status |-> "TIMEOUT", count |-> sent[r]])
          \/ /\ sent[r] = size[r]
             /\ \/ Settle([status |-> "SUCCESS", count |-> sent[r]])
                \/ r \in XoffCounters /\ Settle(Counting)

GiveUp(gone) ==
    /\ result' = [r \in Requests |-> IF r \in gone THEN Aborted ELSE result[r]]
    /\ UNCHANGED <<size, sent>>

\* A request in line may be given up, wherever it stands ...
Withdraw(i) ==
    /\ line' = Without(line, i)
    /\ GiveUp({line[i]})

\* ... and so may all those from some place on.
Purge(i) ==
    /\ line' = SubSeq(line, 1, i - 1)
    /\ GiveUp({line[j] : j \in i .. Len(line)})

Abort == \E i \in 1 .. Len(line) : Withdraw(i) \/ Purge(i)

\* The counting ends: all counted, overtaken by a write, or cancelled.
EndCounting(r) ==
    /\ result[r] = Counting
    /\ \E status \in {"SUCCESS", "MORE_WRITES", "CANCELLED"} :
          result' = [result EXCEPT ![r] = [status |-> status, count |-> 0]]
    /\ UNCHANGED <<line, size, sent>>

Next ==
    \/ Transmit \/ LeaveFront \/ Abort
    \/ \E r \in Requests : Join(r) \/ Refuse(r) \/ EndCounting(r)

Spec == Init /\ [][Next]_vars
==============================================================================
