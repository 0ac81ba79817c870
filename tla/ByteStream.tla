------------------------------ MODULE ByteStream ------------------------------
(***************************************************************************)
(* What the read path promises about the characters, without queues, locks *)
(* or buffers: the characters accepted from the line form one stream, and  *)
(* every read that ends takes a piece off its front.                       *)
(***************************************************************************)
EXTENDS Naturals, Sequences

CONSTANTS Reads, MaxBytes, ErrorChar

VARIABLES received,   \* characters the line has delivered so far
          pending,    \* accepted and not yet given to a completed read
          result      \* per read: how it ended and what it got

Init ==
    /\ received = 0 /\ pending = <<>>
    /\ result = [r \in Reads |-> [state |-> "waiting", chars |-> <<>>]]

Arrive == received < MaxBytes /\ received' = received + 1 /\ UNCHANGED result

\* The character joins the stream.
Accept == Arrive /\ pending' = Append(pending, received')

\* There is no room: the character is lost, and may be marked by turning the
\* last one waiting into the error character.
Overrun ==
    /\ Arrive
    /\ \/ pending' = pending
       \/ pending # <<>> /\ pending' = [pending EXCEPT ![Len(pending)] = ErrorChar]

End(r, state, n, chars) ==
    /\ result[r].state = "waiting"
    /\ result' = [result EXCEPT ![r] = [state |-> state, chars |-> chars]]
    /\ pending' = SubSeq(pending, n + 1, Len(pending))
    /\ UNCHANGED received

\* A read ends with the first n characters of the stream, n possibly 0.
Deliver(r) == \E n \in 0 .. Len(pending) :
                  End(r, "delivered", n, SubSeq(pending, 1, n))

\* A cancelled read takes with it the characters it had been given.
Abort(r) == \E n \in 0 .. Len(pending) : End(r, "aborted", n, <<>>)

\* A purge forgets characters no read has been given.
Clear == /\ \E n \in 0 .. Len(pending) : pending' = SubSeq(pending, 1, n)
         /\ UNCHANGED <<received, result>>

Next == Accept \/ Overrun \/ Clear \/ \E r \in Reads : Deliver(r) \/ Abort(r)

Spec == Init /\ [][Next]_<<received, pending, result>>
===============================================================================
