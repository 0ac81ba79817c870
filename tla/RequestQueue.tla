----------------------------- MODULE RequestQueue -----------------------------
(***************************************************************************)
(* A queue of requests as the framework keeps it for the driver: requests  *)
(* are appended, taken from the head, and taken out of the middle when the *)
(* application cancels them.                                               *)
(***************************************************************************)
EXTENDS Integers, Sequences

Waiting(queue) == {queue[i] : i \in 1 .. Len(queue)}
Without(queue, i) ==
    [j \in 1 .. Len(queue) - 1 |-> IF j < i THEN queue[j] ELSE queue[j + 1]]
NoRepeats(queue) == \A i, j \in 1 .. Len(queue) : queue[i] = queue[j] => i = j
===============================================================================
