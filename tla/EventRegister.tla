---------------------------- MODULE EventRegister ----------------------------
(***************************************************************************)
(* What the wait mask promises an application.  It names the events it     *)
(* watches; an event that happens is due to be reported.  One wait at a    *)
(* time takes what is due.  Happenings of the same event may be merged as  *)
(* long as one report of it is still due.  Only a new mask or a cancelled  *)
(* wait may lose a report, and a wait succeeds with nothing only if a new  *)
(* mask came while it waited.                                              *)
(***************************************************************************)
EXTENDS Integers

CONSTANTS Waits, Events

VARIABLES
    watched,      \* the events the application asked for
    due,          \* per event: reports of it still to be given
    outcome,      \* per wait
    withdrawn,    \* waits the application gave up
    tick          \* flips when the line is looked at: nothing else makes a report due

regVars == <<watched, due, outcome, withdrawn, tick>>

Ended == {"reported", "nothing", "cancelled", "refused"}

Init ==
    /\ watched = {} /\ withdrawn = {} /\ tick = FALSE
    /\ due = [e \in Events |-> 0]
    /\ outcome = [w \in Waits |-> "no"]

\* The interrupt sees the events in S.
Happen(S) ==
    /\ tick' = ~tick
    /\ \A e \in Events :
          IF e \in S \cap watched THEN due'[e] \in {due[e], due[e] + 1} /\ due'[e] > 0
                                  ELSE due'[e] = due[e]
    /\ UNCHANGED <<watched, outcome, withdrawn>>

\* A new mask: reports of what is no longer watched may go, and the wait in
\* progress may end with nothing.
Watch(m) ==
    /\ watched' = m
    /\ \A e \in Events : due'[e] \in (IF e \in m THEN {due[e]} ELSE {due[e], due[e] - 1})
    /\ \/ UNCHANGED outcome
       \/ \E w \in Waits : /\ outcome[w] = "waiting"
                           /\ outcome' = [outcome EXCEPT ![w] = "overtaken"]
    /\ UNCHANGED <<withdrawn, tick>>

Begin(w) ==
    /\ outcome[w] = "no" /\ watched # {}
    /\ \A v \in Waits : outcome[v] \notin {"waiting", "overtaken"}
    /\ outcome' = [outcome EXCEPT ![w] = "waiting"]
    /\ UNCHANGED <<watched, due, withdrawn, tick>>

Refuse(w) ==
    /\ outcome[w] = "no"
    /\ outcome' = [outcome EXCEPT ![w] = "refused"]
    /\ UNCHANGED <<watched, due, withdrawn, tick>>

\* The wait returns the events S.
Report(w, S) ==
    /\ outcome[w] = "waiting" /\ S # {}
    /\ \A e \in S : due[e] > 0
    /\ due' = [e \in Events |-> IF e \in S THEN due[e] - 1 ELSE due[e]]
    /\ outcome' = [outcome EXCEPT ![w] = "reported"]
    /\ UNCHANGED <<watched, withdrawn, tick>>

EndWithNothing(w) ==
    /\ outcome[w] = "overtaken"
    /\ outcome' = [outcome EXCEPT ![w] = "nothing"]
    /\ UNCHANGED <<watched, due, withdrawn, tick>>

Withdraw(w) ==
    /\ withdrawn' = withdrawn \cup {w}
    /\ UNCHANGED <<watched, due, outcome, tick>>

\* What a cancelled wait had already been given is lost with it.
Cancel(w, S) ==
    /\ w \in withdrawn /\ outcome[w] \in {"waiting", "overtaken"}
    /\ \A e \in S : due[e] > 0
    /\ due' = [e \in Events |-> IF e \in S THEN due[e] - 1 ELSE due[e]]
    /\ outcome' = [outcome EXCEPT ![w] = "cancelled"]
    /\ UNCHANGED <<watched, withdrawn, tick>>

Next ==
    \/ \E S \in SUBSET Events : Happen(S) \/ Watch(S)
    \/ \E w \in Waits : Begin(w) \/ Refuse(w) \/ EndWithNothing(w) \/ Withdraw(w)
    \/ \E w \in Waits, S \in SUBSET Events : Report(w, S) \/ Cancel(w, S)

Spec == Init /\ [][Next]_regVars
==============================================================================
