----------------------------- MODULE MCSerialRead -----------------------------
(***************************************************************************)
(* Instances of SerialRead for TLC.                                        *)
(***************************************************************************)
EXTENDS SerialRead, TLC

CONSTANTS r1, r2, q1

SymmetricReads == Permutations(Reads)

\* No timers at all, or both.
MCTimeoutChoices ==
    { [interval |-> "zero", multiplier |-> "zero", constant |-> "zero"],
      [interval |-> "some", multiplier |-> "zero", constant |-> "some"] }

\* Both timers, or a read that ends with the first character.
MCTimedOrFirst ==
    { [interval |-> "some", multiplier |-> "zero", constant |-> "some"],
      [interval |-> "max", multiplier |-> "max", constant |-> "some"] }

\* An interval timer, with or without a total timer, or a read that ends at once.
MCIntervalOrBoth ==
    { [interval |-> "some", multiplier |-> "zero", constant |-> "zero"],
      [interval |-> "some", multiplier |-> "zero", constant |-> "some"],
      [interval |-> "max", multiplier |-> "zero", constant |-> "zero"] }
===============================================================================
