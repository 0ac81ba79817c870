---------------------------- MODULE MCSerialWrite ----------------------------
(***************************************************************************)
(* Instances of SerialWrite for TLC.                                       *)
(***************************************************************************)
EXTENDS SerialWrite, TLC

CONSTANTS w1, w2, x1, x2, i1, i2, f1

SymmetricRequests == Permutations(Writes) \cup Permutations(Immediates)
==============================================================================
