----------------------------- MODULE MCSerialWait -----------------------------
(***************************************************************************)
(* Instances of SerialWait for TLC.                                        *)
(***************************************************************************)
EXTENDS SerialWait

CONSTANTS w1, w2
===============================================================================
