---------------------------- MODULE MCHandlePool ----------------------------
(* Instances of HandlePool: a header of 2, remainders of 3 or more split.   *)
EXTENDS HandlePool

SlotsAsOwners == Slot
=============================================================================
