------------------------------ MODULE MCSound ------------------------------
(* Instances of Sound: samples of one and of two ticks.                     *)
EXTENDS Sound

ShortAndLong == [x \in Samples |-> IF x = "long" THEN 2 ELSE 1]
=============================================================================
