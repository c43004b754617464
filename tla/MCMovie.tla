------------------------------ MODULE MCMovie ------------------------------
(* Instances of Movie: rings of two strides, of three, and of a part more.   *)
EXTENDS Movie

TwoThreeAndAPart == {2 * Stride, 3 * Stride, 3 * Stride + 1}
=============================================================================
