------------------------------ MODULE MCMouse ------------------------------
(* Instances of Mouse: motion both ways, and one event that crosses the end *)
(* of the motion register together with another.                            *)
EXTENDS Mouse

BothWays == {-1, 1, 3}
=============================================================================
