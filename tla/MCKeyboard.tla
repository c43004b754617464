----------------------------- MODULE MCKeyboard -----------------------------
(* An instance of Keyboard: a shift, which folds onto a modifier code, a    *)
(* cursor key, which is sent with an E0 prefix, and a second key for the    *)
(* input ring, so that codes can be told apart in it.                       *)
EXTENDS Keyboard

ShiftCursorFire == [k \in {"lshift", "up", "fire"} |->
  CASE k = "lshift" -> "sc36" [] k = "up" -> "sc48" [] k = "fire" -> "sc1d"]
=============================================================================
