---------------------------- MODULE MCDasCache ----------------------------
(* An instance of DasCache with one index of each kind.                      *)
EXTENDS DasCache, TLC

Kinds == "a" :> "plain" @@ "b" :> "rle" @@ "c" :> "grouped" @@ "n" :> "absent"
Bytes == "a" :> 3 @@ "b" :> 2 @@ "c" :> 2 @@ "n" :> 1
=============================================================================
