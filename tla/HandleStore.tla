---------------------------- MODULE HandleStore ----------------------------
(***************************************************************************)
(* What the handle pool promises its clients: a store of handles, each     *)
(* with contents of its own that nobody else can change.  Where a block    *)
(* lies, and when it moves, is not part of the promise.                    *)
(***************************************************************************)
CONSTANTS Handle, Data

VARIABLE store   \* handle -> {} if free, else the set of its one content

Init == store = [h \in Handle |-> {}]

Allocate == \E h \in Handle, d \in Data :
              /\ store[h] = {}
              /\ store' = [store EXCEPT ![h] = {d}]

Release == \E h \in Handle :
             /\ store[h] # {}
             /\ store' = [store EXCEPT ![h] = {}]

Next == Allocate \/ Release

Spec == Init /\ [][Next]_store
=============================================================================
