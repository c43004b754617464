----------------------------- MODULE HandlePool -----------------------------
(***************************************************************************)
(* The relocatable pool of the DAS cache (engine/renderer.c).              *)
(*                                                                         *)
(* A client holds a handle, a slot of the pool's handle table, and finds   *)
(* its block through it.  When no free chunk is large enough, the pool     *)
(* slides every block down to squeeze the gaps out, rewriting the slots,   *)
(* unless the pool is locked.  A block that moved is flagged, so that a    *)
(* client that keeps an address of its own (the base of the block's        *)
(* selector) knows that it has to refresh it.                              *)
(***************************************************************************)
EXTENDS PoolChunks

CONSTANTS
  Slots,     (* entries of the handle table                                *)
  Sizes,     (* block sizes that clients ask for                           *)
  MaxLocks   (* bound on nested locks (a byte in the code)                 *)

Slot == 0 .. Slots - 1

ASSUME HandlePoolAssumption ==
  /\ Slots \in Nat \ {0} /\ Owners = Slot /\ Arena > 0
  /\ Sizes \subseteq Nat \ {0} /\ MaxLocks \in Nat

VARIABLES
  table,     \* the handle table: slot -> address of its chunk, or Null
  cursor,    \* pool+0x10: the slot the next allocation tries first
  locks,     \* pool+0x12: while not 0 no block may move
  cached,    \* slot -> the address the client last refreshed its selector to
  pc,        \* "idle", "compact" or "retry"
  req,       \* the allocation in progress: [slot, size, data]
  rd, wr,    \* pool_coalesce_free: read and write cursor
  left,      \* chunks still to visit
  before,    \* address of the last chunk written
  squeezed   \* free bytes squeezed out so far

compaction == <<rd, wr, left, before, squeezed>>
vars == <<chunkVars, table, cursor, locks, cached, pc, req, compaction>>

NoRequest == [slot |-> 0, size |-> 0, data |-> NoData]

Init ==
  /\ InitChunks
  /\ table = [s \in Slot |-> Null]
  /\ cached = [s \in Slot |-> Null]
  /\ cursor = 0 /\ locks = 0
  /\ pc = "idle" /\ req = NoRequest
  /\ rd = 0 /\ wr = 0 /\ left = 0 /\ before = Null /\ squeezed = 0

-----------------------------------------------------------------------------
(* Allocation: pool_alloc_common.                                           *)

\* Mutants: the slot at the cursor unconditionally; no wrap at the table's end.
ChosenAtCursor == {cursor}
\* The slot at the cursor if it is free, else the first free slot.
ChosenSlot == {s \in Slot : /\ table[s] = Null
                 /\ (table[cursor] = Null => s = cursor)
                 /\ (table[cursor] # Null => \A t \in Slot : (table[t] = Null => s <= t))}

AdvanceFrom(s) == IF s + 1 >= Slots THEN 0 ELSE s + 1

\* A carved chunk becomes the block of slot s, filled by the client.
Bind(s, size, d) ==
  \E c \in FirstFit(Needed(size)) :
    /\ CarveLow(c, Needed(size), s, d)
    /\ table' = [table EXCEPT ![s] = c]
    /\ cached' = [cached EXCEPT ![s] = c]

CanCarve(size) == Needed(size) <= largest /\ FirstFit(Needed(size)) # {}

\* pool_alloc_handle (bound: total) and pool_alloc_handle_sized (bound: largest)
\* when the first attempt to carve succeeds.
Alloc ==
  /\ pc = "idle"
  /\ \E size \in Sizes, d \in Data, s \in ChosenSlot :
       /\ total > size
       /\ CanCarve(size)
       /\ Bind(s, size, d)
       /\ cursor' = AdvanceFrom(s)
  /\ UNCHANGED <<locks, pc, req, compaction>>

\* The attempt fails, and the variant or the lock forbids compaction: the
\* cursor has moved on all the same.
AllocFails ==
  /\ pc = "idle"
  /\ \E size \in Sizes, s \in ChosenSlot :
       /\ ~CanCarve(size)
       /\ \/ (total > size /\ locks # 0)
          \/ largest > size
       /\ cursor' = AdvanceFrom(s)
  /\ UNCHANGED <<chunkVars, table, locks, cached, pc, req, compaction>>

MayCompact(size) == total > size /\ locks = 0

\* pool_alloc_handle compacts, unless there is only one chunk, and tries again.
AllocCompacts ==
  /\ pc = "idle"
  /\ \E size \in Sizes, d \in Data, s \in ChosenSlot :
       /\ MayCompact(size)
       /\ ~CanCarve(size)
       /\ cursor' = AdvanceFrom(s)
       /\ req' = [slot |-> s, size |-> size, data |-> d]
  /\ IF count = 1
     THEN pc' = "retry" /\ UNCHANGED <<count, compaction>>
     ELSE /\ pc' = "compact"
          /\ left' = count /\ count' = 0
          /\ UNCHANGED <<rd, wr, before, squeezed>>
  /\ UNCHANGED <<heap, total, largest, table, locks, cached>>

Retry ==
  /\ pc = "retry"
  /\ pc' = "idle"
  /\ IF CanCarve(req.size)
     THEN Bind(req.slot, req.size, req.data)
     ELSE UNCHANGED <<chunkVars, table, cached>>
  /\ req' = NoRequest
  /\ UNCHANGED <<cursor, locks, compaction>>

-----------------------------------------------------------------------------
(* pool_coalesce_free: one iteration of its loop per step.                  *)

Visiting == pc = "compact" /\ left > 0

\* Mutant: the slot of a chunk that slides down does not follow it.
CompactUsedLeavesSlot ==
  /\ Visiting
  /\ heap[rd].used
  /\ heap' = [a \in (DOMAIN heap \ {rd}) \cup {wr} |->
                IF a # wr THEN heap[a]
                ELSE [heap[rd] EXCEPT !.prev = before, !.moved = TRUE]]
  /\ rd' = NextOf(rd) /\ wr' = wr + heap[rd].size
  /\ left' = left - 1 /\ before' = wr /\ count' = count + 1
  /\ UNCHANGED <<total, largest, table, cursor, locks, cached, pc, req, squeezed>>

\* An allocated chunk slides down to the write cursor, and its slot follows.
CompactUsed ==
  /\ Visiting
  /\ heap[rd].used
  /\ heap' = [a \in (DOMAIN heap \ {rd}) \cup {wr} |->
                IF a # wr THEN heap[a]
                ELSE IF rd = wr THEN [heap[rd] EXCEPT !.prev = before]
                ELSE [heap[rd] EXCEPT !.prev = before, !.last = FALSE,
                                      !.moved = TRUE]]
  /\ table' = [table EXCEPT ![heap[rd].owner] = wr]
  /\ rd' = NextOf(rd) /\ wr' = wr + heap[rd].size
  /\ left' = left - 1 /\ before' = wr /\ count' = count + 1
  /\ UNCHANGED <<total, largest, cursor, locks, cached, pc, req, squeezed>>

\* A free chunk is squeezed out; the last one ends the walk.
CompactFree ==
  /\ Visiting
  /\ ~heap[rd].used
  /\ heap' = [a \in DOMAIN heap \ {rd} |-> heap[a]]
  /\ squeezed' = squeezed + heap[rd].size
  /\ rd' = NextOf(rd)
  /\ left' = IF heap[rd].last THEN 0 ELSE left - 1
  /\ UNCHANGED <<total, largest, count, table, cursor, locks, cached, pc, req,
                 wr, before>>

\* Mutant: the largest free chunk is not recomputed.
CompactDoneKeepsLargest ==
  /\ pc = "compact" /\ left = 0
  /\ pc' = "retry"
  /\ heap' = [a \in DOMAIN heap \cup {wr} |->
                IF a = wr THEN FreeChunk(squeezed, before, TRUE) ELSE heap[a]]
  /\ count' = count + 1
  /\ rd' = 0 /\ wr' = 0 /\ left' = 0 /\ before' = Null /\ squeezed' = 0
  /\ UNCHANGED <<total, largest, table, cursor, locks, cached, req>>

\* The gaps become one free chunk at the end.  Had there been none, the store
\* of flags 2 would hit the last block and free it.  The locals are reset.
CompactDone ==
  /\ pc = "compact" /\ left = 0
  /\ pc' = "retry"
  /\ IF squeezed # 0
     THEN /\ heap' = [a \in DOMAIN heap \cup {wr} |->
                        IF a = wr THEN FreeChunk(squeezed, before, TRUE)
                        ELSE heap[a]]
          /\ count' = count + 1 /\ largest' = squeezed
     ELSE /\ heap' = [heap EXCEPT ![before].used = FALSE, ![before].last = TRUE]
          /\ UNCHANGED <<count, largest>>
  /\ rd' = 0 /\ wr' = 0 /\ left' = 0 /\ before' = Null /\ squeezed' = 0
  /\ UNCHANGED <<total, table, cursor, locks, cached, req>>

-----------------------------------------------------------------------------
(* The other operations.                                                    *)

\* pool_free_handle; freeing an empty slot does nothing.
Free ==
  /\ pc = "idle"
  /\ \E s \in Slot :
       /\ table[s] # Null
       /\ cursor' = heap[table[s]].owner
       /\ Release(table[s])
       /\ table' = [table EXCEPT ![s] = Null]
       /\ cached' = [cached EXCEPT ![s] = Null]
  /\ UNCHANGED <<locks, pc, req, compaction>>

\* obj_counter12_inc and obj_counter12_dec
Lock ==
  /\ pc = "idle" /\ locks < MaxLocks
  /\ locks' = locks + 1
  /\ UNCHANGED <<chunkVars, table, cursor, cached, pc, req, compaction>>

Unlock ==
  /\ pc = "idle" /\ locks > 0
  /\ locks' = locks - 1
  /\ UNCHANGED <<chunkVars, table, cursor, cached, pc, req, compaction>>

\* Mutant: the flag is cleared but the address the client keeps is not updated.
RefreshForgets ==
  /\ pc = "idle"
  /\ \E s \in Slot :
       /\ table[s] # Null
       /\ heap[table[s]].moved
       /\ heap' = [heap EXCEPT ![table[s]].moved = FALSE]
  /\ UNCHANGED <<total, largest, count, table, cursor, locks, cached, pc, req,
                 compaction>>

\* refresh_moved_das_cache_block, called when a client finds the block flagged.
Refresh ==
  /\ pc = "idle"
  /\ \E s \in Slot :
       /\ table[s] # Null
       /\ heap[table[s]].moved
       /\ heap' = [heap EXCEPT ![table[s]].moved = FALSE]
       /\ cached' = [cached EXCEPT ![s] = table[s]]
  /\ UNCHANGED <<total, largest, count, table, cursor, locks, pc, req, compaction>>

Next == \/ Alloc \/ AllocFails \/ AllocCompacts \/ Retry
        \/ CompactUsed \/ CompactFree \/ CompactDone
        \/ Free \/ Lock \/ Unlock \/ Refresh

Spec == Init /\ [][Next]_vars

-----------------------------------------------------------------------------
Request == [slot : Slot, size : Sizes \cup {0}, data : Data]

TypeOK ==
  /\ ChunkList(heap)
  /\ total \in Int /\ largest \in Int /\ count \in Int
  /\ table \in [Slot -> Address \cup {Null}]
  /\ cached \in [Slot -> Address \cup {Null}]
  /\ cursor \in Slot /\ locks \in 0 .. MaxLocks
  /\ pc \in {"idle", "compact", "retry"} /\ req \in Request
  /\ rd \in Address /\ wr \in Address /\ left \in Int
  /\ before \in Address \cup {Null} /\ squeezed \in Int

\* The handle table and the chunks' handle indices agree: a slot in use names
\* an allocated chunk that names the slot, and every such chunk has its slot.
HandlesMatchChunks ==
  /\ \A s \in Slot : table[s] # Null =>
       /\ table[s] \in DOMAIN heap
       /\ heap[table[s]].used /\ heap[table[s]].owner = s
  /\ \A a \in DOMAIN heap : heap[a].used => table[heap[a].owner] = a

(* What get_pool_descriptor would accept, whenever a client can look:      *)
(* chunks tile the arena, back links are right, only the last chunk is      *)
(* marked last, no two free chunks are neighbours, and the number of chunks *)
(* and the largest free one are as counted.  Even while the gaps are being  *)
(* squeezed out, pool+8 is exact (no byte of a block is lost or duplicated) *)
(* and handles and chunks name each other.                                  *)
PoolInvariant ==
  /\ TypeOK
  /\ pc # "compact" => WellFormed(heap) /\ Accounts
  /\ total = Arena - Cardinality(UsedBytes(heap))
  /\ HandlesMatchChunks

(* A client that trusts the moved flag never uses a stale address: if the   *)
(* address it cached is not where the block is, the block is flagged.       *)
StaleAddressIsFlagged ==
  \A s \in Slot : table[s] # Null /\ cached[s] # table[s] => heap[table[s]].moved

(* Compaction defeats fragmentation: it is only ever started with a free    *)
(* chunk to squeeze out, so that its last store never frees the last block, *)
(* and after it the allocation that asked for it fails only if all the free *)
(* bytes together do not suffice.                                           *)
CompactionDefeatsFragmentation ==
  /\ pc = "compact" /\ left = 0 => squeezed > 0
  /\ pc = "retry" /\ Needed(req.size) <= total => CanCarve(req.size)

-----------------------------------------------------------------------------
\* What a client may rely on: the contents of each handle.
Contents == [s \in Slot |-> IF table[s] = Null THEN {} ELSE {heap[table[s]].data}]
Store == INSTANCE HandleStore WITH Handle <- Slot, store <- Contents

(* Whatever moves, a handle's contents change only by allocating or freeing *)
(* that handle.                                                             *)
ImplementsHandleStore == Store!Spec
=============================================================================
