------------------------------- MODULE RawPool -------------------------------
(***************************************************************************)
(* The game heap (engine/renderer.c): a pool without a handle table.  Its  *)
(* clients hold the addresses of their blocks, so no block ever moves, and *)
(* an allocation that finds no chunk large enough simply fails.  Blocks    *)
(* come from the low end of the first chunk that fits, except for the      *)
(* scratch block of the configuration parser, which comes from the high    *)
(* end of the last one.                                                    *)
(***************************************************************************)
EXTENDS PoolChunks

CONSTANT BlockSizes   (* block sizes that clients ask for *)

ASSUME RawPoolAssumption == BlockSizes \subseteq Nat \ {0} /\ Arena > 0

VARIABLE held    \* the blocks clients hold: address -> what they stored

heapVars == <<chunkVars, held>>

HeapInit == InitChunks /\ held = [a \in {} |-> NoData]

Stored(a, d) == [b \in DOMAIN held \cup {a} |-> IF b = a THEN d ELSE held[b]]

\* game_heap_alloc, that is pool_alloc_checked and pool_carve_chunk.
HeapAlloc ==
  \E size \in BlockSizes, d \in Data :
    /\ Needed(size) <= largest
    /\ \E c \in FirstFit(Needed(size)) :
         /\ CarveLow(c, Needed(size), NoOwner, d)
         /\ held' = Stored(c, d)

\* The configuration parser's scratch block: pool_find_free_chunk.
HeapAllocHigh ==
  \E size \in BlockSizes, d \in Data :
    /\ Needed(size) <= largest
    /\ \E c \in LastFit(Needed(size)) :
         /\ CarveHigh(c, Needed(size), NoOwner, d)
         /\ held' = Stored(HighBlock(c, Needed(size)), d)

\* game_heap_free, that is pool_free_chunk.
HeapFree ==
  \E a \in DOMAIN held :
    /\ Release(a)
    /\ held' = [b \in DOMAIN held \ {a} |-> held[b]]

HeapNext == HeapAlloc \/ HeapAllocHigh \/ HeapFree

HeapSpec == HeapInit /\ [][HeapNext]_heapVars

-----------------------------------------------------------------------------
HeapTypeOK ==
  /\ ChunkList(heap)
  /\ total \in Int /\ largest \in Int /\ count \in Int
  /\ held \in [DOMAIN held -> Data]

(* The list passes the checks of get_pool_descriptor after every call, in   *)
(* whatever order the blocks come and go and from either end.               *)
ChunkListIsWellFormed == WellFormed(heap)

(* The three counters of the pool header are exact: the number of chunks,   *)
(* the largest free chunk, and the free bytes (query_game_heap_free is      *)
(* read before each large allocation).                                      *)
AccountsAreExact == Accounts

(* A block belongs to one client until that client frees it, and keeps what *)
(* the client stored: allocating and freeing other blocks never hands out,  *)
(* splits or merges it.                                                     *)
BlocksArePrivate ==
  /\ \A a \in DOMAIN heap : heap[a].used <=> a \in DOMAIN held
  /\ \A a \in DOMAIN held : a \in DOMAIN heap /\ heap[a].data = held[a]

(* Freeing everything gives back the whole arena as one chunk: no sequence  *)
(* of calls leaves the heap fragmented for good.                            *)
EmptyHeapIsOneChunk ==
  DOMAIN held = {} => /\ DOMAIN heap = {0} /\ heap[0].size = Arena
                      /\ largest = Arena
=============================================================================
