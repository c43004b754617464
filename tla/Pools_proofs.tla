---------------------------- MODULE Pools_proofs ----------------------------
(***************************************************************************)
(* Both pools are correct for every arena and every sequence of calls: the *)
(* game heap (RawPool), and the handle pool of the DAS cache, compaction   *)
(* included.  The two share the variables of PoolChunks and nothing else;  *)
(* each theorem speaks of one specification.                               *)
(***************************************************************************)
EXTENDS HandlePool, RawPool, PoolChunks_proofs

-----------------------------------------------------------------------------
(* The game heap.                                                          *)

(* The inductive invariant.  Tiled is stronger than ChunkListIsWellFormed:  *)
(* that no byte of the arena is outside every chunk is what makes the next  *)
(* chunk start where this one ends after a merge.                           *)
HeapInv == /\ HeapTypeOK /\ Tiled(heap) /\ AccountsAreExact /\ BlocksArePrivate

(* pool_init lays down one free chunk that fills the arena.                 *)
LEMMA EmptyHeapIsCorrect ==
  ASSUME PoolAssumption, RawPoolAssumption, HeapInit
  PROVE  HeapInv
<1>1. /\ ChunkList(heap) /\ Tiled(heap) /\ Accounts
      /\ \A a \in DOMAIN heap : ~heap[a].used
      /\ total = Arena /\ largest = Arena /\ count = 1
  BY InitialChunks DEF HeapInit, InitChunks, RawPoolAssumption
<1>2. DOMAIN held = {} /\ held = [a \in DOMAIN held |-> NoData]
  BY DEF HeapInit
<1>3. HeapTypeOK
  BY <1>1, <1>2 DEF HeapTypeOK, PoolAssumption
<1>4. BlocksArePrivate
  BY <1>1, <1>2 DEF BlocksArePrivate
<1> QED BY <1>1, <1>3, <1>4 DEF HeapInv, AccountsAreExact

\* What both allocations do once the block x is placed.
LEMMA PlacedIsPrivate ==
  ASSUME HeapTypeOK, BlocksArePrivate, NEW x, NEW d \in Data,
         Placed(heap, heap', x, NoOwner, d), held' = Stored(x, d)
  PROVE  BlocksArePrivate' /\ held' \in [DOMAIN held' -> Data]
<1>1. /\ DOMAIN held' = DOMAIN held \cup {x} /\ held'[x] = d
      /\ \A a \in DOMAIN held \ {x} : held'[a] = held[a]
      /\ held' = [b \in DOMAIN held' |-> held'[b]]
  BY DEF Stored
<1>2. /\ x \in DOMAIN heap' /\ heap'[x].used /\ heap'[x].data = d
      /\ \A a \in DOMAIN heap' \ {x} : heap'[a].used
           => a \in DOMAIN heap /\ heap[a].used
      /\ \A a \in DOMAIN heap : heap[a].used
           => /\ a \in DOMAIN heap' \ {x} /\ heap'[a].used
              /\ heap'[a].data = heap[a].data
  BY DEF Placed, OneMoreBlock
<1>3. \A a \in DOMAIN held : /\ a \in DOMAIN heap /\ heap[a].used
                             /\ heap[a].data = held[a] /\ held[a] \in Data
  BY DEF BlocksArePrivate, HeapTypeOK
<1>4. \A a \in DOMAIN heap' : heap'[a].used <=> a \in DOMAIN held'
  <2>1. ASSUME NEW a \in DOMAIN heap', heap'[a].used PROVE a \in DOMAIN held'
    BY <1>1, <1>2, <2>1 DEF BlocksArePrivate
  <2>2. ASSUME NEW a \in DOMAIN held' PROVE heap'[a].used
    BY <1>1, <1>2, <1>3
  <2> QED BY <2>1, <2>2
<1>5. \A a \in DOMAIN held' : /\ a \in DOMAIN heap' /\ heap'[a].data = held'[a]
                              /\ held'[a] \in Data
  BY <1>1, <1>2, <1>3
<1> QED BY <1>1, <1>4, <1>5 DEF BlocksArePrivate

(* Every step of the raw pool keeps the invariant.                         *)
LEMMA HeapStepIsCorrect ==
  ASSUME PoolAssumption, RawPoolAssumption, HeapInv, [HeapNext]_heapVars
  PROVE  HeapInv'
<1>1. ChunkList(heap) /\ Tiled(heap) /\ Accounts /\ Arena > 0 /\ HeapTypeOK
      /\ BlocksArePrivate
  BY DEF HeapInv, HeapTypeOK, AccountsAreExact, RawPoolAssumption
<1>2. \A size \in BlockSizes : Needed(size) \in Nat \ {0}
  BY NeededIsPositive DEF RawPoolAssumption
<1>3. NoOwner \in Owners
  BY NoneTyped
<1>4. \* It is enough that the heap, the accounts and the clients agree.
      ASSUME ChunkList(heap'), Tiled(heap'), Accounts', BlocksArePrivate',
             held' \in [DOMAIN held' -> Data]
      PROVE  HeapInv'
  <2>1. Cardinality(DOMAIN heap') \in Nat /\ Cardinality(UsedBytes(heap')) \in Nat
    BY <1>4, ListIsFinite, FS_CardinalityType
  <2>2. LargestFree(heap') \in Nat
    BY <1>4, LargestFreeExists DEF Tiled
  <2>3. HeapTypeOK'
    BY <1>4, <2>1, <2>2 DEF HeapTypeOK, Accounts, PoolAssumption
  <2> QED BY <1>4, <2>3 DEF HeapInv, AccountsAreExact
<1>5. CASE HeapAlloc
  <2> PICK size \in BlockSizes, d \in Data :
        \E c \in FirstFit(Needed(size)) :
          CarveLow(c, Needed(size), NoOwner, d) /\ held' = Stored(c, d)
    BY <1>5 DEF HeapAlloc
  <2>1. PICK c \in FirstFit(Needed(size)) :
          CarveLow(c, Needed(size), NoOwner, d) /\ held' = Stored(c, d)
    OBVIOUS
  <2>2. c \in DOMAIN heap /\ Fits(c, Needed(size))
    BY DEF FirstFit
  <2>3. /\ ChunkList(heap') /\ Tiled(heap') /\ Accounts'
        /\ Placed(heap, heap', c, NoOwner, d)
    BY <1>1, <1>2, <1>3, <2>1, <2>2, CarveLowPlaces
  <2> QED BY <1>1, <1>4, <2>1, <2>3, PlacedIsPrivate
<1>6. CASE HeapAllocHigh
  <2> PICK size \in BlockSizes, d \in Data :
        \E c \in LastFit(Needed(size)) :
          /\ CarveHigh(c, Needed(size), NoOwner, d)
          /\ held' = Stored(HighBlock(c, Needed(size)), d)
    BY <1>6 DEF HeapAllocHigh
  <2>1. PICK c \in LastFit(Needed(size)) :
          /\ CarveHigh(c, Needed(size), NoOwner, d)
          /\ held' = Stored(HighBlock(c, Needed(size)), d)
    OBVIOUS
  <2>2. c \in DOMAIN heap /\ Fits(c, Needed(size))
    BY DEF LastFit
  <2>3. /\ ChunkList(heap') /\ Tiled(heap') /\ Accounts'
        /\ Placed(heap, heap', HighBlock(c, Needed(size)), NoOwner, d)
    BY <1>1, <1>2, <1>3, <2>1, <2>2, CarveHighPlaces
  <2> QED BY <1>1, <1>4, <2>1, <2>3, PlacedIsPrivate
<1>7. CASE HeapFree
  <2>1. PICK c \in DOMAIN held : /\ Release(c)
                                 /\ held' = [b \in DOMAIN held \ {c} |-> held[b]]
    BY <1>7 DEF HeapFree
  <2>2. c \in DOMAIN heap /\ heap[c].used
    BY <1>1 DEF BlocksArePrivate
  <2>3. /\ ChunkList(heap') /\ Tiled(heap') /\ Accounts'
        /\ OneMoreBlock(heap', heap, c)
        /\ \A a \in DOMAIN heap \ {c} : heap[a].used
             => heap'[a].data = heap[a].data
    BY <1>1, <2>1, <2>2, ReleaseUnplaces
  <2>4. /\ DOMAIN held' = DOMAIN held \ {c}
        /\ \A a \in DOMAIN held \ {c} : held'[a] = held[a]
        /\ held' \in [DOMAIN held' -> Data]
    BY <1>1, <2>1 DEF HeapTypeOK
  <2>5. BlocksArePrivate'
    BY <1>1, <2>3, <2>4 DEF BlocksArePrivate, OneMoreBlock
  <2> QED BY <1>4, <2>3, <2>4, <2>5
<1>8. CASE UNCHANGED heapVars
  BY <1>8 DEF heapVars, chunkVars, HeapInv, HeapTypeOK, AccountsAreExact, Accounts,
              BlocksArePrivate
<1> QED BY <1>5, <1>6, <1>7, <1>8 DEF HeapNext

(* Every reachable state of the heap satisfies the inductive invariant, for *)
(* every arena size, header size and set of requests.                       *)
THEOREM RawPoolInvariant ==
  HeapSpec => []HeapInv
<1>1. HeapInit => HeapInv
  BY PoolAssumption, RawPoolAssumption, EmptyHeapIsCorrect
<1>2. HeapInv /\ [HeapNext]_heapVars => HeapInv'
  BY PoolAssumption, RawPoolAssumption, HeapStepIsCorrect
<1> QED BY <1>1, <1>2, PTL DEF HeapSpec

(* The list that pool_free_chunk and the two carves leave is always one     *)
(* that get_pool_descriptor accepts.                                        *)
THEOREM RawPoolIsWellFormed ==
  HeapSpec => []ChunkListIsWellFormed
<1>1. HeapInv => ChunkListIsWellFormed
  BY PoolAssumption, RawPoolAssumption, TiledIsWellFormed
    DEF HeapInv, HeapTypeOK, ChunkListIsWellFormed, RawPoolAssumption
<1> QED BY <1>1, RawPoolInvariant, PTL

(* pool+4, pool+8 and pool+0x14 are exact after every call.                 *)
THEOREM RawPoolAccounts ==
  HeapSpec => []AccountsAreExact
<1>1. HeapInv => AccountsAreExact
  BY DEF HeapInv
<1> QED BY <1>1, RawPoolInvariant, PTL

(* No call hands out, splits, merges or overwrites a block that another     *)
(* client holds.                                                            *)
THEOREM RawPoolPrivacy ==
  HeapSpec => []BlocksArePrivate
<1>1. HeapInv => BlocksArePrivate
  BY DEF HeapInv
<1> QED BY <1>1, RawPoolInvariant, PTL

(* However the blocks were allocated and freed, an empty heap is one free   *)
(* chunk again.                                                             *)
THEOREM RawPoolDefragments ==
  HeapSpec => []EmptyHeapIsOneChunk
<1> USE PoolAssumption, RawPoolAssumption
<1>1. ASSUME HeapInv, DOMAIN held = {}
      PROVE  DOMAIN heap = {0} /\ heap[0].size = Arena /\ largest = Arena
  <2>1. /\ ChunkList(heap) /\ Tiled(heap) /\ Accounts /\ Arena > 0
        /\ \A a \in DOMAIN heap : ~heap[a].used
    BY <1>1 DEF HeapInv, HeapTypeOK, AccountsAreExact, BlocksArePrivate
  <2>2. /\ \A a \in DOMAIN heap : /\ a \in Nat /\ heap[a].size \in Nat
                                  /\ heap[a].size > 0 /\ a + heap[a].size <= Arena
        /\ Arena \in Nat
    BY <2>1 DEF ChunkList, Chunk, Address, Tiled, Bounded, End
  <2>3. Gapless(heap)
    BY <2>1, TiledIsGapless DEF Tiled
  <2>4. 0 \in DOMAIN heap /\ heap[0].size = Arena
    BY <2>1, <2>2, <2>3 DEF Gapless, Tiled, Coalesced, End
  <2>5. \A a \in DOMAIN heap : a = 0
    BY <2>1, <2>2, <2>4 DEF Tiled, Disjoint, End
  <2>6. FreeSizes(heap) = {Arena, 0}
    BY <2>1, <2>4, <2>5 DEF FreeSizes
  <2>7. largest = Arena
    BY <2>1, <2>2, <2>6, LargestFreeIs DEF Tiled, Accounts
  <2> QED BY <2>4, <2>5, <2>7
<1>2. HeapInv => EmptyHeapIsOneChunk
  BY <1>1 DEF EmptyHeapIsOneChunk
<1> QED BY <1>2, RawPoolInvariant, PTL

-----------------------------------------------------------------------------
(* The handle pool.                                                        *)

(* Between allocations and compactions the heap is as pool_init left it:    *)
(* chunks tile the arena, the counters are exact, the cursors are reset.    *)
Settled ==
  /\ Tiled(heap) /\ Accounts
  /\ rd = 0 /\ wr = 0 /\ left = 0 /\ before = Null /\ squeezed = 0

Written(h, w) == {a \in DOMAIN h : a < w}
Ahead(h, r) == {a \in DOMAIN h : a >= r}

(* While pool_coalesce_free runs, blocks without gaps lie below w, the      *)
(* chunks still to visit from r on, and nothing in between.                 *)
Gathered(h, r, w, b) ==
  /\ w <= r /\ Bounded(h) /\ Disjoint(h)
  /\ \A a \in DOMAIN h : a < w \/ a >= r
  /\ \A a \in DOMAIN h : a < w =>
       /\ h[a].used /\ End(h, a) <= w /\ ~h[a].last
       /\ IF a = 0 THEN h[a].prev = Null
          ELSE h[a].prev \in DOMAIN h /\ End(h, h[a].prev) = a
  /\ \A x \in 0 .. Arena - 1 : x < w \/ x >= r => \E a \in DOMAIN h : Over(h, a, x)
  /\ \A a \in DOMAIN h : a >= r => (h[a].last <=> End(h, a) = Arena)
  /\ IF w = 0 THEN b = Null ELSE b \in DOMAIN h /\ b < w /\ End(h, b) = w

Compacting ==
  /\ Gathered(heap, rd, wr, before)
  /\ squeezed = rd - wr
  /\ count = Cardinality(Written(heap, wr))
  /\ left = Cardinality(Ahead(heap, rd))

IInv ==
  /\ TypeOK /\ HandlesMatchChunks /\ StaleAddressIsFlagged
  /\ total = Arena - Cardinality(UsedBytes(heap))
  /\ pc # "compact" => Settled
  /\ pc = "compact" => Compacting
  /\ pc = "retry" => largest = total
  /\ pc # "idle" => /\ table[req.slot] = Null /\ req.size \in Sizes
                    /\ total > req.size

-----------------------------------------------------------------------------
(* Lemmas about a list that is being compacted: h before a step, g after.   *)

\* The chunk under the read cursor is there while bytes are left to read, and
\* nothing is left to read only at the end of the arena.
LEMMA ReadCursor ==
  ASSUME PoolAssumption, NEW h, NEW r \in Address, NEW w \in Address, NEW b,
         ChunkList(h), Gathered(h, r, w, b)
  PROVE  /\ r < Arena => r \in DOMAIN h
         /\ Ahead(h, r) # {} => r \in DOMAIN h
         /\ Ahead(h, r) = {} => r = Arena
<1>1. /\ \A a \in DOMAIN h : a \in Nat /\ h[a].size \in Nat /\ h[a].size > 0
                             /\ a + h[a].size <= Arena
      /\ r \in Nat /\ w \in Nat /\ Arena \in Nat /\ r <= Arena /\ w <= r
  BY DEF ChunkList, Chunk, Address, PoolAssumption, Gathered, Bounded, End
<1>2. ASSUME r < Arena PROVE r \in DOMAIN h
  <2>1. r \in 0 .. Arena - 1
    BY <1>1, <1>2
  <2>2. PICK a \in DOMAIN h : a <= r /\ r < a + h[a].size
    BY <1>1, <2>1 DEF Gathered, Over, End
  <2>3. a < w => a + h[a].size <= w
    BY DEF Gathered, End
  <2>4. a < w \/ a >= r
    BY DEF Gathered
  <2> QED BY <1>1, <2>2, <2>3, <2>4
<1>3. ASSUME NEW a \in Ahead(h, r) PROVE r < Arena
  BY <1>1, <1>3 DEF Ahead
<1> QED BY <1>1, <1>2, <1>3 DEF Ahead

\* A list of blocks without gaps up to byte w uses w bytes.
LEMMA FilledUpTo ==
  ASSUME PoolAssumption, NEW h, NEW w \in Address, ChunkList(h),
         \A a \in DOMAIN h : h[a].used /\ End(h, a) <= w,
         \A x \in 0 .. Arena - 1 : x < w => \E a \in DOMAIN h : Over(h, a, x)
  PROVE  Cardinality(UsedBytes(h)) = w
<1>1. /\ \A a \in DOMAIN h : a \in Nat /\ h[a].size \in Nat
      /\ w \in Nat /\ Arena \in Nat /\ w <= Arena
  BY DEF ChunkList, Chunk, Address, PoolAssumption
<1>2. UsedBytes(h) = 0 .. w - 1
  BY <1>1 DEF UsedBytes, Over, End
<1> QED BY <1>1, <1>2, FS_Interval

\* The block under the read cursor slides down to the write cursor.
IsSlid(h, g, r, w, b) ==
  /\ r \in DOMAIN h /\ h[r].used
  /\ DOMAIN g = (DOMAIN h \ {r}) \cup {w}
  /\ g[w].size = h[r].size /\ g[w].used /\ g[w].prev = b /\ ~g[w].last
  /\ \A a \in DOMAIN h \ {r} : g[a] = h[a]

(* Sliding the next block down keeps what has been gathered contiguous.    *)
LEMMA SlidingKeepsGathered ==
  ASSUME PoolAssumption, NEW h, NEW g, NEW r \in Address, NEW w \in Address,
         NEW b, ChunkList(h), Gathered(h, r, w, b), IsSlid(h, g, r, w, b)
  PROVE  /\ Gathered(g, r + h[r].size, w + h[r].size, w)
         /\ Written(g, w + h[r].size) = Written(h, w) \cup {w}
         /\ w \notin Written(h, w)
         /\ Ahead(g, r + h[r].size) = Ahead(h, r) \ {r}
         /\ r \in Ahead(h, r)
<1> DEFINE n == h[r].size
<1>1. /\ \A a \in DOMAIN h : a \in Nat /\ h[a].size \in Nat /\ h[a].size > 0
                             /\ a + h[a].size <= Arena
      /\ r \in Nat /\ w \in Nat /\ Arena \in Nat /\ r <= Arena /\ w <= r
      /\ r \in DOMAIN h /\ n \in Nat /\ n > 0 /\ r + n <= Arena
  BY DEF ChunkList, Chunk, Address, PoolAssumption, Gathered, Bounded, End, IsSlid
<1>2. /\ \A x, y \in DOMAIN h : x < y => x + h[x].size <= y
      /\ \A a \in DOMAIN h : a < w \/ a >= r
      /\ \A a \in DOMAIN h : a < w => a + h[a].size <= w
  BY DEF Gathered, Disjoint, End
<1>3. /\ DOMAIN g = (DOMAIN h \ {r}) \cup {w} /\ g[w].size = n
      /\ \A a \in DOMAIN h \ {r} : g[a] = h[a]
  BY DEF IsSlid
<1>4. \A a \in DOMAIN h \ {r} : a # w
  BY <1>1, <1>2
<1>5. \A a \in DOMAIN g : a = w \/ (a \in DOMAIN h \ {r} /\ g[a] = h[a])
  BY <1>3
<1>6. \A a \in DOMAIN h \ {r} : a < w \/ a >= r + n
  BY <1>1, <1>2
<1>7. Bounded(g)
  BY <1>1, <1>3, <1>5 DEF Bounded, End
<1>8. Disjoint(g)
  <2> SUFFICES ASSUME NEW x \in DOMAIN g, NEW y \in DOMAIN g, x < y
               PROVE  x + g[x].size <= y
    BY DEF Disjoint, End
  <2>1. CASE x = w
    BY <1>1, <1>3, <1>5, <1>6, <2>1
  <2>2. CASE x # w /\ y = w
    BY <1>1, <1>2, <1>5, <2>2
  <2>3. CASE x # w /\ y # w
    BY <1>2, <1>5, <2>3
  <2> QED BY <2>1, <2>2, <2>3
<1>9. \A a \in DOMAIN g : a < w + n \/ a >= r + n
  BY <1>1, <1>5, <1>6
<1>10. ASSUME NEW a \in DOMAIN g, a < w + n
       PROVE  /\ g[a].used /\ a + g[a].size <= w + n /\ ~g[a].last
              /\ IF a = 0 THEN g[a].prev = Null
                 ELSE g[a].prev \in DOMAIN g
                      /\ g[a].prev + g[g[a].prev].size = a
  <2>1. /\ \A x \in DOMAIN h : x < w =>
             /\ h[x].used /\ ~h[x].last
             /\ IF x = 0 THEN h[x].prev = Null
                ELSE h[x].prev \in DOMAIN h
                     /\ h[x].prev + h[h[x].prev].size = x
        /\ IF w = 0 THEN b = Null
           ELSE b \in DOMAIN h /\ b < w /\ b + h[b].size = w
    BY DEF Gathered, End
  <2>2. CASE a = w
    BY <1>1, <1>3, <2>1, <2>2 DEF IsSlid
  <2>3. CASE a # w
    <3>1. a \in DOMAIN h \ {r} /\ g[a] = h[a] /\ a < w
      BY <1>1, <1>5, <1>6, <1>10, <2>3
    <3>2. a # 0 => h[a].prev \in DOMAIN h \ {r}
      BY <1>1, <2>1, <3>1
    <3> QED BY <1>1, <1>2, <1>3, <2>1, <3>1, <3>2
  <2> QED BY <2>2, <2>3
<1>11. ASSUME NEW x \in 0 .. Arena - 1, x < w + n \/ x >= r + n
       PROVE  \E a \in DOMAIN g : a <= x /\ x < a + g[a].size
  <2>1. CASE w <= x /\ x < w + n
    BY <1>1, <1>3, <2>1
  <2>2. CASE ~(w <= x /\ x < w + n)
    <3>1. x < w \/ x >= r
      BY <1>1, <1>11, <2>2
    <3>2. PICK a \in DOMAIN h : a <= x /\ x < a + h[a].size
      BY <3>1 DEF Gathered, Over, End
    <3>3. a # r
      BY <1>1, <1>11, <2>2, <3>2
    <3> QED BY <1>3, <3>2, <3>3
  <2> QED BY <2>1, <2>2
<1>12. \A a \in DOMAIN g : a >= r + n => (g[a].last <=> a + g[a].size = Arena)
  <2>1. \A a \in DOMAIN h : a >= r => (h[a].last <=> a + h[a].size = Arena)
    BY DEF Gathered, End
  <2> QED BY <1>1, <1>5, <2>1
<1>13. Gathered(g, r + n, w + n, w)
  BY <1>1, <1>3, <1>7, <1>8, <1>9, <1>10, <1>11, <1>12 DEF Gathered, Over, End
<1>14. /\ Written(g, w + n) = Written(h, w) \cup {w} /\ w \notin Written(h, w)
       /\ Ahead(g, r + n) = Ahead(h, r) \ {r} /\ r \in Ahead(h, r)
  BY <1>1, <1>3, <1>4, <1>6 DEF Written, Ahead
<1> QED BY <1>13, <1>14

\* The free chunk under the read cursor is dropped.
LEMMA SqueezingKeepsGathered ==
  ASSUME PoolAssumption, NEW h, NEW g, NEW r \in Address, NEW w \in Address,
         NEW b, ChunkList(h), Gathered(h, r, w, b), r \in DOMAIN h, ~h[r].used,
         g = [a \in DOMAIN h \ {r} |-> h[a]]
  PROVE  /\ Gathered(g, r + h[r].size, w, b)
         /\ Written(g, w) = Written(h, w)
         /\ Ahead(g, r + h[r].size) = Ahead(h, r) \ {r}
         /\ r \in Ahead(h, r)
<1> DEFINE n == h[r].size
<1>1. /\ \A a \in DOMAIN h : a \in Nat /\ h[a].size \in Nat /\ h[a].size > 0
                             /\ a + h[a].size <= Arena
      /\ r \in Nat /\ w \in Nat /\ Arena \in Nat /\ w <= r
      /\ n \in Nat /\ n > 0 /\ r + n <= Arena
  BY DEF ChunkList, Chunk, Address, PoolAssumption, Gathered, Bounded, End
<1>2. /\ \A x, y \in DOMAIN h : x < y => x + h[x].size <= y
      /\ \A a \in DOMAIN h : a < w \/ a >= r
      /\ \A a \in DOMAIN h : a < w => a + h[a].size <= w
  BY DEF Gathered, Disjoint, End
<1>3. DOMAIN g = DOMAIN h \ {r} /\ \A a \in DOMAIN g : g[a] = h[a]
  OBVIOUS
<1>4. \A a \in DOMAIN g : a < w \/ a >= r + n
  BY <1>1, <1>2, <1>3
<1>5. Bounded(g) /\ Disjoint(g)
  BY <1>1, <1>2, <1>3 DEF Bounded, Disjoint, End
<1>6. ASSUME NEW a \in DOMAIN g, a < w
      PROVE  /\ g[a].used /\ a + g[a].size <= w /\ ~g[a].last
             /\ IF a = 0 THEN g[a].prev = Null
                ELSE g[a].prev \in DOMAIN g
                     /\ g[a].prev + g[g[a].prev].size = a
  <2>1. /\ h[a].used /\ a + h[a].size <= w /\ ~h[a].last
        /\ IF a = 0 THEN h[a].prev = Null
           ELSE h[a].prev \in DOMAIN h /\ h[a].prev + h[h[a].prev].size = a
    BY <1>3, <1>6 DEF Gathered, End
  <2> QED BY <1>1, <1>3, <1>6, <2>1
<1>7. ASSUME NEW x \in 0 .. Arena - 1, x < w \/ x >= r + n
      PROVE  \E a \in DOMAIN g : a <= x /\ x < a + g[a].size
  <2>1. x < w \/ x >= r
    BY <1>1, <1>7
  <2>2. PICK a \in DOMAIN h : a <= x /\ x < a + h[a].size
    BY <2>1 DEF Gathered, Over, End
  <2> QED BY <1>1, <1>3, <1>7, <2>2
<1>8. \A a \in DOMAIN g : a >= r + n => (g[a].last <=> a + g[a].size = Arena)
  <2>1. \A a \in DOMAIN h : a >= r => (h[a].last <=> a + h[a].size = Arena)
    BY DEF Gathered, End
  <2> QED BY <1>1, <1>3, <2>1
<1>9. IF w = 0 THEN b = Null ELSE b \in DOMAIN g /\ b < w /\ b + g[b].size = w
  <2>1. IF w = 0 THEN b = Null ELSE b \in DOMAIN h /\ b < w /\ b + h[b].size = w
    BY DEF Gathered, End
  <2> QED BY <1>1, <1>3, <2>1
<1>10. Gathered(g, r + n, w, b)
  BY <1>1, <1>4, <1>5, <1>6, <1>7, <1>8, <1>9 DEF Gathered, Over, End
<1>11. /\ Written(g, w) = Written(h, w) /\ r \in Ahead(h, r)
       /\ Ahead(g, r + n) = Ahead(h, r) \ {r}
  BY <1>1, <1>3, <1>4 DEF Written, Ahead
<1> QED BY <1>10, <1>11

\* A block that slides keeps the number of bytes in use.
LEMMA SlidingKeepsBytes ==
  ASSUME PoolAssumption, NEW h, NEW g, NEW r, NEW w, NEW b,
         ChunkList(h), ChunkList(g), Bounded(h), Disjoint(h),
         Bounded(g), Disjoint(g), IsSlid(h, g, r, w, b),
         w = r \/ w \notin DOMAIN h
  PROVE  Cardinality(UsedBytes(g)) = Cardinality(UsedBytes(h))
<1> DEFINE k == [a \in DOMAIN h \ {r} |-> h[a]]
<1>1. DOMAIN k = DOMAIN h \ {r} /\ \A a \in DOMAIN h \ {r} : k[a] = h[a]
  OBVIOUS
<1>2. ChunkList(k)
  BY DEF ChunkList
<1>3. OneMoreBlock(k, h, r)
  BY <1>1 DEF OneMoreBlock, IsSlid
<1>4. OneMoreBlock(k, g, w)
  BY <1>1 DEF OneMoreBlock, IsSlid
<1>5. g[w].size = h[r].size
  BY DEF IsSlid
<1> HIDE DEF k
<1> QED BY <1>2, <1>3, <1>4, <1>5, BlockAddsItsBytes

\* What pool+4, pool+8 and pool+0x14 count is a number.
LEMMA CountsAreNumbers ==
  ASSUME PoolAssumption, NEW h, ChunkList(h), Bounded(h)
  PROVE  /\ Cardinality(DOMAIN h) \in Nat /\ Cardinality(UsedBytes(h)) \in Nat
         /\ LargestFree(h) \in Nat
BY ListIsFinite, FS_CardinalityType, LargestFreeExists

-----------------------------------------------------------------------------
(* What each operation does to the heap and to the handles' contents.       *)

Owned == TypeOK /\ HandlesMatchChunks /\ StaleAddressIsFlagged

\* Two handles never name the same chunk.
LEMMA HandlesAreDistinct ==
  ASSUME HandlesMatchChunks, NEW s \in Slot, NEW t \in Slot,
         table[s] # Null, table[t] = table[s]
  PROVE  s = t
BY DEF HandlesMatchChunks

(* Giving a handle a block keeps the pool's invariants and is the store's  *)
(* own step.                                                               *)
LEMMA BindEffect ==
  ASSUME PoolAssumption, HandlePoolAssumption, Owned, Tiled(heap), Accounts,
         NEW s \in Slot, NEW size \in Sizes, NEW d \in Data,
         table[s] = Null, Bind(s, size, d)
  PROVE  /\ ChunkList(heap') /\ Tiled(heap') /\ Accounts'
         /\ HandlesMatchChunks' /\ StaleAddressIsFlagged'
         /\ table' \in [Slot -> Address \cup {Null}]
         /\ cached' \in [Slot -> Address \cup {Null}]
         /\ Contents[s] = {} /\ Contents' = [Contents EXCEPT ![s] = {d}]
<1>1. PICK c \in FirstFit(Needed(size)) :
        /\ CarveLow(c, Needed(size), s, d)
        /\ table' = [table EXCEPT ![s] = c]
        /\ cached' = [cached EXCEPT ![s] = c]
  BY DEF Bind
<1>2. c \in DOMAIN heap /\ Fits(c, Needed(size)) /\ c \in Address /\ c # Null
  BY DEF FirstFit, Owned, TypeOK, ChunkList, Address, Null
<1>3. /\ ChunkList(heap') /\ Tiled(heap') /\ Accounts'
      /\ Placed(heap, heap', c, s, d)
  <2>1. Needed(size) \in Nat \ {0} /\ s \in Owners /\ ChunkList(heap)
    BY NeededIsPositive DEF HandlePoolAssumption, Owned, TypeOK
  <2> QED BY <1>1, <1>2, <2>1, CarveLowPlaces
<1>4. /\ table \in [Slot -> Address \cup {Null}]
      /\ cached \in [Slot -> Address \cup {Null}]
  BY DEF Owned, TypeOK
<1>5. /\ table' \in [Slot -> Address \cup {Null}]
      /\ cached' \in [Slot -> Address \cup {Null}]
      /\ table'[s] = c /\ cached'[s] = c
      /\ \A t \in Slot \ {s} : table'[t] = table[t] /\ cached'[t] = cached[t]
  BY <1>1, <1>2, <1>4
<1>6. /\ c \in DOMAIN heap' /\ heap'[c].used /\ heap'[c].owner = s
      /\ heap'[c].data = d
      /\ \A a \in DOMAIN heap : heap[a].used
           => /\ a \in DOMAIN heap' \ {c} /\ heap'[a].used
              /\ heap'[a].owner = heap[a].owner /\ heap'[a].data = heap[a].data
              /\ heap'[a].moved = heap[a].moved
      /\ \A a \in DOMAIN heap' \ {c} : heap'[a].used
           => a \in DOMAIN heap /\ heap[a].used
  BY <1>3 DEF Placed, OneMoreBlock
<1>7. /\ \A t \in Slot : table[t] # Null =>
           /\ table[t] \in DOMAIN heap /\ heap[table[t]].used
           /\ heap[table[t]].owner = t
      /\ \A a \in DOMAIN heap : heap[a].used => table[heap[a].owner] = a
      /\ \A a \in DOMAIN heap : heap[a].owner \in Slot /\ a # Null
  BY DEF Owned, TypeOK, HandlesMatchChunks, ChunkList, Chunk, HandlePoolAssumption,
         Address, Null
<1>8. HandlesMatchChunks'
  <2>1. ASSUME NEW t \in Slot, table'[t] # Null
        PROVE  /\ table'[t] \in DOMAIN heap' /\ heap'[table'[t]].used
               /\ heap'[table'[t]].owner = t
    BY <1>5, <1>6, <1>7, <2>1
  <2>2. ASSUME NEW a \in DOMAIN heap', heap'[a].used
        PROVE  table'[heap'[a].owner] = a
    <3>1. CASE a = c
      BY <1>5, <1>6, <3>1
    <3>2. CASE a # c
      <4>1. a \in DOMAIN heap /\ heap[a].used /\ heap'[a].owner = heap[a].owner
        BY <1>6, <2>2, <3>2
      <4>2. table[heap[a].owner] = a /\ heap[a].owner # s
        BY <1>7, <4>1
      <4> QED BY <1>5, <1>7, <4>1, <4>2
    <3> QED BY <3>1, <3>2
  <2> QED BY <2>1, <2>2 DEF HandlesMatchChunks
<1>9. StaleAddressIsFlagged'
  BY <1>5, <1>6, <1>7 DEF Owned, StaleAddressIsFlagged
<1>10. Contents[s] = {} /\ Contents' = [Contents EXCEPT ![s] = {d}]
  <2>1. ASSUME NEW t \in Slot
        PROVE  (IF table'[t] = Null THEN {} ELSE {heap'[table'[t]].data})
               = IF t = s THEN {d}
                 ELSE IF table[t] = Null THEN {} ELSE {heap[table[t]].data}
    <3>1. CASE t = s
      BY <1>2, <1>5, <1>6, <3>1
    <3>2. CASE t # s /\ table[t] = Null
      BY <1>5, <3>2
    <3>3. CASE t # s /\ table[t] # Null
      <4>1. /\ table'[t] = table[t] /\ table[t] \in DOMAIN heap
            /\ heap[table[t]].used
        BY <1>5, <1>7, <3>3
      <4>2. heap'[table[t]].data = heap[table[t]].data
        BY <1>6, <4>1
      <4> QED BY <3>3, <4>1, <4>2
    <3> QED BY <3>1, <3>2, <3>3
  <2> QED BY <2>1 DEF Contents
<1> QED BY <1>3, <1>5, <1>8, <1>9, <1>10

(* Taking its block away does too.                                         *)
LEMMA FreeEffect ==
  ASSUME PoolAssumption, HandlePoolAssumption, Owned, Tiled(heap), Accounts,
         NEW s \in Slot, table[s] # Null, Release(table[s]),
         table' = [table EXCEPT ![s] = Null], cached' = [cached EXCEPT ![s] = Null]
  PROVE  /\ ChunkList(heap') /\ Tiled(heap') /\ Accounts'
         /\ HandlesMatchChunks' /\ StaleAddressIsFlagged'
         /\ table' \in [Slot -> Address \cup {Null}]
         /\ cached' \in [Slot -> Address \cup {Null}]
         /\ Contents[s] # {} /\ Contents' = [Contents EXCEPT ![s] = {}]
<1>1. /\ \A t \in Slot : table[t] # Null =>
           /\ table[t] \in DOMAIN heap /\ heap[table[t]].used
           /\ heap[table[t]].owner = t
      /\ \A a \in DOMAIN heap : heap[a].used => table[heap[a].owner] = a
      /\ \A a \in DOMAIN heap : heap[a].owner \in Slot /\ a # Null
      /\ ChunkList(heap) /\ Arena > 0
  BY DEF Owned, TypeOK, HandlesMatchChunks, ChunkList, Chunk, HandlePoolAssumption,
         Address, Null
<1>2. /\ ChunkList(heap') /\ Tiled(heap') /\ Accounts'
      /\ OneMoreBlock(heap', heap, table[s])
      /\ \A a \in DOMAIN heap \ {table[s]} : heap[a].used
           => /\ heap'[a].owner = heap[a].owner /\ heap'[a].data = heap[a].data
              /\ heap'[a].moved = heap[a].moved
  BY <1>1, ReleaseUnplaces
<1>3. /\ table \in [Slot -> Address \cup {Null}]
      /\ cached \in [Slot -> Address \cup {Null}] /\ Null \notin DOMAIN heap
  BY <1>1 DEF Owned, TypeOK
<1>4. /\ table' \in [Slot -> Address \cup {Null}]
      /\ cached' \in [Slot -> Address \cup {Null}]
      /\ table'[s] = Null
      /\ \A t \in Slot \ {s} : table'[t] = table[t] /\ cached'[t] = cached[t]
  BY <1>3
<1>5. \A t \in Slot \ {s} : table[t] # Null
        => /\ table[t] \in DOMAIN heap \ {table[s]} /\ heap[table[t]].used
           /\ table[t] \in DOMAIN heap' /\ heap'[table[t]].used
           /\ heap'[table[t]].owner = t
           /\ heap'[table[t]].data = heap[table[t]].data
           /\ heap'[table[t]].moved = heap[table[t]].moved
  BY <1>1, <1>2 DEF OneMoreBlock
<1>6. HandlesMatchChunks'
  <2>1. ASSUME NEW a \in DOMAIN heap', heap'[a].used
        PROVE  table'[heap'[a].owner] = a
    <3>1. a \in DOMAIN heap \ {table[s]} /\ heap[a].used
      BY <1>2, <2>1 DEF OneMoreBlock
    <3>2. heap'[a].owner = heap[a].owner /\ table[heap[a].owner] = a
      BY <1>1, <1>2, <3>1
    <3> QED BY <1>1, <1>4, <3>1, <3>2
  <2> QED BY <1>4, <1>5, <2>1 DEF HandlesMatchChunks
<1>7. StaleAddressIsFlagged'
  BY <1>4, <1>5 DEF Owned, StaleAddressIsFlagged
<1>8. Contents[s] # {} /\ Contents' = [Contents EXCEPT ![s] = {}]
  <2>1. ASSUME NEW t \in Slot
        PROVE  (IF table'[t] = Null THEN {} ELSE {heap'[table'[t]].data})
               = IF t = s THEN {}
                 ELSE IF table[t] = Null THEN {} ELSE {heap[table[t]].data}
    BY <1>4, <1>5
  <2> QED BY <2>1 DEF Contents
<1> QED BY <1>2, <1>4, <1>6, <1>7, <1>8

\* A block slides down: its slot follows it, its contents stay, and the client
\* that kept its address finds it flagged.
LEMMA CompactUsedEffect ==
  ASSUME PoolAssumption, HandlePoolAssumption, Owned, Compacting,
         total = Arena - Cardinality(UsedBytes(heap)), total > 0, CompactUsed
  PROVE  /\ Owned' /\ Compacting' /\ total' = Arena - Cardinality(UsedBytes(heap'))
         /\ \A s \in Slot : table[s] = Null => table'[s] = Null
         /\ Contents' = Contents
<1> DEFINE n == heap[rd].size
           o == heap[rd].owner
           slid == IF rd = wr THEN [heap[rd] EXCEPT !.prev = before]
                   ELSE [heap[rd] EXCEPT !.prev = before, !.last = FALSE,
                                         !.moved = TRUE]
           D == (DOMAIN heap \ {rd}) \cup {wr}
<1>1. /\ ChunkList(heap) /\ rd \in Address /\ wr \in Address
      /\ before \in Address \cup {Null} /\ Gathered(heap, rd, wr, before)
      /\ Bounded(heap) /\ Disjoint(heap) /\ Arena \in Nat
  BY DEF Owned, TypeOK, Compacting, Gathered, PoolAssumption
<1>2. Ahead(heap, rd) # {}
  <2>1. Cardinality(Ahead(heap, rd)) > 0
    BY DEF CompactUsed, Visiting, Compacting
  <2> QED BY <2>1, FS_EmptySet
<1>3. rd \in DOMAIN heap /\ heap[rd].used
  BY <1>1, <1>2, ReadCursor DEF CompactUsed
<1>4. /\ \A a \in DOMAIN heap : /\ a \in Nat /\ heap[a] \in Chunk
                                /\ heap[a].size \in Nat /\ heap[a].size > 0
                                /\ a + heap[a].size <= Arena
      /\ rd \in Nat /\ wr \in Nat /\ wr <= rd /\ n \in Nat /\ n > 0
      /\ rd + n <= Arena /\ wr + n \in Address /\ rd + n \in Address
      /\ o \in Slot
  BY <1>1, <1>3 DEF ChunkList, Chunk, Address, Bounded, End, Gathered,
                    HandlePoolAssumption
<1>5. /\ heap' = [a \in D |-> IF a # wr THEN heap[a] ELSE slid]
      /\ table' = [table EXCEPT ![o] = wr]
      /\ rd' = rd + n /\ wr' = wr + n
      /\ left' = left - 1 /\ before' = wr /\ count' = count + 1
      /\ UNCHANGED <<total, largest, cursor, locks, cached, pc, req, squeezed>>
  BY DEF CompactUsed, NextOf
<1>6. rd = wr => heap[rd].last = FALSE
  <2> SUFFICES ASSUME rd = wr, heap[rd].last PROVE FALSE
    BY <1>3, <1>4 DEF Chunk
  <2>1. rd + n = Arena
    BY <1>3, <1>4 DEF Compacting, Gathered, End
  <2>2. \A a \in DOMAIN heap : heap[a].used
    <3> SUFFICES ASSUME NEW a \in DOMAIN heap PROVE heap[a].used
      OBVIOUS
    <3>1. a < wr \/ a >= rd
      BY <1>1 DEF Gathered
    <3>2. CASE a < wr
      BY <1>1, <3>2 DEF Gathered
    <3>3. CASE a > rd
      BY <1>1, <1>3, <1>4, <2>1, <3>3 DEF Disjoint, End
    <3> QED BY <1>3, <1>4, <3>1, <3>2, <3>3
  <2>3. \A x \in 0 .. Arena - 1 : \E a \in DOMAIN heap : Over(heap, a, x)
    BY <1>1, <1>4 DEF Gathered
  <2>4. Arena \in Address /\ \A a \in DOMAIN heap : End(heap, a) <= Arena
    BY <1>1 DEF Address, Bounded
  <2>5. Cardinality(UsedBytes(heap)) = Arena
    BY <1>1, <2>2, <2>3, <2>4, FilledUpTo
  <2> QED BY <1>1, <2>5
<1>7. /\ slid \in Chunk /\ slid.size = n /\ slid.used = TRUE
      /\ slid.prev = before /\ slid.last = FALSE /\ slid.owner = o
      /\ slid.data = heap[rd].data
      /\ rd # wr => slid.moved = TRUE
      /\ rd = wr => slid.moved = heap[rd].moved
  BY <1>1, <1>3, <1>4, <1>6 DEF Chunk
<1> HIDE DEF slid
<1>8. /\ DOMAIN heap' = D /\ heap'[wr] = slid
      /\ \A a \in D : a # wr => heap'[a] = heap[a]
      /\ rd # wr => wr \notin DOMAIN heap
      /\ \A a \in DOMAIN heap \ {rd} : a # wr /\ a \in D /\ heap'[a] = heap[a]
  <2>1. \A a \in DOMAIN heap : a < wr \/ a >= rd
    BY <1>1 DEF Gathered
  <2> QED BY <1>4, <1>5, <2>1
<1>9. ChunkList(heap')
  <2>1. D \subseteq Address
    BY <1>1 DEF ChunkList
  <2>2. \A a \in D : heap'[a] \in Chunk
    BY <1>4, <1>7, <1>8
  <2>3. heap' = [a \in D |-> heap'[a]]
    BY <1>5
  <2> QED BY <1>8, <2>1, <2>2, <2>3 DEF ChunkList
<1>10. IsSlid(heap, heap', rd, wr, before)
  BY <1>3, <1>7, <1>8 DEF IsSlid
<1>11. /\ Gathered(heap', rd', wr', before')
       /\ Written(heap', wr') = Written(heap, wr) \cup {wr}
       /\ wr \notin Written(heap, wr)
       /\ Ahead(heap', rd') = Ahead(heap, rd) \ {rd} /\ rd \in Ahead(heap, rd)
  <2>1. /\ Gathered(heap', rd + n, wr + n, wr)
        /\ Written(heap', wr + n) = Written(heap, wr) \cup {wr}
        /\ wr \notin Written(heap, wr)
        /\ Ahead(heap', rd + n) = Ahead(heap, rd) \ {rd} /\ rd \in Ahead(heap, rd)
    BY <1>1, <1>10, SlidingKeepsGathered
  <2>2. rd' = rd + n /\ wr' = wr + n /\ before' = wr
    BY <1>5
  <2> HIDE DEF n
  <2> QED BY <2>1, <2>2
<1>12. Compacting'
  <2>1. IsFiniteSet(Written(heap, wr)) /\ IsFiniteSet(Ahead(heap, rd))
    <3>1. IsFiniteSet(DOMAIN heap)
      BY <1>1, ListIsFinite
    <3>2. Written(heap, wr) \subseteq DOMAIN heap /\ Ahead(heap, rd) \subseteq DOMAIN heap
      BY DEF Written, Ahead
    <3> QED BY <3>1, <3>2, FS_Subset
  <2>2. /\ Cardinality(Written(heap', wr')) = Cardinality(Written(heap, wr)) + 1
        /\ Cardinality(Ahead(heap', rd')) = Cardinality(Ahead(heap, rd)) - 1
    <3>1. Cardinality(Written(heap, wr) \cup {wr}) = Cardinality(Written(heap, wr)) + 1
      BY <1>11, <2>1, FS_AddElement
    <3>2. Cardinality(Ahead(heap, rd) \ {rd}) = Cardinality(Ahead(heap, rd)) - 1
      BY <1>11, <2>1, FS_RemoveElement
    <3> QED BY <1>11, <3>1, <3>2
  <2>3. squeezed' = rd' - wr'
    BY <1>4, <1>5 DEF Compacting
  <2> QED BY <1>5, <1>11, <2>2, <2>3 DEF Compacting
<1>13. total' = Arena - Cardinality(UsedBytes(heap'))
  <2>1. Bounded(heap') /\ Disjoint(heap')
    BY <1>11 DEF Gathered
  <2>2. Cardinality(UsedBytes(heap')) = Cardinality(UsedBytes(heap))
    BY <1>1, <1>8, <1>9, <1>10, <2>1, SlidingKeepsBytes
  <2> QED BY <1>5, <2>2
<1>14. /\ table \in [Slot -> Address \cup {Null}]
       /\ table' \in [Slot -> Address \cup {Null}] /\ table'[o] = wr
       /\ \A t \in Slot \ {o} : table'[t] = table[t]
       /\ table[o] = rd
  BY <1>1, <1>3, <1>4, <1>5 DEF Owned, TypeOK, HandlesMatchChunks
<1>15. \A t \in Slot \ {o} : table[t] # Null =>
         /\ table[t] \in DOMAIN heap \ {rd} /\ heap[table[t]].used
         /\ heap[table[t]].owner = t
         /\ table[t] \in DOMAIN heap' /\ heap'[table[t]] = heap[table[t]]
  BY <1>8 DEF Owned, HandlesMatchChunks
<1>16. HandlesMatchChunks'
  <2>1. ASSUME NEW a \in DOMAIN heap', heap'[a].used
        PROVE  table'[heap'[a].owner] = a
    <3>1. CASE a = wr
      BY <1>7, <1>8, <1>14, <3>1
    <3>2. CASE a # wr
      <4>1. a \in DOMAIN heap \ {rd} /\ heap'[a] = heap[a] /\ heap[a].used
        BY <1>8, <2>1, <3>2
      <4>2. heap[a].owner \in Slot /\ table[heap[a].owner] = a
        BY <1>4, <4>1 DEF Owned, HandlesMatchChunks, Chunk, HandlePoolAssumption
      <4>3. heap[a].owner # o
        BY <1>14, <4>1, <4>2
      <4> QED BY <1>14, <4>1, <4>2, <4>3
    <3> QED BY <3>1, <3>2
  <2>2. ASSUME NEW t \in Slot, table'[t] # Null
        PROVE  /\ table'[t] \in DOMAIN heap' /\ heap'[table'[t]].used
               /\ heap'[table'[t]].owner = t
    <3>1. CASE t = o
      BY <1>7, <1>8, <1>14, <3>1
    <3>2. CASE t # o
      BY <1>14, <1>15, <2>2, <3>2
    <3> QED BY <3>1, <3>2
  <2> QED BY <2>1, <2>2 DEF HandlesMatchChunks
<1>17. StaleAddressIsFlagged'
  <2> SUFFICES ASSUME NEW t \in Slot, table'[t] # Null, cached'[t] # table'[t]
               PROVE  heap'[table'[t]].moved
    BY DEF StaleAddressIsFlagged
  <2>0. cached'[t] = cached[t]
    BY <1>5
  <2>1. CASE t = o /\ rd # wr
    BY <1>7, <1>8, <1>14, <2>1
  <2>2. CASE t = o /\ rd = wr
    <3>1. table[t] = rd /\ table[t] # Null /\ cached[t] # table[t]
      BY <1>4, <1>14, <2>0, <2>2 DEF Null
    <3>2. heap[rd].moved
      BY <3>1 DEF Owned, StaleAddressIsFlagged
    <3> QED BY <1>7, <1>8, <1>14, <2>2, <3>2
  <2>3. CASE t # o
    BY <1>14, <1>15, <2>0, <2>3 DEF Owned, StaleAddressIsFlagged
  <2> QED BY <2>1, <2>2, <2>3
<1>18. Contents' = Contents
  <2>1. ASSUME NEW t \in Slot
        PROVE  (IF table'[t] = Null THEN {} ELSE {heap'[table'[t]].data})
               = IF table[t] = Null THEN {} ELSE {heap[table[t]].data}
    <3>1. CASE t = o
      <4>1. table'[t] = wr /\ table[t] = rd /\ wr # Null /\ rd # Null
        BY <1>4, <1>14, <3>1 DEF Null
      <4>2. heap'[wr].data = heap[rd].data
        BY <1>7, <1>8
      <4> QED BY <4>1, <4>2
    <3>2. CASE t # o
      BY <1>14, <1>15, <3>2
    <3> QED BY <3>1, <3>2
  <2> QED BY <2>1 DEF Contents
<1>19. TypeOK'
  <2>1. before' \in Address \cup {Null} /\ rd' \in Address /\ wr' \in Address
    BY <1>1, <1>4, <1>5
  <2>2. left' \in Int /\ count' \in Int
    BY <1>5 DEF Owned, TypeOK
  <2> QED BY <1>5, <1>9, <1>14, <2>1, <2>2 DEF Owned, TypeOK
<1>20. \A s \in Slot : table[s] = Null => table'[s] = Null
  BY <1>4, <1>14 DEF Null
<1> QED BY <1>12, <1>13, <1>16, <1>17, <1>18, <1>19, <1>20 DEF Owned

\* A free chunk is squeezed out: blocks, slots and contents stay.
LEMMA CompactFreeEffect ==
  ASSUME PoolAssumption, HandlePoolAssumption, Owned, Compacting,
         total = Arena - Cardinality(UsedBytes(heap)), CompactFree
  PROVE  /\ Owned' /\ Compacting' /\ total' = Arena - Cardinality(UsedBytes(heap'))
         /\ Contents' = Contents
<1> DEFINE n == heap[rd].size
<1>1. /\ ChunkList(heap) /\ rd \in Address /\ wr \in Address
      /\ before \in Address \cup {Null} /\ Gathered(heap, rd, wr, before)
  BY DEF Owned, TypeOK, Compacting
<1>2. Ahead(heap, rd) # {}
  <2>1. Cardinality(Ahead(heap, rd)) > 0
    BY DEF CompactFree, Visiting, Compacting
  <2> QED BY <2>1, FS_EmptySet
<1>3. rd \in DOMAIN heap /\ ~heap[rd].used
  BY <1>1, <1>2, ReadCursor DEF CompactFree
<1>4. /\ n \in Nat /\ n > 0 /\ rd + n <= Arena /\ rd \in Nat /\ wr \in Nat
      /\ rd + n \in Address /\ heap[rd].last \in BOOLEAN
      /\ heap[rd].last => rd + n = Arena
  BY <1>1, <1>3 DEF ChunkList, Chunk, Address, Gathered, Bounded, End
<1>5. /\ heap' = [a \in DOMAIN heap \ {rd} |-> heap[a]]
      /\ squeezed' = squeezed + n /\ rd' = rd + n
      /\ left' = (IF heap[rd].last THEN 0 ELSE left - 1)
      /\ UNCHANGED <<total, largest, count, table, cursor, locks, cached, pc,
                     req, wr, before>>
  BY DEF CompactFree, NextOf
<1>6. /\ DOMAIN heap' = DOMAIN heap \ {rd}
      /\ \A a \in DOMAIN heap' : heap'[a] = heap[a]
  BY <1>5
<1>7. ChunkList(heap')
  BY <1>1, <1>5, <1>6 DEF ChunkList
<1>8. /\ Gathered(heap', rd', wr', before')
      /\ Written(heap', wr') = Written(heap, wr)
      /\ Ahead(heap', rd') = Ahead(heap, rd) \ {rd} /\ rd \in Ahead(heap, rd)
  BY <1>1, <1>3, <1>5, SqueezingKeepsGathered
<1>9. left' = Cardinality(Ahead(heap', rd'))
  <2>1. IsFiniteSet(Ahead(heap, rd))
    BY <1>1, ListIsFinite, FS_Subset DEF Ahead
  <2>2. Cardinality(Ahead(heap', rd')) = Cardinality(Ahead(heap, rd)) - 1
    <3>1. Cardinality(Ahead(heap, rd) \ {rd}) = Cardinality(Ahead(heap, rd)) - 1
      BY <1>8, <2>1, FS_RemoveElement
    <3> QED BY <1>8, <3>1
  <2>3. CASE heap[rd].last
    <3>1. rd' = Arena
      BY <1>4, <1>5, <2>3
    <3>2. \A a \in DOMAIN heap' : a < Arena
      <4>1. \A a \in DOMAIN heap' : a \in Nat /\ heap'[a].size \in Nat
        BY <1>7 DEF ChunkList, Chunk, Address
      <4> QED BY <1>8, <4>1 DEF Gathered, Bounded, End, PoolAssumption
    <3>3. \A a \in DOMAIN heap' : a \in Nat /\ Arena \in Nat
      BY <1>7 DEF ChunkList, Address, PoolAssumption
    <3>4. Ahead(heap', rd') = {}
      BY <3>1, <3>2, <3>3 DEF Ahead
    <3> QED BY <1>5, <2>3, <3>4, FS_EmptySet
  <2>4. CASE ~heap[rd].last
    BY <1>5, <2>2, <2>4 DEF Compacting
  <2> QED BY <2>3, <2>4
<1>10. Compacting'
  BY <1>4, <1>5, <1>8, <1>9 DEF Compacting
<1>11. UsedBytes(heap') = UsedBytes(heap)
  BY <1>3, <1>6 DEF UsedBytes, Over, End
<1>12. \A s \in Slot : table[s] # Null =>
         /\ table[s] \in DOMAIN heap /\ heap[table[s]].used
         /\ heap[table[s]].owner = s
         /\ table[s] \in DOMAIN heap' /\ heap'[table[s]] = heap[table[s]]
  BY <1>3, <1>6 DEF Owned, HandlesMatchChunks
<1>13. HandlesMatchChunks'
  BY <1>5, <1>6, <1>12 DEF Owned, HandlesMatchChunks
<1>14. StaleAddressIsFlagged'
  BY <1>5, <1>12 DEF Owned, StaleAddressIsFlagged
<1>15. Contents' = Contents
  BY <1>5, <1>12 DEF Contents
<1>16. TypeOK'
  <2>1. rd' \in Address /\ wr' \in Address /\ left' \in Int /\ squeezed' \in Int
    BY <1>4, <1>5 DEF Owned, TypeOK
  <2> QED BY <1>5, <1>7, <2>1 DEF Owned, TypeOK
<1> QED BY <1>5, <1>10, <1>11, <1>13, <1>14, <1>15, <1>16 DEF Owned

\* When every chunk has been visited, all bytes above the write cursor are free.
LEMMA GathersEveryGap ==
  ASSUME PoolAssumption, Owned, Compacting,
         total = Arena - Cardinality(UsedBytes(heap)), left = 0
  PROVE  /\ rd = Arena /\ squeezed = total /\ squeezed = Arena - wr
         /\ \A a \in DOMAIN heap : a < wr
<1>1. /\ ChunkList(heap) /\ rd \in Address /\ wr \in Address
      /\ Gathered(heap, rd, wr, before) /\ Arena \in Nat
  BY DEF Owned, TypeOK, Compacting, PoolAssumption
<1>2. Ahead(heap, rd) = {}
  <2>1. IsFiniteSet(Ahead(heap, rd))
    BY <1>1, ListIsFinite, FS_Subset DEF Ahead
  <2> QED BY <2>1, FS_EmptySet DEF Compacting
<1>3. rd = Arena
  BY <1>1, <1>2, ReadCursor
<1>4. \A a \in DOMAIN heap : a < wr
  BY <1>1, <1>2 DEF Ahead, Gathered
<1>5. Cardinality(UsedBytes(heap)) = wr
  <2>1. \A a \in DOMAIN heap : heap[a].used /\ End(heap, a) <= wr
    BY <1>1, <1>4 DEF Gathered
  <2>2. \A x \in 0 .. Arena - 1 : x < wr => \E a \in DOMAIN heap : Over(heap, a, x)
    BY <1>1 DEF Gathered
  <2> QED BY <1>1, <2>1, <2>2, FilledUpTo
<1> QED BY <1>1, <1>3, <1>4, <1>5 DEF Compacting, Address

\* The gaps become one free chunk that holds every free byte.
LEMMA CompactDoneEffect ==
  ASSUME PoolAssumption, HandlePoolAssumption, Owned, Compacting,
         total = Arena - Cardinality(UsedBytes(heap)), total > 0, CompactDone
  PROVE  Owned' /\ Settled' /\ largest' = total' /\ Contents' = Contents
<1> DEFINE free == FreeChunk(squeezed, before, TRUE)
<1>1. /\ ChunkList(heap) /\ wr \in Address /\ wr \in Nat
      /\ before \in Address \cup {Null} /\ Gathered(heap, rd, wr, before)
      /\ Arena \in Nat /\ Arena > 0
  BY DEF Owned, TypeOK, Compacting, PoolAssumption, HandlePoolAssumption, Address
<1>2. /\ rd = Arena /\ squeezed = total /\ squeezed = Arena - wr /\ wr < Arena
      /\ squeezed \in Nat /\ squeezed # 0 /\ \A a \in DOMAIN heap : a < wr
  BY <1>1, GathersEveryGap DEF CompactDone
<1>3. /\ heap' = [a \in DOMAIN heap \cup {wr} |-> IF a = wr THEN free ELSE heap[a]]
      /\ count' = count + 1 /\ largest' = squeezed /\ pc' = "retry"
      /\ rd' = 0 /\ wr' = 0 /\ left' = 0 /\ before' = Null /\ squeezed' = 0
      /\ UNCHANGED <<total, table, cursor, locks, cached, req>>
  BY <1>2 DEF CompactDone
<1>4. /\ \A a \in DOMAIN heap : /\ a \in Nat /\ heap[a] \in Chunk
                                /\ heap[a].size \in Nat /\ heap[a].size > 0
                                /\ a < wr /\ a + heap[a].size <= wr
                                /\ heap[a].used /\ ~heap[a].last
      /\ wr \notin DOMAIN heap
  BY <1>1, <1>2 DEF ChunkList, Chunk, Address, Gathered, Bounded, End
<1>5. /\ DOMAIN heap' = DOMAIN heap \cup {wr} /\ heap'[wr] = free
      /\ \A a \in DOMAIN heap : heap'[a] = heap[a]
  BY <1>3, <1>4
<1>6. /\ free \in Chunk /\ free.size = Arena - wr /\ free.prev = before
      /\ free.used = FALSE /\ free.last = TRUE
  BY <1>1, <1>2, NoneTyped DEF FreeChunk, Chunk
<1> HIDE DEF free
<1>7. ChunkList(heap')
  <2>1. DOMAIN heap' \subseteq Address
    BY <1>1, <1>5 DEF ChunkList
  <2>2. \A a \in DOMAIN heap' : heap'[a] \in Chunk
    BY <1>4, <1>5, <1>6
  <2>3. heap' = [a \in DOMAIN heap' |-> heap'[a]]
    BY <1>3
  <2> QED BY <2>1, <2>2, <2>3 DEF ChunkList
<1>8. Tiled(heap')
  <2>1. Bounded(heap')
    BY <1>1, <1>2, <1>4, <1>5, <1>6 DEF Bounded, End
  <2>2. Disjoint(heap')
    <3> SUFFICES ASSUME NEW x \in DOMAIN heap', NEW y \in DOMAIN heap', x < y
                 PROVE  x + heap'[x].size <= y
      BY DEF Disjoint, End
    <3>1. x \in DOMAIN heap
      BY <1>1, <1>4, <1>5
    <3>2. CASE y = wr
      BY <1>4, <1>5, <3>1, <3>2
    <3>3. CASE y # wr
      BY <1>1, <1>5, <3>1, <3>3 DEF Gathered, Disjoint, End
    <3> QED BY <3>2, <3>3
  <2>3. Covers(heap')
    <3> SUFFICES ASSUME NEW x \in 0 .. Arena - 1
                 PROVE  \E a \in DOMAIN heap' : a <= x /\ x < a + heap'[a].size
      BY DEF Covers, Over, End
    <3>1. CASE x < wr
      <4>1. PICK a \in DOMAIN heap : a <= x /\ x < a + heap[a].size
        BY <1>1, <3>1 DEF Gathered, Over, End
      <4> QED BY <1>5, <4>1
    <3>2. CASE ~(x < wr)
      BY <1>1, <1>2, <1>5, <1>6, <3>2
    <3> QED BY <3>1, <3>2
  <2>4. BackLinked(heap')
    <3> SUFFICES ASSUME NEW a \in DOMAIN heap'
                 PROVE  IF a = 0 THEN heap'[a].prev = Null
                        ELSE /\ heap'[a].prev \in DOMAIN heap'
                             /\ heap'[a].prev + heap'[heap'[a].prev].size = a
      BY DEF BackLinked, End
    <3>1. CASE a = wr
      <4>1. IF wr = 0 THEN before = Null
            ELSE before \in DOMAIN heap /\ before + heap[before].size = wr
        BY <1>1 DEF Gathered, End
      <4> QED BY <1>5, <1>6, <3>1, <4>1
    <3>2. CASE a # wr
      <4>1. a \in DOMAIN heap /\ heap'[a] = heap[a] /\ a < wr
        BY <1>4, <1>5, <3>2
      <4>2. IF a = 0 THEN heap[a].prev = Null
            ELSE heap[a].prev \in DOMAIN heap
                 /\ heap[a].prev + heap[heap[a].prev].size = a
        BY <1>1, <4>1 DEF Gathered, End
      <4> QED BY <1>5, <4>1, <4>2
    <3> QED BY <3>1, <3>2
  <2>5. LastMarked(heap')
    BY <1>1, <1>2, <1>4, <1>5, <1>6 DEF LastMarked, End
  <2>6. Coalesced(heap')
    <3> SUFFICES ASSUME NEW a \in DOMAIN heap', ~heap'[a].used,
                        a + heap'[a].size \in DOMAIN heap'
                 PROVE  FALSE
      BY DEF Coalesced, End
    <3>1. a = wr /\ a + heap'[a].size = Arena
      BY <1>1, <1>4, <1>5, <1>6
    <3> QED BY <1>1, <1>2, <1>4, <1>5, <3>1
  <2> QED BY <2>1, <2>2, <2>3, <2>4, <2>5, <2>6 DEF Tiled
<1>9. Accounts'
  <2>1. count' = Cardinality(DOMAIN heap')
    <3>1. Written(heap, wr) = DOMAIN heap
      BY <1>2 DEF Written
    <3>2. IsFiniteSet(DOMAIN heap)
      BY <1>1, ListIsFinite
    <3>3. Cardinality(DOMAIN heap \cup {wr}) = Cardinality(DOMAIN heap) + 1
      BY <1>4, <3>2, FS_AddElement
    <3> QED BY <1>3, <1>5, <3>1, <3>3 DEF Compacting
  <2>2. UsedBytes(heap') = UsedBytes(heap)
    BY <1>4, <1>5, <1>6 DEF UsedBytes, Over, End
  <2>3. FreeSizes(heap') = {Arena - wr, 0}
    BY <1>4, <1>5, <1>6 DEF FreeSizes
  <2>4. LargestFree(heap') = Arena - wr
    <3>1. Bounded(heap')
      BY <1>8 DEF Tiled
    <3>2. \A m \in FreeSizes(heap') : m <= Arena - wr
      BY <1>1, <1>2, <2>3
    <3>3. Arena - wr \in FreeSizes(heap')
      BY <2>3
    <3> QED BY <1>7, <3>1, <3>2, <3>3, LargestFreeIs
  <2>5. total' = Arena - Cardinality(UsedBytes(heap'))
    BY <1>3, <2>2
  <2>6. largest' = LargestFree(heap')
    BY <1>2, <1>3, <2>4
  <2> QED BY <2>1, <2>5, <2>6 DEF Accounts
<1>10. \A s \in Slot : table[s] # Null =>
         /\ table[s] \in DOMAIN heap /\ table[s] \in DOMAIN heap'
         /\ heap[table[s]].used /\ heap[table[s]].owner = s
         /\ heap'[table[s]] = heap[table[s]]
  BY <1>5 DEF Owned, HandlesMatchChunks
<1>11. HandlesMatchChunks'
  <2>1. ASSUME NEW a \in DOMAIN heap', heap'[a].used
        PROVE  table'[heap'[a].owner] = a
    <3>1. a \in DOMAIN heap /\ heap'[a] = heap[a]
      BY <1>5, <1>6, <2>1
    <3> QED BY <1>3, <2>1, <3>1 DEF Owned, HandlesMatchChunks
  <2> QED BY ZenonT(40), <1>3, <1>10, <2>1 DEF HandlesMatchChunks
<1>12. StaleAddressIsFlagged'
  BY <1>3, <1>10 DEF Owned, StaleAddressIsFlagged
<1>13. Contents' = Contents
  BY <1>3, <1>10 DEF Contents
<1>14. TypeOK'
  <2>1. /\ total' \in Int /\ largest' \in Int /\ count' \in Int
        /\ 0 \in Address /\ squeezed' \in Int /\ left' \in Int
    BY <1>1, <1>2, <1>3 DEF Owned, TypeOK, Address
  <2> QED BY <1>3, <1>7, <2>1 DEF Owned, TypeOK
<1>15. Settled'
  BY <1>3, <1>8, <1>9 DEF Settled
<1>16. largest' = total'
  BY <1>2, <1>3
<1> QED BY <1>11, <1>12, <1>13, <1>14, <1>15, <1>16 DEF Owned

\* Compaction starts at the bottom of the arena with every chunk ahead.
LEMMA CompactionStarts ==
  ASSUME PoolAssumption, HandlePoolAssumption, ChunkList(heap), Tiled(heap), Accounts
  PROVE  /\ Gathered(heap, 0, 0, Null)
         /\ Cardinality(Written(heap, 0)) = 0
         /\ Cardinality(Ahead(heap, 0)) = count
<1>1. \A a \in DOMAIN heap : a \in Nat
  BY DEF ChunkList, Address
<1>2. Written(heap, 0) = {} /\ Ahead(heap, 0) = DOMAIN heap
  BY <1>1 DEF Written, Ahead
<1>3. Gathered(heap, 0, 0, Null)
  BY <1>1 DEF Gathered, Tiled, Covers, LastMarked
<1> QED BY <1>2, <1>3, FS_EmptySet DEF Accounts

\* A pool of one chunk has nothing to gather: its free bytes are in one chunk.
LEMMA OneChunkIsGathered ==
  ASSUME PoolAssumption, HandlePoolAssumption, ChunkList(heap), Tiled(heap),
         Accounts, total > 0, count = 1
  PROVE  largest = total
<1>1. DOMAIN heap = {0} /\ heap[0].size = Arena
  <2>1. Gapless(heap) /\ Arena > 0
    BY TiledIsGapless DEF Tiled, HandlePoolAssumption
  <2>2. PICK x : DOMAIN heap = {x}
    BY ListIsFinite, FS_Singleton DEF Accounts
  <2>3. x = 0
    BY <2>1, <2>2 DEF Gapless
  <2>4. heap[0].size \in Nat /\ heap[0].size > 0 /\ Arena \in Nat
    BY <2>2, <2>3 DEF ChunkList, Chunk, Tiled, Bounded, PoolAssumption
  <2> QED BY <2>1, <2>2, <2>3, <2>4 DEF Gapless, End
<1>2. Arena \in Nat /\ Arena \in Address /\ Arena > 0
  BY DEF PoolAssumption, HandlePoolAssumption, Address
<1>3. ~heap[0].used
  <2> SUFFICES ASSUME heap[0].used PROVE FALSE
    OBVIOUS
  <2>1. /\ \A a \in DOMAIN heap : heap[a].used /\ End(heap, a) <= Arena
        /\ \A x \in 0 .. Arena - 1 : \E a \in DOMAIN heap : Over(heap, a, x)
    BY <1>1, <1>2 DEF End, Over
  <2>2. Cardinality(UsedBytes(heap)) = Arena
    BY <1>2, <2>1, FilledUpTo
  <2> QED BY <1>2, <2>2 DEF Accounts
<1>4. total = Arena
  <2>1. UsedBytes(heap) = {}
    BY <1>1, <1>3 DEF UsedBytes
  <2> QED BY <1>2, <2>1, FS_EmptySet DEF Accounts
<1>5. FreeSizes(heap) = {Arena, 0}
  BY <1>1, <1>3 DEF FreeSizes
<1>6. Arena \in FreeSizes(heap) /\ \A m \in FreeSizes(heap) : m <= Arena
  BY <1>2, <1>5
<1> QED BY <1>4, <1>6, LargestFreeIs DEF Accounts, Tiled

(* The pool starts in the invariant, as an empty store.                    *)
LEMMA InitialInvariant ==
  ASSUME PoolAssumption, HandlePoolAssumption, Init
  PROVE  IInv /\ Store!Init
<1>1. /\ ChunkList(heap) /\ Tiled(heap) /\ Accounts
      /\ \A a \in DOMAIN heap : ~heap[a].used
      /\ total = Arena /\ largest = Arena /\ count = 1
  BY InitialChunks DEF Init, InitChunks, HandlePoolAssumption
<1>2. NoRequest \in Request /\ 0 \in Slot /\ 0 \in Address /\ 0 \in 0 .. MaxLocks
  BY NoneTyped DEF NoRequest, Request, Slot, Address, HandlePoolAssumption,
                   PoolAssumption
<1>3. TypeOK
  BY <1>1, <1>2 DEF Init, TypeOK, PoolAssumption
<1>4. HandlesMatchChunks /\ StaleAddressIsFlagged
  BY <1>1 DEF Init, HandlesMatchChunks, StaleAddressIsFlagged
<1>5. Settled
  BY <1>1 DEF Init, Settled
<1>6. IInv
  BY <1>1, <1>3, <1>4, <1>5 DEF IInv, Init, Accounts
<1>7. Store!Init
  BY DEF Store!Init, Init, Contents
<1> QED BY <1>6, <1>7

\* One step of the pool keeps the invariant, and is an allocation, a release
\* or nothing at all for the clients.
LEMMA StepIsCorrect ==
  ASSUME PoolAssumption, HandlePoolAssumption, IInv, [Next]_vars
  PROVE  IInv' /\ (Store!Next \/ UNCHANGED Contents)
<1>1. /\ Owned /\ TypeOK /\ total = Arena - Cardinality(UsedBytes(heap))
      /\ pc # "compact" => Settled
      /\ pc = "compact" => Compacting
      /\ pc # "idle" => total > 0
      /\ Sizes \subseteq Nat \ {0}
  <2>1. /\ TypeOK /\ HandlesMatchChunks /\ StaleAddressIsFlagged
        /\ total = Arena - Cardinality(UsedBytes(heap))
        /\ pc # "compact" => Settled
        /\ pc = "compact" => Compacting
        /\ pc # "idle" => req.size \in Sizes /\ total > req.size
    BY DEF IInv
  <2>2. total \in Int /\ Sizes \subseteq Nat \ {0}
    BY <2>1 DEF TypeOK, HandlePoolAssumption
  <2>3. ASSUME pc # "idle" PROVE total > 0
    <3>1. req.size \in Nat /\ total > req.size
      BY <2>1, <2>2, <2>3
    <3> QED BY <2>2, <3>1
  <2> QED BY <2>1, <2>2, <2>3 DEF Owned
<1>2. \A s \in Slot : AdvanceFrom(s) \in Slot
  BY DEF AdvanceFrom, Slot, HandlePoolAssumption
<1>3. \A s \in ChosenSlot : s \in Slot /\ table[s] = Null
  BY DEF ChosenSlot
<1>4. \* After a carve or a release the counters are numbers again.
      ASSUME ChunkList(heap'), Tiled(heap'), Accounts'
      PROVE  /\ total' \in Int /\ largest' \in Int /\ count' \in Int
             /\ total' = Arena - Cardinality(UsedBytes(heap'))
  BY <1>4, CountsAreNumbers DEF Tiled, Accounts, PoolAssumption
<1>5. CASE Alloc
  <2>1. PICK size \in Sizes, d \in Data, s \in ChosenSlot :
          Bind(s, size, d) /\ cursor' = AdvanceFrom(s)
    BY <1>5 DEF Alloc
  <2>2. /\ ChunkList(heap') /\ Tiled(heap') /\ Accounts'
        /\ HandlesMatchChunks' /\ StaleAddressIsFlagged'
        /\ table' \in [Slot -> Address \cup {Null}]
        /\ cached' \in [Slot -> Address \cup {Null}]
        /\ Contents[s] = {} /\ Contents' = [Contents EXCEPT ![s] = {d}]
    BY <1>1, <1>3, <1>5, <2>1, BindEffect DEF Settled, Alloc
  <2>3. /\ UNCHANGED <<locks, pc, req, rd, wr, left, before, squeezed>>
        /\ pc = "idle" /\ cursor' \in Slot
    BY <1>2, <1>3, <1>5, <2>1 DEF Alloc, compaction
  <2>4. TypeOK'
    BY <1>1, <1>4, <2>2, <2>3 DEF TypeOK
  <2>5. Settled'
    BY <1>1, <2>2, <2>3 DEF Settled
  <2>6. IInv'
    BY <1>4, <2>2, <2>3, <2>4, <2>5 DEF IInv
  <2>7. Store!Next
    BY <1>3, <2>1, <2>2 DEF Store!Next, Store!Allocate
  <2> QED BY <2>6, <2>7
<1>6. CASE AllocFails
  <2>1. cursor' \in Slot
    BY <1>2, <1>3, <1>6 DEF AllocFails
  <2>2. UNCHANGED <<heap, total, largest, count, table, locks, cached, pc, req,
                    rd, wr, left, before, squeezed>>
    BY <1>6 DEF AllocFails, chunkVars, compaction
  <2>3. TypeOK'
    BY <1>1, <2>1, <2>2 DEF TypeOK
  <2>4. IInv'
    BY <1>1, <2>2, <2>3 DEF IInv, Settled, Accounts, Compacting,
                            HandlesMatchChunks, StaleAddressIsFlagged
  <2>5. UNCHANGED Contents
    BY <2>2 DEF Contents
  <2> QED BY <2>4, <2>5
<1>7. CASE AllocCompacts
  <2>1. PICK size \in Sizes, d \in Data, s \in ChosenSlot :
          /\ MayCompact(size) /\ cursor' = AdvanceFrom(s)
          /\ req' = [slot |-> s, size |-> size, data |-> d]
    BY <1>7 DEF AllocCompacts
  <2>2. /\ UNCHANGED <<heap, total, largest, table, locks, cached, rd, wr,
                       before, squeezed>>
        /\ pc = "idle" /\ cursor' \in Slot /\ req' \in Request
        /\ req'.slot \in Slot /\ req'.size \in Sizes /\ table[req'.slot] = Null
        /\ total > req'.size /\ total > 0
    BY <1>1, <1>2, <1>3, <1>7, <2>1 DEF AllocCompacts, compaction, Request,
                                        MayCompact, TypeOK
  <2>3. Settled /\ ChunkList(heap) /\ Tiled(heap) /\ Accounts
    BY <1>1, <2>2 DEF Settled, TypeOK
  <2>4. UNCHANGED Contents
    BY <2>2 DEF Contents
  <2>5. HandlesMatchChunks' /\ StaleAddressIsFlagged'
    BY <1>1, <2>2 DEF Owned, HandlesMatchChunks, StaleAddressIsFlagged
  <2>6. CASE count = 1
    <3>1. pc' = "retry" /\ count' = count /\ left' = left
      BY <1>7, <2>6 DEF AllocCompacts, compaction
    <3>2. largest = total
      BY <2>2, <2>3, <2>6, OneChunkIsGathered
    <3>3. TypeOK'
      BY <1>1, <2>2, <3>1 DEF TypeOK
    <3>4. Settled'
      BY <2>2, <2>3, <3>1 DEF Settled, Accounts
    <3>5. IInv'
      BY <1>1, <2>2, <2>5, <3>1, <3>2, <3>3, <3>4 DEF IInv
    <3> QED BY <2>4, <3>5
  <2>7. CASE count # 1
    <3>1. pc' = "compact" /\ left' = count /\ count' = 0
      BY <1>7, <2>7 DEF AllocCompacts
    <3>2. /\ Gathered(heap, 0, 0, Null) /\ Cardinality(Written(heap, 0)) = 0
          /\ Cardinality(Ahead(heap, 0)) = count
      BY <2>3, CompactionStarts
    <3>3. TypeOK'
      BY <1>1, <2>2, <3>1 DEF TypeOK
    <3>4. Compacting'
      BY <2>2, <2>3, <3>1, <3>2 DEF Settled, Compacting
    <3>5. IInv'
      BY <1>1, <2>2, <2>5, <3>1, <3>3, <3>4 DEF IInv
    <3> QED BY <2>4, <3>5
  <2> QED BY <2>6, <2>7
<1>8. CASE Retry
  <2>1. /\ pc = "retry" /\ pc' = "idle" /\ req' = NoRequest
        /\ UNCHANGED <<cursor, locks, rd, wr, left, before, squeezed>>
        /\ req.slot \in Slot /\ table[req.slot] = Null /\ req.size \in Sizes
        /\ req.data \in Data
        /\ Settled
    BY <1>1, <1>8 DEF Retry, compaction, IInv, TypeOK, Request
  <2>2. NoRequest \in Request
    BY NoneTyped DEF NoRequest, Request, Slot, HandlePoolAssumption
  <2>3. CASE CanCarve(req.size)
    <3>1. Bind(req.slot, req.size, req.data)
      BY <1>8, <2>3 DEF Retry
    <3>2. /\ ChunkList(heap') /\ Tiled(heap') /\ Accounts'
          /\ HandlesMatchChunks' /\ StaleAddressIsFlagged'
          /\ table' \in [Slot -> Address \cup {Null}]
          /\ cached' \in [Slot -> Address \cup {Null}]
          /\ Contents[req.slot] = {}
          /\ Contents' = [Contents EXCEPT ![req.slot] = {req.data}]
      BY <1>1, <2>1, <3>1, BindEffect DEF Settled
    <3>3. TypeOK'
      BY <1>1, <1>4, <2>1, <2>2, <3>2 DEF TypeOK
    <3>4. Settled'
      BY <2>1, <3>2 DEF Settled
    <3>5. IInv'
      BY <1>4, <2>1, <3>2, <3>3, <3>4 DEF IInv
    <3>6. Store!Next
      BY <2>1, <3>2 DEF Store!Next, Store!Allocate
    <3> QED BY <3>5, <3>6
  <2>4. CASE ~CanCarve(req.size)
    <3>1. UNCHANGED <<heap, total, largest, count, table, cached>>
      BY <1>8, <2>4 DEF Retry, chunkVars
    <3>2. TypeOK'
      BY <1>1, <2>1, <2>2, <3>1 DEF TypeOK
    <3>3. Settled'
      BY <2>1, <3>1 DEF Settled, Accounts
    <3>4. IInv'
      BY <1>1, <2>1, <3>1, <3>2, <3>3
         DEF IInv, Owned, HandlesMatchChunks, StaleAddressIsFlagged
    <3>5. UNCHANGED Contents
      BY <3>1 DEF Contents
    <3> QED BY <3>4, <3>5
  <2> QED BY <2>3, <2>4
<1>9. CASE CompactUsed
  <2>1. /\ pc = "compact" /\ UNCHANGED <<pc, req, total>>
        /\ req.slot \in Slot /\ table[req.slot] = Null
    BY <1>1, <1>9 DEF CompactUsed, Visiting, IInv, TypeOK, Request
  <2>2. /\ Owned' /\ Compacting' /\ total' = Arena - Cardinality(UsedBytes(heap'))
        /\ \A s \in Slot : table[s] = Null => table'[s] = Null
        /\ UNCHANGED Contents
    BY <1>1, <1>9, <2>1, CompactUsedEffect
  <2>3. IInv'
    BY <2>1, <2>2 DEF IInv, Owned
  <2> QED BY <2>2, <2>3
<1>10. CASE CompactFree
  <2>1. pc = "compact" /\ UNCHANGED <<pc, req, total, table>>
    BY <1>10 DEF CompactFree, Visiting
  <2>2. /\ Owned' /\ Compacting' /\ total' = Arena - Cardinality(UsedBytes(heap'))
        /\ UNCHANGED Contents
    BY <1>1, <1>10, <2>1, CompactFreeEffect
  <2>3. IInv'
    BY <2>1, <2>2 DEF IInv, Owned
  <2> QED BY <2>2, <2>3
<1>11. CASE CompactDone
  <2>1. pc = "compact" /\ pc' = "retry" /\ UNCHANGED <<req, total, table>>
    BY <1>11 DEF CompactDone
  <2>2. Owned' /\ Settled' /\ largest' = total' /\ UNCHANGED Contents
    BY <1>1, <1>11, <2>1, CompactDoneEffect
  <2>3. IInv'
    BY <2>1, <2>2 DEF IInv, Owned, Settled, Accounts
  <2> QED BY <2>2, <2>3
<1>12. CASE Free
  <2>1. PICK s \in Slot :
          /\ table[s] # Null /\ cursor' = heap[table[s]].owner
          /\ Release(table[s])
          /\ table' = [table EXCEPT ![s] = Null]
          /\ cached' = [cached EXCEPT ![s] = Null]
    BY <1>12 DEF Free
  <2>2. /\ pc = "idle" /\ UNCHANGED <<locks, pc, req, rd, wr, left, before, squeezed>>
    BY <1>12 DEF Free, compaction
  <2>3. /\ ChunkList(heap') /\ Tiled(heap') /\ Accounts'
        /\ HandlesMatchChunks' /\ StaleAddressIsFlagged'
        /\ table' \in [Slot -> Address \cup {Null}]
        /\ cached' \in [Slot -> Address \cup {Null}]
        /\ Contents[s] # {} /\ Contents' = [Contents EXCEPT ![s] = {}]
    BY <1>1, <2>1, <2>2, FreeEffect DEF Settled
  <2>4. cursor' \in Slot
    BY <1>1, <2>1 DEF Owned, HandlesMatchChunks
  <2>5. TypeOK'
    BY <1>1, <1>4, <2>2, <2>3, <2>4 DEF TypeOK
  <2>6. Settled'
    BY <1>1, <2>2, <2>3 DEF Settled
  <2>7. IInv'
    BY <1>4, <2>2, <2>3, <2>5, <2>6 DEF IInv
  <2>8. Store!Next
    BY <2>1, <2>3 DEF Store!Next, Store!Release
  <2> QED BY <2>7, <2>8
<1>13. CASE Lock \/ Unlock
  <2>1. /\ locks' \in 0 .. MaxLocks
        /\ UNCHANGED <<heap, total, largest, count, table, cursor, cached, pc, req,
                       rd, wr, left, before, squeezed>>
    BY <1>1, <1>13 DEF Lock, Unlock, chunkVars, compaction, TypeOK,
                       HandlePoolAssumption
  <2>2. TypeOK'
    BY <1>1, <2>1 DEF TypeOK
  <2>3. IInv'
    BY <1>1, <2>1, <2>2 DEF IInv, Settled, Accounts, Compacting,
                            HandlesMatchChunks, StaleAddressIsFlagged
  <2>4. UNCHANGED Contents
    BY <2>1 DEF Contents
  <2> QED BY <2>3, <2>4
<1>14. CASE UNCHANGED vars
  <2>1. UNCHANGED <<heap, total, largest, count, table, cursor, locks, cached, pc,
                    req, rd, wr, left, before, squeezed>>
    BY <1>14 DEF vars, chunkVars, compaction
  <2>2. IInv'
    BY <1>1, <2>1 DEF IInv, TypeOK, Settled, Accounts, Compacting,
                      HandlesMatchChunks, StaleAddressIsFlagged
  <2>3. UNCHANGED Contents
    BY <2>1 DEF Contents
  <2> QED BY <2>2, <2>3
<1>15. CASE Refresh
  <2>1. PICK s \in Slot :
          /\ table[s] # Null
          /\ heap' = [heap EXCEPT ![table[s]].moved = FALSE]
          /\ cached' = [cached EXCEPT ![s] = table[s]]
    BY <1>15 DEF Refresh
  <2>2. /\ pc = "idle"
        /\ UNCHANGED <<total, largest, count, table, cursor, locks, pc, req,
                       rd, wr, left, before, squeezed>>
    BY <1>15 DEF Refresh, compaction
  <2>3. /\ Settled /\ ChunkList(heap) /\ table[s] \in DOMAIN heap
        /\ \A a \in DOMAIN heap : heap[a] \in Chunk
    BY <1>1, <2>1, <2>2 DEF Owned, TypeOK, HandlesMatchChunks, ChunkList
  <2>4. /\ DOMAIN heap' = DOMAIN heap
        /\ \A a \in DOMAIN heap : heap'[a] \in Chunk
        /\ \A a \in DOMAIN heap :
             /\ heap'[a].size = heap[a].size /\ heap'[a].prev = heap[a].prev
             /\ heap'[a].used = heap[a].used /\ heap'[a].last = heap[a].last
             /\ heap'[a].owner = heap[a].owner /\ heap'[a].data = heap[a].data
             /\ a # table[s] => heap'[a].moved = heap[a].moved
    <3>1. [heap[table[s]] EXCEPT !.moved = FALSE] \in Chunk
      BY ZenonT(40), <2>3 DEF Chunk
    <3>2. ASSUME NEW a \in DOMAIN heap, a # table[s] PROVE heap'[a] = heap[a]
      BY <2>1, <3>2
    <3>3. heap'[table[s]] = [heap[table[s]] EXCEPT !.moved = FALSE]
      BY <2>1, <2>3
    <3> QED BY <2>1, <2>3, <3>1, <3>2, <3>3 DEF Chunk
  <2>5. ChunkList(heap')
    <3>1. heap' = [a \in DOMAIN heap' |-> heap'[a]]
      BY <2>1
    <3> QED BY <2>3, <2>4, <3>1 DEF ChunkList
  <2>6. Tiled(heap')
    BY <2>3, <2>4 DEF Settled, Tiled, Bounded, Disjoint, Covers, Over, BackLinked,
                      LastMarked, Coalesced, End
  <2>7. Accounts' /\ UsedBytes(heap') = UsedBytes(heap)
    <3>1. UsedBytes(heap') = UsedBytes(heap)
      BY <2>4 DEF UsedBytes, Over, End
    <3>2. FreeSizes(heap') = FreeSizes(heap)
      BY <2>4 DEF FreeSizes
    <3>3. LargestFree(heap') = LargestFree(heap)
      BY <3>2 DEF LargestFree
    <3> QED BY <2>2, <2>3, <2>4, <3>1, <3>3 DEF Settled, Accounts
  <2>8. HandlesMatchChunks'
    BY <1>1, <2>2, <2>4 DEF Owned, HandlesMatchChunks
  <2>9. cached' \in [Slot -> Address \cup {Null}]
    BY <1>1, <2>1 DEF TypeOK
  <2>10. StaleAddressIsFlagged'
    <3> SUFFICES ASSUME NEW t \in Slot, table[t] # Null, cached'[t] # table[t]
                 PROVE  heap'[table[t]].moved
      BY <2>2 DEF StaleAddressIsFlagged
    <3>1. t # s
      BY <1>1, <2>1 DEF TypeOK
    <3>2. cached'[t] = cached[t]
      BY <1>1, <2>1, <3>1 DEF TypeOK
    <3>3. table[t] # table[s] /\ table[t] \in DOMAIN heap
      BY <1>1, <2>1, <3>1, HandlesAreDistinct DEF Owned, HandlesMatchChunks
    <3> QED BY <1>1, <2>4, <3>2, <3>3 DEF Owned, StaleAddressIsFlagged
  <2>11. TypeOK'
    BY <1>1, <2>2, <2>5, <2>9 DEF TypeOK
  <2>12. Settled'
    BY <2>2, <2>3, <2>6, <2>7 DEF Settled
  <2>13. IInv'
    BY <1>1, <2>2, <2>7, <2>8, <2>10, <2>11, <2>12 DEF IInv
  <2>14. UNCHANGED Contents
    <3>1. \A t \in Slot : table[t] # Null => table[t] \in DOMAIN heap
      BY <1>1 DEF Owned, HandlesMatchChunks
    <3>2. \A t \in Slot : table[t] # Null => heap'[table[t]].data = heap[table[t]].data
      BY <2>4, <3>1
    <3> QED BY <2>2, <3>2 DEF Contents
  <2> QED BY <2>13, <2>14
<1> QED BY <1>5, <1>6, <1>7, <1>8, <1>9, <1>10, <1>11, <1>12, <1>13, <1>14, <1>15
        DEF Next

-----------------------------------------------------------------------------
(* Every reachable state of the pool satisfies the inductive invariant, for *)
(* every arena, handle table, header, alignment and set of requests.        *)
THEOREM HandlePoolInvariant ==
  Spec => []IInv
<1>1. Init => IInv
  BY PoolAssumption, HandlePoolAssumption, InitialInvariant
<1>2. IInv /\ [Next]_vars => IInv'
  BY PoolAssumption, HandlePoolAssumption, StepIsCorrect
<1> QED BY <1>1, <1>2, PTL DEF Spec

(* Whenever a client can look, get_pool_descriptor accepts the list and the *)
(* counters are exact; even while pool_coalesce_free runs no byte of a      *)
(* block is lost and handles and chunks name each other.                    *)
THEOREM HandlePoolIsWellFormed ==
  Spec => []PoolInvariant
<1>1. IInv => PoolInvariant
  BY PoolAssumption, HandlePoolAssumption, TiledIsWellFormed
     DEF IInv, PoolInvariant, Settled, TypeOK, HandlePoolAssumption
<1> QED BY <1>1, HandlePoolInvariant, PTL

(* A client that trusts flag 4 never uses an address that pool_coalesce_free *)
(* has made stale.                                                          *)
THEOREM HandlePoolFlagsStaleAddresses ==
  Spec => []StaleAddressIsFlagged
<1>1. IInv => StaleAddressIsFlagged
  BY DEF IInv
<1> QED BY <1>1, HandlePoolInvariant, PTL

(* pool_coalesce_free always has a gap to gather, and the allocation behind *)
(* it fails only if the free bytes together do not suffice.                 *)
THEOREM HandlePoolDefeatsFragmentation ==
  Spec => []CompactionDefeatsFragmentation
<1> USE PoolAssumption, HandlePoolAssumption
<1>1. ASSUME IInv, pc = "compact", left = 0
      PROVE  squeezed > 0
  <2>1. /\ Owned /\ Compacting /\ total = Arena - Cardinality(UsedBytes(heap))
        /\ total \in Int /\ req.size \in Nat /\ total > req.size
    BY <1>1 DEF IInv, Owned, TypeOK, HandlePoolAssumption
  <2>2. squeezed = total
    BY <1>1, <2>1, GathersEveryGap
  <2> QED BY <2>1, <2>2
<1>2. ASSUME IInv, pc = "retry", Needed(req.size) <= total
      PROVE  CanCarve(req.size)
  <2>1. /\ ChunkList(heap) /\ Bounded(heap) /\ largest = LargestFree(heap)
        /\ largest = total /\ req.size \in Sizes
    BY <1>2 DEF IInv, TypeOK, Settled, Tiled, Accounts
  <2>2. Needed(req.size) \in Nat \ {0}
    BY <2>1, NeededIsPositive DEF HandlePoolAssumption
  <2>3. largest \in FreeSizes(heap) /\ largest \in Nat
    BY <2>1, LargestFreeExists
  <2>n. largest > 0
    BY <1>2, <2>1, <2>2, <2>3
  <2> DEFINE T == {a \in DOMAIN heap : Fits(a, Needed(req.size))}
  <2>4. PICK a \in DOMAIN heap : ~heap[a].used /\ heap[a].size = largest
    BY <2>3, <2>n DEF FreeSizes
  <2>5. a \in T
    BY <1>2, <2>1, <2>4 DEF Fits
  <2>6. T \in SUBSET Nat
    BY <2>1 DEF ChunkList, Address
  <2>7. PICK c \in T : \A b \in T : c <= b
    BY <2>5, <2>6, LeastNumber
  <2>8. c \in FirstFit(Needed(req.size))
    BY <2>7 DEF FirstFit
  <2> QED BY <1>2, <2>1, <2>8 DEF CanCarve
<1>3. IInv => CompactionDefeatsFragmentation
  BY <1>1, <1>2 DEF CompactionDefeatsFragmentation
<1> QED BY <1>3, HandlePoolInvariant, PTL

(* Wherever pool_coalesce_free moves the blocks, the pool is a store of     *)
(* handles: contents change only by allocating or freeing that handle.      *)
THEOREM HandlePoolIsAHandleStore ==
  Spec => ImplementsHandleStore
<1>1. Init => Store!Init
  BY PoolAssumption, HandlePoolAssumption, InitialInvariant
<1>2. IInv /\ [Next]_vars => [Store!Next]_Contents
  BY PoolAssumption, HandlePoolAssumption, StepIsCorrect
<1> QED BY <1>1, <1>2, HandlePoolInvariant, PTL
        DEF Spec, ImplementsHandleStore, Store!Spec
=============================================================================
