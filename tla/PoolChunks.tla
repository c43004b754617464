----------------------------- MODULE PoolChunks -----------------------------
(***************************************************************************)
(* The chunk list under both of the engine's pool allocators: the raw game *)
(* heap and the handle pool of the DAS cache (engine/renderer.c).          *)
(*                                                                         *)
(* A chunk lives at an address relative to the first one and starts with a *)
(* header that holds its size, the address of the chunk before it and its  *)
(* flags.  `heap` maps the address of every chunk to that header; the next *)
(* chunk is found by adding the size, never by a stored link.              *)
(***************************************************************************)
EXTENDS Integers, FiniteSets

CONSTANTS
  Arena,     (* bytes under the pool header (size - hdrsize)               *)
  Hdr,       (* bytes of a chunk header (0x10)                             *)
  MinSplit,  (* smallest remainder worth a chunk of its own (0x18)         *)
  Align,     (* allocation granularity (4)                                 *)
  Data,      (* what a client can store in a block                         *)
  Owners     (* what the handle-index field of a chunk can name            *)

ASSUME PoolAssumption ==
  /\ Arena \in Nat /\ Hdr \in Nat \ {0} /\ MinSplit \in Nat \ {0}
  /\ Align \in Nat \ {0}
  /\ Data # {} /\ Owners # {}

VARIABLES
  heap,      \* address -> chunk
  total,     \* pool+8: bytes in free chunks
  largest,   \* pool+4: size of the largest free chunk
  count      \* pool+0x14: number of chunks

chunkVars == <<heap, total, largest, count>>

Null == -1
Address == 0 .. Arena

\* used: flag 1; last: flag 2; moved: flag 4; owner: the handle index at +0xa;
\* data: what the client keeps behind the header.
Chunk == [size : Nat, prev : Address \cup {Null}, used : BOOLEAN,
          last : BOOLEAN, moved : BOOLEAN, owner : Owners, data : Data]

NoOwner == CHOOSE o \in Owners : TRUE
NoData == CHOOSE d \in Data : TRUE

FreeChunk(size, prev, last) ==
  [size |-> size, prev |-> prev, used |-> FALSE, last |-> last,
   moved |-> FALSE, owner |-> NoOwner, data |-> NoData]

Block(size, prev, o, d) ==
  [size |-> size, prev |-> prev, used |-> TRUE, last |-> FALSE,
   moved |-> FALSE, owner |-> o, data |-> d]

\* pool_init
InitChunks ==
  /\ heap = [a \in {0} |-> FreeChunk(Arena, Null, TRUE)]
  /\ total = Arena /\ largest = Arena /\ count = 1

-----------------------------------------------------------------------------
(* Allocation.                                                              *)

\* align4(size) + 0x10
Needed(size) == ((size + Align - 1) \div Align) * Align + Hdr

Fits(a, need) == ~heap[a].used /\ heap[a].size >= need

\* pool_carve_chunk takes the first chunk that fits, pool_find_free_chunk the last.
FirstFit(need) == {a \in DOMAIN heap : /\ Fits(a, need)
                     /\ \A b \in DOMAIN heap : Fits(b, need) => a <= b}
LastFit(need) == {a \in DOMAIN heap : /\ Fits(a, need)
                     /\ \A b \in DOMAIN heap : Fits(b, need) => b <= a}

NextOf(a) == a + heap[a].size   \* the chunk after a
Splits(c, need) == heap[c].size - need >= MinSplit

End(h, a) == a + h[a].size

\* Mutant: the recomputation does not restore the mark of the last chunk.
MarkNone(h) == h

\* pool_recompute_max_free, walking the new chunk list h.
FreeSizes(h) == {h[a].size : a \in {b \in DOMAIN h : ~h[b].used}} \cup {0}
LargestFree(h) == CHOOSE m \in FreeSizes(h) : \A n \in FreeSizes(h) : n <= m
MarkLast(h) == [a \in DOMAIN h |->
                  [h[a] EXCEPT !.last = (@ \/ End(h, a) = Arena)]]

\* Chunk c becomes two, the second one at cut.
Split(c, cut, lower, upper) ==
  [a \in DOMAIN heap \cup {cut} |->
     IF a = c THEN lower
     ELSE IF a = cut THEN upper
     ELSE IF a = NextOf(c) THEN [heap[a] EXCEPT !.prev = cut]
     ELSE heap[a]]

\* Mutant: only the bytes asked for are subtracted from a chunk taken whole.
CarveLosesRest(c, need, list, o, d) ==
  LET whole == [heap EXCEPT ![c] = Block(@.size, @.prev, o, d)]
  IN  /\ heap' = MarkLast(IF Splits(c, need) THEN list ELSE whole)
      /\ total' = total - need
      /\ count' = IF Splits(c, need) THEN count + 1 ELSE count
      /\ largest' = LargestFree(heap')

\* Take need bytes from chunk c, the whole of it if too little would remain;
\* list is the new chunk list in the first case.
Carve(c, need, list, o, d) ==
  LET whole == [heap EXCEPT ![c] = Block(@.size, @.prev, o, d)]
  IN  IF Splits(c, need)
      THEN /\ heap' = MarkLast(list) /\ total' = total - need
           /\ count' = count + 1 /\ largest' = LargestFree(heap')
      ELSE /\ heap' = MarkLast(whole) /\ total' = total - heap[c].size
           /\ count' = count /\ largest' = LargestFree(heap')

\* pool_carve_chunk: the block is the low end of the chunk ...
CarveLow(c, need, o, d) ==
  Carve(c, need, Split(c, c + need, Block(need, heap[c].prev, o, d),
                       FreeChunk(heap[c].size - need, c, FALSE)), o, d)

\* ... pool_find_free_chunk: the block is its high end.
CarveHigh(c, need, o, d) ==
  Carve(c, need, Split(c, NextOf(c) - need,
                       FreeChunk(heap[c].size - need, heap[c].prev, FALSE),
                       Block(need, c, o, d)), o, d)

\* The block that CarveHigh makes.
HighBlock(c, need) == IF Splits(c, need) THEN NextOf(c) - need ELSE c

-----------------------------------------------------------------------------
(* pool_coalesce_chunk_body: free chunk c and merge it with its neighbours. *)

\* Mutants: no merge downwards, no merge upwards, a merge with any next chunk.
JoinsPrevNever(c) == FALSE
JoinsNextAlways(c) == ~heap[c].last

JoinsPrev(c) == heap[c].prev # Null /\ ~heap[heap[c].prev].used
JoinsNext(c) == ~heap[c].last /\ ~heap[NextOf(c)].used

Release(c) ==
  LET base == IF JoinsPrev(c) THEN heap[c].prev ELSE c
      tail == IF JoinsNext(c) THEN NextOf(c) ELSE c
      size == NextOf(tail) - base
      freed == FreeChunk(size, heap[base].prev, heap[tail].last)
  IN  /\ heap' = [a \in (DOMAIN heap \ {c, tail}) \cup {base} |->
                    IF a = base THEN freed
                    ELSE IF a = NextOf(tail) THEN [heap[a] EXCEPT !.prev = base]
                    ELSE heap[a]]
      /\ total' = total + heap[c].size
      /\ count' = count - Cardinality({c, tail} \ {base})
      /\ largest' = IF largest <= size THEN size ELSE largest

-----------------------------------------------------------------------------
(* What the debug walker get_pool_descriptor checks of a chunk list, and    *)
(* what makes its walk meaningful: the chunks tile the arena.               *)

\* Chunk a of list h lies over byte b.
Over(h, a, b) == a <= b /\ b < End(h, a)

Bounded(h) == \A a \in DOMAIN h : h[a].size > 0 /\ End(h, a) <= Arena
Disjoint(h) == \A a, b \in DOMAIN h : a < b => End(h, a) <= b
Gapless(h) == /\ 0 \in DOMAIN h
              /\ \A a \in DOMAIN h : End(h, a) \in DOMAIN h \cup {Arena}
BackLinked(h) == \A a \in DOMAIN h :
                   IF a = 0 THEN h[a].prev = Null
                   ELSE h[a].prev \in DOMAIN h /\ End(h, h[a].prev) = a
LastMarked(h) == \A a \in DOMAIN h : h[a].last <=> End(h, a) = Arena
Coalesced(h) == \A a \in DOMAIN h :
                  ~h[a].used /\ End(h, a) \in DOMAIN h => h[End(h, a)].used

WellFormed(h) == /\ Bounded(h) /\ Disjoint(h) /\ Gapless(h) /\ BackLinked(h)
                 /\ LastMarked(h) /\ Coalesced(h)

\* The bytes of the blocks in use.
UsedBytes(h) == {b \in 0 .. Arena - 1 :
                   \E a \in DOMAIN h : h[a].used /\ Over(h, a, b)}

\* The counters of the pool header are exact.
Accounts == /\ count = Cardinality(DOMAIN heap)
            /\ total = Arena - Cardinality(UsedBytes(heap))
            /\ largest = LargestFree(heap)

\* A list of chunks, and a list of chunks that tile the arena: what every
\* operation keeps (WellFormed follows, see PoolChunks_proofs).
ChunkList(h) == DOMAIN h \subseteq Address /\ h \in [DOMAIN h -> Chunk]
Covers(h) == \A b \in 0 .. Arena - 1 : \E a \in DOMAIN h : Over(h, a, b)
Tiled(h) == /\ Bounded(h) /\ Disjoint(h) /\ Covers(h) /\ BackLinked(h)
            /\ LastMarked(h) /\ Coalesced(h)
=============================================================================
