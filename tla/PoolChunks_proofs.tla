------------------------- MODULE PoolChunks_proofs -------------------------
(***************************************************************************)
(* Lemmas about chunk lists, for the proofs about both pool allocators.    *)
(* h is the list before and g the list after an operation.                 *)
(***************************************************************************)
EXTENDS PoolChunks, FiniteSetTheorems, WellFoundedInduction, TLAPS

\* In a list that covers the arena the chunk after each one starts at its end.
LEMMA TiledIsGapless ==
  ASSUME PoolAssumption, Arena > 0, NEW h, ChunkList(h),
         Bounded(h), Disjoint(h), Covers(h)
  PROVE  Gapless(h)
<1>1. 0 \in DOMAIN h
  <2>1. PICK a \in DOMAIN h : Over(h, a, 0)
    BY DEF PoolAssumption, Covers
  <2>2. a = 0
    BY <2>1 DEF Over, ChunkList, Address, PoolAssumption
  <2> QED BY <2>1, <2>2
<1>2. ASSUME NEW a \in DOMAIN h, End(h, a) # Arena
      PROVE  End(h, a) \in DOMAIN h
  <2>1. End(h, a) \in 0 .. Arena - 1 /\ a < End(h, a) /\ a \in Nat
    BY <1>2 DEF Bounded, End, ChunkList, Chunk, Address, PoolAssumption
  <2>2. PICK c \in DOMAIN h : Over(h, c, End(h, a))
    BY <2>1 DEF Covers
  <2>3. /\ c \in Nat /\ c <= End(h, a) /\ End(h, a) < End(h, c)
        /\ End(h, c) \in Nat
    BY <2>2 DEF Over, ChunkList, Chunk, Address, PoolAssumption, End
  <2>4. ~(c < a)
    BY <2>1, <2>3 DEF Disjoint
  <2>5. c # a
    BY <2>1, <2>3
  <2>6. End(h, a) <= c
    BY <2>1, <2>3, <2>4, <2>5 DEF Disjoint
  <2>7. c = End(h, a)
    BY <2>1, <2>3, <2>6
  <2> QED BY <2>7
<1> QED BY <1>1, <1>2 DEF Gapless

\* What the operations keep is what get_pool_descriptor checks.
LEMMA TiledIsWellFormed ==
  ASSUME PoolAssumption, Arena > 0, NEW h, ChunkList(h), Tiled(h)
  PROVE  WellFormed(h)
BY TiledIsGapless DEF Tiled, WellFormed

-----------------------------------------------------------------------------
(* Splitting chunk c at cut; the bytes from c to cut, or those from cut on, *)
(* become a block.                                                          *)

IsSplit(h, g, c, cut) ==
  /\ c \in DOMAIN h /\ ~h[c].used /\ c < cut /\ cut < End(h, c)
  /\ cut \in Nat
  /\ DOMAIN g = DOMAIN h \cup {cut}
  /\ g[c].size = cut - c /\ g[c].prev = h[c].prev
  /\ g[cut].size = End(h, c) - cut /\ g[cut].prev = c
  /\ \A a \in DOMAIN h \ {c} :
       /\ g[a].size = h[a].size /\ g[a].used = h[a].used
       /\ g[a].prev = IF a = End(h, c) THEN cut ELSE h[a].prev
  /\ \A a \in DOMAIN g : g[a].last <=> End(g, a) = Arena
  /\ g[c].used <=> ~g[cut].used

(* Splitting a free chunk keeps the chunks tiling the arena.               *)
LEMMA SplitKeepsTiled ==
  ASSUME PoolAssumption, NEW h, NEW g, NEW c, NEW cut,
         ChunkList(h), ChunkList(g), Tiled(h), IsSplit(h, g, c, cut)
  PROVE  Tiled(g)
<1>0. /\ \A a \in DOMAIN h : a \in Nat /\ h[a].size \in Nat
      /\ cut \in Nat /\ c \in DOMAIN h /\ Arena \in Nat
      /\ c < cut /\ cut < c + h[c].size
  BY DEF ChunkList, Chunk, Address, PoolAssumption, IsSplit, End
<1>1. cut \notin DOMAIN h
  BY <1>0 DEF Tiled, Disjoint, End
<1>2. /\ DOMAIN g = DOMAIN h \cup {cut}
      /\ g[c].size = cut - c /\ g[cut].size = c + h[c].size - cut
      /\ \A a \in DOMAIN h \ {c} : g[a].size = h[a].size
  BY <1>0 DEF IsSplit, End
<1>3. Bounded(g)
  BY <1>0, <1>1, <1>2 DEF Tiled, Bounded, End
<1>4. Disjoint(g)
  <2> SUFFICES ASSUME NEW a \in DOMAIN g, NEW b \in DOMAIN g, a < b
               PROVE  a + g[a].size <= b
    BY DEF Disjoint, End
  <2>1. \A x, y \in DOMAIN h : x < y => x + h[x].size <= y
    BY DEF Tiled, Disjoint, End
  <2>2. CASE a = cut
    BY <1>0, <1>1, <1>2, <2>1, <2>2
  <2>3. CASE a = c
    BY <1>0, <1>1, <1>2, <2>1, <2>3
  <2>4. CASE a # c /\ a # cut
    <3>1. a \in DOMAIN h /\ g[a].size = h[a].size
      BY <1>2, <2>4
    <3>2. CASE b = cut
      BY <1>0, <1>2, <2>1, <2>4, <3>1, <3>2
    <3>3. CASE b # cut
      BY <1>2, <2>1, <3>1, <3>3
    <3> QED BY <3>2, <3>3
  <2> QED BY <2>2, <2>3, <2>4
<1>5. Covers(g)
  <2> SUFFICES ASSUME NEW b \in 0 .. Arena - 1
               PROVE  \E a \in DOMAIN g : a <= b /\ b < a + g[a].size
    BY DEF Covers, Over, End
  <2>1. PICK a \in DOMAIN h : a <= b /\ b < a + h[a].size
    BY DEF Tiled, Covers, Over, End
  <2>2. CASE a # c
    BY <1>2, <2>1, <2>2
  <2>3. CASE a = c /\ b < cut
    BY <1>0, <1>2, <2>1, <2>3
  <2>4. CASE a = c /\ ~(b < cut)
    BY <1>0, <1>2, <2>1, <2>4
  <2> QED BY <2>2, <2>3, <2>4
<1>6. BackLinked(g)
  <2> SUFFICES ASSUME NEW a \in DOMAIN g
               PROVE  IF a = 0 THEN g[a].prev = Null
                      ELSE g[a].prev \in DOMAIN g /\ End(g, g[a].prev) = a
    BY DEF BackLinked
  <2>1. /\ g[c].prev = h[c].prev /\ g[cut].prev = c
        /\ \A x \in DOMAIN h \ {c} :
             g[x].prev = IF x = c + h[c].size THEN cut ELSE h[x].prev
    BY DEF IsSplit, End
  <2>2. \A x \in DOMAIN h : IF x = 0 THEN h[x].prev = Null
          ELSE h[x].prev \in DOMAIN h /\ h[x].prev + h[h[x].prev].size = x
    BY DEF Tiled, BackLinked, End
  <2>3. CASE a = cut
    BY <1>0, <1>2, <2>1, <2>3 DEF End
  <2>4. CASE a # cut /\ a = c + h[c].size
    BY <1>0, <1>1, <1>2, <2>1, <2>4 DEF End
  <2>5. CASE a # cut /\ a # c + h[c].size
    <3>1. a \in DOMAIN h /\ g[a].prev = h[a].prev
      BY <1>2, <2>1, <2>5
    <3>2. CASE a = 0
      BY <2>2, <3>1, <3>2
    <3>3. CASE a # 0
      <4>1. h[a].prev \in DOMAIN h /\ h[a].prev + h[h[a].prev].size = a
        BY <2>2, <3>1, <3>3
      <4>2. h[a].prev # c
        BY <2>5, <4>1
      <4> QED BY <1>2, <3>1, <3>3, <4>1, <4>2 DEF End
    <3> QED BY <3>2, <3>3
  <2> QED BY <2>3, <2>4, <2>5
<1>7. LastMarked(g)
  BY DEF LastMarked, IsSplit
<1>8. Coalesced(g)
  <2> SUFFICES ASSUME NEW a \in DOMAIN g, ~g[a].used,
                      a + g[a].size \in DOMAIN g
               PROVE  g[a + g[a].size].used
    BY DEF Coalesced, End
  <2>1. /\ \A x \in DOMAIN h \ {c} : g[x].used = h[x].used
        /\ g[c].used <=> ~g[cut].used
        /\ ~h[c].used
    BY DEF IsSplit
  <2>2. \A x \in DOMAIN h : ~h[x].used /\ x + h[x].size \in DOMAIN h
                              => h[x + h[x].size].used
    BY DEF Tiled, Coalesced, End
  <2>3. \A x, y \in DOMAIN h : x < y => x + h[x].size <= y
    BY DEF Tiled, Disjoint, End
  <2>4. CASE a = c
    BY <1>0, <1>2, <2>1, <2>4
  <2>5. CASE a = cut
    <3>1. a + g[a].size = c + h[c].size
      BY <1>0, <1>2, <2>5
    <3> QED BY <1>0, <1>2, <2>1, <2>2, <2>5, <3>1
  <2>6. CASE a # c /\ a # cut
    <3>1. a \in DOMAIN h /\ g[a].size = h[a].size /\ ~h[a].used
      BY <1>2, <2>1, <2>6
    <3>2. a + h[a].size # cut
      BY <1>0, <1>1, <2>3, <2>6, <3>1
    <3>3. a + h[a].size \in DOMAIN h
      BY <1>2, <3>1, <3>2
    <3>4. h[a + h[a].size].used
      BY <2>2, <3>1, <3>3
    <3> QED BY <1>0, <2>1, <3>1, <3>3, <3>4
  <2> QED BY <2>4, <2>5, <2>6
<1> QED BY <1>3, <1>4, <1>5, <1>6, <1>7, <1>8 DEF Tiled

-----------------------------------------------------------------------------
(* Taking the whole of the free chunk c.                                    *)

IsTaken(h, g, c) ==
  /\ c \in DOMAIN h /\ ~h[c].used
  /\ DOMAIN g = DOMAIN h
  /\ \A a \in DOMAIN h : /\ g[a].size = h[a].size /\ g[a].prev = h[a].prev
                         /\ g[a].used <=> (h[a].used \/ a = c)
                         /\ g[a].last <=> End(g, a) = Arena

(* So does taking a whole chunk.                                           *)
LEMMA TakingKeepsTiled ==
  ASSUME PoolAssumption, NEW h, NEW g, NEW c,
         ChunkList(h), ChunkList(g), Tiled(h), IsTaken(h, g, c)
  PROVE  Tiled(g)
<1>1. /\ DOMAIN g = DOMAIN h
      /\ \A a \in DOMAIN h : g[a].size = h[a].size /\ g[a].prev = h[a].prev
  BY DEF IsTaken
<1>2. \A a \in DOMAIN h : End(g, a) = End(h, a)
  BY <1>1 DEF End
<1>3. Bounded(g) /\ Disjoint(g)
  BY <1>1, <1>2 DEF Tiled, Bounded, Disjoint
<1>4. Covers(g)
  BY <1>1, <1>2 DEF Tiled, Covers, Over
<1>5. BackLinked(g)
  BY <1>1, <1>2 DEF Tiled, BackLinked
<1>6. LastMarked(g)
  BY <1>1 DEF IsTaken, LastMarked
<1>7. Coalesced(g)
  BY <1>1, <1>2 DEF Tiled, Coalesced, IsTaken
<1> QED BY <1>3, <1>4, <1>5, <1>6, <1>7 DEF Tiled

-----------------------------------------------------------------------------
(* Freeing the block c: base is c or the free chunk before it, tail is c or *)
(* the free chunk after it, and everything from base to tail becomes one    *)
(* free chunk.                                                              *)

IsRelease(h, g, c, base, tail) ==
  /\ c \in DOMAIN h /\ h[c].used
  /\ base = IF h[c].prev # Null /\ ~h[h[c].prev].used THEN h[c].prev ELSE c
  /\ tail = IF ~h[c].last /\ ~h[End(h, c)].used THEN End(h, c) ELSE c
  /\ DOMAIN g = (DOMAIN h \ {c, tail}) \cup {base}
  /\ g[base].size = End(h, tail) - base
  /\ ~g[base].used /\ g[base].prev = h[base].prev /\ g[base].last = h[tail].last
  /\ \A a \in DOMAIN g \ {base} :
       /\ g[a].size = h[a].size /\ g[a].used = h[a].used /\ g[a].last = h[a].last
       /\ g[a].prev = IF a = End(h, tail) THEN base ELSE h[a].prev

\* The numbers of a bounded list.
LEMMA ChunkNumbers ==
  ASSUME PoolAssumption, NEW h, ChunkList(h), Bounded(h)
  PROVE  \A a \in DOMAIN h : a \in Nat /\ h[a].size \in Nat /\ h[a].size > 0
<1> SUFFICES ASSUME NEW a \in DOMAIN h
             PROVE  a \in Nat /\ h[a].size \in Nat /\ h[a].size > 0
  OBVIOUS
<1>1. a \in Nat
  BY DEF ChunkList, Address, PoolAssumption
<1>2. h[a] \in Chunk
  BY DEF ChunkList
<1>3. h[a].size \in Nat
  BY <1>2 DEF Chunk
<1> QED
  BY <1>1, <1>3 DEF Bounded

\* Where base and tail lie, and what lies around them.
LEMMA ReleaseNeighbours ==
  ASSUME PoolAssumption, Arena > 0, NEW h, NEW g, NEW c, NEW base, NEW tail,
         ChunkList(h), Tiled(h), IsRelease(h, g, c, base, tail)
  PROVE  /\ base \in DOMAIN h /\ tail \in DOMAIN h /\ base <= c /\ c <= tail
         /\ base = c \/ (base + h[base].size = c /\ ~h[base].used)
         /\ tail = c \/ (c + h[c].size = tail /\ ~h[tail].used)
         /\ tail + h[tail].size \in DOMAIN h => h[tail + h[tail].size].used
         /\ base # 0 => h[base].prev \in DOMAIN h /\ h[h[base].prev].used
                        /\ h[base].prev + h[h[base].prev].size = base
<1>0. /\ \A a \in DOMAIN h : a \in Nat /\ h[a].size \in Nat /\ h[a].size > 0
      /\ c \in DOMAIN h
  BY ChunkNumbers DEF Tiled, IsRelease, PoolAssumption
<1>1. Gapless(h)
  BY TiledIsGapless DEF Tiled
<1>2. \A x \in DOMAIN h : IF x = 0 THEN h[x].prev = Null
        ELSE h[x].prev \in DOMAIN h /\ h[x].prev + h[h[x].prev].size = x
  BY DEF Tiled, BackLinked, End
<1>3. \A x \in DOMAIN h : ~h[x].used /\ x + h[x].size \in DOMAIN h
                            => h[x + h[x].size].used
  BY DEF Tiled, Coalesced, End
<1>4. /\ base \in DOMAIN h /\ base <= c
      /\ base = c \/ (base + h[base].size = c /\ ~h[base].used)
  <2>1. CASE base = c
    BY <1>0, <2>1
  <2>2. CASE base # c
    <3>1. base = h[c].prev /\ ~h[base].used /\ h[c].prev # Null
      BY <2>2 DEF IsRelease
    <3>2. base \in DOMAIN h /\ base + h[base].size = c
      BY <1>0, <1>2, <3>1
    <3> QED BY <1>0, <3>1, <3>2
  <2> QED BY <2>1, <2>2
<1>5. /\ tail \in DOMAIN h /\ c <= tail
      /\ tail = c \/ (c + h[c].size = tail /\ ~h[tail].used)
  <2>1. CASE tail = c
    BY <1>0, <2>1
  <2>2. CASE tail # c
    <3>1. tail = c + h[c].size /\ ~h[tail].used /\ ~h[c].last
      BY <2>2 DEF IsRelease, End
    <3>2. tail \in DOMAIN h
      BY <1>0, <1>1, <3>1 DEF Gapless, Tiled, LastMarked, End
    <3> QED BY <1>0, <3>1, <3>2
  <2> QED BY <2>1, <2>2
<1>6. tail + h[tail].size \in DOMAIN h => h[tail + h[tail].size].used
  <2> SUFFICES ASSUME tail + h[tail].size \in DOMAIN h
               PROVE  h[tail + h[tail].size].used
    OBVIOUS
  <2>1. CASE tail = c
    <3>1. c + h[c].size # Arena
      BY <2>1 DEF Tiled, Bounded, ChunkList, Chunk, Address, End, PoolAssumption
    <3>2. ~h[c].last
      BY <1>0, <3>1 DEF Tiled, LastMarked, End
    <3>3. h[c + h[c].size].used
      BY <1>0, <2>1, <3>2 DEF IsRelease, End
    <3> QED BY <2>1, <3>3
  <2>2. CASE tail # c
    BY <1>3, <1>5, <2>2
  <2> QED BY <2>1, <2>2
<1>7. ASSUME base # 0
      PROVE  /\ h[base].prev \in DOMAIN h /\ h[h[base].prev].used
             /\ h[base].prev + h[h[base].prev].size = base
  <2>1. h[base].prev \in DOMAIN h /\ h[base].prev + h[h[base].prev].size = base
    BY <1>2, <1>4, <1>7
  <2>2. CASE base = c
    <3>1. h[c].prev # Null
      BY <1>0, <2>1, <2>2 DEF Null
    <3> QED BY <2>1, <2>2, <3>1 DEF IsRelease
  <2>3. CASE base # c
    BY <1>3, <1>4, <2>1, <2>3
  <2> QED BY <2>1, <2>2, <2>3
<1> QED BY <1>4, <1>5, <1>6, <1>7

(* So does freeing a block and merging it with its free neighbours.        *)
LEMMA ReleaseKeepsTiled ==
  ASSUME PoolAssumption, Arena > 0, NEW h, NEW g, NEW c, NEW base, NEW tail,
         ChunkList(h), ChunkList(g), Tiled(h), IsRelease(h, g, c, base, tail)
  PROVE  Tiled(g)
<1>1. /\ \A a \in DOMAIN h : a \in Nat /\ h[a].size \in Nat /\ h[a].size > 0
      /\ c \in DOMAIN h /\ Arena \in Nat
  BY ChunkNumbers DEF Tiled, IsRelease, PoolAssumption
<1>2. /\ base \in DOMAIN h /\ tail \in DOMAIN h /\ base <= c /\ c <= tail
      /\ base = c \/ (base + h[base].size = c /\ ~h[base].used)
      /\ tail = c \/ (c + h[c].size = tail /\ ~h[tail].used)
      /\ tail + h[tail].size \in DOMAIN h => h[tail + h[tail].size].used
      /\ base # 0 => h[base].prev \in DOMAIN h /\ h[h[base].prev].used
                     /\ h[base].prev + h[h[base].prev].size = base
  BY ReleaseNeighbours
<1>3. \A x, y \in DOMAIN h : x < y => x + h[x].size <= y
  BY DEF Tiled, Disjoint, End
<1>4. /\ DOMAIN g = (DOMAIN h \ {c, tail}) \cup {base}
      /\ base \in DOMAIN g
      /\ g[base].size = tail + h[tail].size - base
      /\ \A a \in DOMAIN g \ {base} : g[a].size = h[a].size
  <2>1. DOMAIN g = (DOMAIN h \ {c, tail}) \cup {base}
    BY Zenon DEF IsRelease
  <2>2. base \in DOMAIN g
    BY Zenon, <2>1
  <2>3. g[base].size = tail + h[tail].size - base
    <3>1. g[base].size = End(h, tail) - base
      BY Zenon DEF IsRelease
    <3> QED BY <1>1, <1>2, <3>1 DEF End
  <2>4. \A a \in DOMAIN g \ {base} : g[a].size = h[a].size
    BY Zenon DEF IsRelease
  <2> QED BY Zenon, <2>1, <2>2, <2>3, <2>4
<1>5. \* Every other chunk lies below base or above tail.
      \A a \in DOMAIN h \ {base, c, tail} :
        a + h[a].size <= base \/ tail + h[tail].size <= a
  <2> SUFFICES ASSUME NEW a \in DOMAIN h \ {base, c, tail}, ~(a < base)
               PROVE  tail + h[tail].size <= a
    BY <1>2, <1>3
  <2>1. a > base
    BY <1>1, <1>2
  <2>2. a > c
    BY <1>1, <1>2, <1>3, <2>1
  <2>3. a > tail
    BY <1>1, <1>2, <1>3, <2>2
  <2> QED BY <1>1, <1>2, <1>3, <2>3
<1>6. Bounded(g)
  <2>1. \A a \in DOMAIN h : a + h[a].size <= Arena
    BY DEF Tiled, Bounded, End
  <2>2. base + g[base].size = tail + h[tail].size
    BY <1>1, <1>2, <1>4
  <2>3. g[base].size > 0
    BY <1>1, <1>2, <1>4
  <2> QED BY <1>1, <1>2, <1>4, <2>1, <2>2, <2>3 DEF Bounded, End
<1>7. Disjoint(g)
  <2> SUFFICES ASSUME NEW a \in DOMAIN g, NEW b \in DOMAIN g, a < b
               PROVE  a + g[a].size <= b
    BY DEF Disjoint, End
  <2>1. CASE a = base
    <3>1. b \in DOMAIN h \ {base, c, tail}
      BY <1>1, <1>2, <1>4, <2>1
    <3>2. tail + h[tail].size <= b
      BY <1>1, <1>2, <1>5, <2>1, <3>1
    <3> QED BY <1>1, <1>2, <1>4, <2>1, <3>2
  <2>2. CASE a # base
    <3>1. a \in DOMAIN h /\ b \in DOMAIN h
      BY <1>2, <1>4, <2>2
    <3> QED BY <1>3, <1>4, <2>2, <3>1
  <2> QED BY <2>1, <2>2
<1>8. Covers(g)
  <2> SUFFICES ASSUME NEW b \in 0 .. Arena - 1
               PROVE  \E a \in DOMAIN g : a <= b /\ b < a + g[a].size
    BY DEF Covers, Over, End
  <2>1. PICK a \in DOMAIN h : a <= b /\ b < a + h[a].size
    BY DEF Tiled, Covers, Over, End
  <2>2. CASE a \in {base, c, tail}
    <3>1. base <= b /\ b < tail + h[tail].size
      BY <1>1, <1>2, <2>1, <2>2
    <3> QED BY <1>1, <1>2, <1>4, <3>1
  <2>3. CASE a \notin {base, c, tail}
    BY <1>4, <2>1, <2>3
  <2> QED BY <2>2, <2>3
<1>9. BackLinked(g)
  <2> SUFFICES ASSUME NEW a \in DOMAIN g
               PROVE  IF a = 0 THEN g[a].prev = Null
                      ELSE g[a].prev \in DOMAIN g
                           /\ g[a].prev + g[g[a].prev].size = a
    BY DEF BackLinked, End
  <2>1. \A x \in DOMAIN h : IF x = 0 THEN h[x].prev = Null
          ELSE h[x].prev \in DOMAIN h /\ h[x].prev + h[h[x].prev].size = x
    BY DEF Tiled, BackLinked, End
  <2>2. /\ g[base].prev = h[base].prev
        /\ \A x \in DOMAIN g \ {base} :
             g[x].prev = IF x = tail + h[tail].size THEN base ELSE h[x].prev
    BY DEF IsRelease, End
  <2>3. CASE a = base
    <3>1. CASE a = 0
      BY <1>2, <2>1, <2>2, <2>3, <3>1
    <3>2. CASE a # 0
      <4>1. h[a].prev \in DOMAIN g \ {base}
        BY <1>1, <1>2, <1>4, <2>3, <3>2
      <4> QED BY <1>2, <1>4, <2>2, <2>3, <3>2, <4>1
    <3> QED BY <3>1, <3>2
  <2>4. CASE a # base /\ a = tail + h[tail].size
    BY <1>1, <1>2, <1>4, <2>2, <2>4
  <2>5. CASE a # base /\ a # tail + h[tail].size
    <3>1. a \in DOMAIN h \ {base, c, tail} /\ g[a].prev = h[a].prev
      BY <1>4, <2>2, <2>5
    <3>2. CASE a = 0
      BY <2>1, <3>1, <3>2
    <3>3. CASE a # 0
      <4>1. h[a].prev \in DOMAIN h /\ h[a].prev + h[h[a].prev].size = a
        BY <2>1, <3>1, <3>3
      <4>2. h[a].prev \notin {base, c, tail}
        BY <1>1, <1>2, <2>5, <3>1, <4>1
      <4> QED BY <1>4, <3>1, <3>3, <4>1, <4>2
    <3> QED BY <3>2, <3>3
  <2> QED BY <2>3, <2>4, <2>5
<1>10. LastMarked(g)
  <2>1. \A x \in DOMAIN h : h[x].last <=> x + h[x].size = Arena
    BY DEF Tiled, LastMarked, End
  <2>2. g[base].last = h[tail].last
        /\ \A x \in DOMAIN g \ {base} : g[x].last = h[x].last
    BY DEF IsRelease
  <2>3. base + g[base].size = tail + h[tail].size
    BY <1>1, <1>2, <1>4
  <2> QED BY <1>2, <1>4, <2>1, <2>2, <2>3 DEF LastMarked, End
<1>11. Coalesced(g)
  <2> SUFFICES ASSUME NEW a \in DOMAIN g, ~g[a].used,
                      a + g[a].size \in DOMAIN g
               PROVE  g[a + g[a].size].used
    BY DEF Coalesced, End
  <2>1. \A x \in DOMAIN g \ {base} : g[x].used = h[x].used
    BY DEF IsRelease
  <2>2. \A x \in DOMAIN h : ~h[x].used /\ x + h[x].size \in DOMAIN h
                              => h[x + h[x].size].used
    BY DEF Tiled, Coalesced, End
  <2>3. CASE a = base
    <3>1. a + g[a].size = tail + h[tail].size
      BY <1>1, <1>2, <1>4, <2>3
    <3>2. tail + h[tail].size # base
      BY <1>1, <1>2
    <3> QED BY <1>2, <1>4, <2>1, <2>3, <3>1, <3>2
  <2>4. CASE a # base
    <3>1. /\ a \in DOMAIN h \ {base, c, tail} /\ g[a].size = h[a].size
          /\ ~h[a].used
      BY <1>4, <2>1, <2>4
    <3>2. a + h[a].size # base
      <4> SUFFICES ASSUME a + h[a].size = base PROVE FALSE
        OBVIOUS
      <4>1. base # 0
        BY <1>1, <3>1
      <4>2. h[base].prev = a
        <5>1. /\ h[base].prev \in DOMAIN h
              /\ h[base].prev + h[h[base].prev].size = base
          BY <1>2, <4>1
        <5> QED BY <1>1, <1>3, <3>1, <5>1
      <4> QED BY <1>2, <3>1, <4>1, <4>2
    <3>3. a + h[a].size \in DOMAIN g \ {base}
      BY <3>1, <3>2
    <3> QED BY <1>4, <2>1, <2>2, <3>1, <3>3
  <2> QED BY <2>3, <2>4
<1> QED BY <1>6, <1>7, <1>8, <1>9, <1>10, <1>11 DEF Tiled

-----------------------------------------------------------------------------
(* Counting bytes and chunks.                                               *)

(* The list of chunks and the bytes of its blocks are finite.              *)
LEMMA ListIsFinite ==
  ASSUME PoolAssumption, NEW h, ChunkList(h)
  PROVE  IsFiniteSet(DOMAIN h) /\ IsFiniteSet(UsedBytes(h))
<1>1. IsFiniteSet(Address) /\ IsFiniteSet(0 .. Arena - 1)
  BY FS_Interval DEF Address, PoolAssumption
<1>2. DOMAIN h \subseteq Address
  BY DEF ChunkList
<1>3. UsedBytes(h) \subseteq 0 .. Arena - 1
  BY DEF UsedBytes
<1>4. IsFiniteSet(DOMAIN h)
  BY <1>1, <1>2, FS_Subset
<1>5. IsFiniteSet(UsedBytes(h))
  BY <1>1, <1>3, FS_Subset
<1> QED BY <1>4, <1>5

\* g has the blocks of h and one more, x: it uses size of x bytes more.
OneMoreBlock(h, g, x) ==
  /\ x \in DOMAIN g /\ g[x].used
  /\ \A a \in DOMAIN g \ {x} : g[a].used
       => a \in DOMAIN h /\ h[a].used /\ h[a].size = g[a].size
  /\ \A a \in DOMAIN h : h[a].used
       => a \in DOMAIN g \ {x} /\ g[a].used /\ g[a].size = h[a].size

(* One block more adds its bytes to those that are in use.                 *)
LEMMA BlockAddsItsBytes ==
  ASSUME PoolAssumption, NEW h, NEW g, NEW x, ChunkList(h), ChunkList(g),
         Bounded(g), Disjoint(g), OneMoreBlock(h, g, x)
  PROVE  /\ Cardinality(UsedBytes(g)) = Cardinality(UsedBytes(h)) + g[x].size
         /\ Cardinality(UsedBytes(h)) \in Nat
<1> DEFINE S == UsedBytes(h)
           X == x .. x + g[x].size - 1
<1>1. /\ \A a \in DOMAIN g : /\ a \in Nat /\ g[a].size \in Nat /\ g[a].size > 0
                             /\ a + g[a].size <= Arena
      /\ x \in DOMAIN g /\ Arena \in Nat
  BY DEF ChunkList, Chunk, Address, PoolAssumption, Bounded, End, OneMoreBlock
<1>2. IsFiniteSet(S) /\ IsFiniteSet(X) /\ Cardinality(X) = g[x].size
  <2>1. IsFiniteSet(S)
    BY ListIsFinite
  <2>2. x \in Int /\ x + g[x].size - 1 \in Int /\ ~(x > x + g[x].size - 1)
        /\ (x + g[x].size - 1) - x + 1 = g[x].size
    BY <1>1
  <2>3. IsFiniteSet(X) /\ Cardinality(X) = (x + g[x].size - 1) - x + 1
    BY <2>2, FS_Interval
  <2> QED BY <2>1, <2>2, <2>3
<1>3. S \cap X = {}
  <2> SUFFICES ASSUME NEW b \in S, b \in X PROVE FALSE
    OBVIOUS
  <2>1. PICK a \in DOMAIN h : h[a].used /\ a <= b /\ b < a + h[a].size
    BY DEF UsedBytes, Over, End
  <2>2. a \in DOMAIN g /\ a # x /\ g[a].size = h[a].size
    BY <2>1 DEF OneMoreBlock
  <2>3. x <= b /\ b < x + g[x].size /\ b \in Int
    BY <1>1
  <2>4. a + g[a].size <= x \/ x + g[x].size <= a
    BY <1>1, <2>2 DEF Disjoint, End
  <2> QED BY <1>1, <2>1, <2>2, <2>3, <2>4
<1>4. UsedBytes(g) = S \cup X
  <2>1. ASSUME NEW b \in UsedBytes(g) PROVE b \in S \cup X
    <3>1. PICK a \in DOMAIN g : g[a].used /\ a <= b /\ b < a + g[a].size
      BY DEF UsedBytes, Over, End
    <3>2. b \in 0 .. Arena - 1
      BY DEF UsedBytes
    <3>3. CASE a = x
      BY <1>1, <3>1, <3>2, <3>3
    <3>4. CASE a # x
      BY <3>1, <3>2, <3>4 DEF OneMoreBlock, UsedBytes, Over, End
    <3> QED BY <3>3, <3>4
  <2>2. ASSUME NEW b \in S PROVE b \in UsedBytes(g)
    BY DEF UsedBytes, OneMoreBlock, Over, End
  <2>3. ASSUME NEW b \in X PROVE b \in UsedBytes(g)
    <3>1. b \in 0 .. Arena - 1 /\ x <= b /\ b < x + g[x].size
      BY <1>1
    <3> QED BY <1>1, <3>1 DEF UsedBytes, OneMoreBlock, Over, End
  <2> QED BY <2>1, <2>2, <2>3
<1>5. Cardinality(S) \in Nat
  BY <1>2, FS_CardinalityType
<1>6. Cardinality(S \cup X) = Cardinality(S) + Cardinality(X) - Cardinality(S \cap X)
  BY <1>2, FS_Union
<1>7. Cardinality(S \cap X) = 0
  BY <1>3, FS_EmptySet
<1> QED BY <1>1, <1>2, <1>4, <1>5, <1>6, <1>7

-----------------------------------------------------------------------------
(* The largest free chunk.                                                  *)

(* A set of numbers that is not empty has a least one.                     *)
LEMMA LeastNumber ==
  ASSUME NEW T \in SUBSET Nat, T # {}
  PROVE  \E n \in T : \A m \in T : n <= m
<1>1. PICK n \in T : \A m \in T : ~(<<m, n>> \in OpToRel(<, Nat))
  BY NatLessThanWellFounded, WFMin
<1>2. \A m \in T : ~(m < n)
  BY <1>1 DEF OpToRel
<1> QED BY <1>2

\* The least upper bound of the free sizes is one of them.
LEMMA LargestFreeExists ==
  ASSUME PoolAssumption, NEW h, ChunkList(h), Bounded(h)
  PROVE  /\ FreeSizes(h) \subseteq Nat
         /\ LargestFree(h) \in FreeSizes(h)
         /\ \A n \in FreeSizes(h) : n <= LargestFree(h)
<1> DEFINE S == FreeSizes(h)
           T == {n \in Nat : \A m \in S : m <= n}
<1>1. S \subseteq Nat /\ 0 \in S /\ \A m \in S : m <= Arena
  <2>1. /\ \A a \in DOMAIN h : /\ h[a].size \in Nat /\ a \in Nat
                               /\ a + h[a].size <= Arena
        /\ Arena \in Nat
    BY DEF ChunkList, Chunk, Address, Bounded, End, PoolAssumption
  <2>2. \A a \in DOMAIN h : h[a].size <= Arena
    BY <2>1
  <2> QED BY <2>1, <2>2 DEF FreeSizes
<1>2. T # {}
  <2>1. Arena \in T
    BY <1>1 DEF PoolAssumption
  <2> QED BY <2>1
<1>3. PICK n \in T : \A m \in T : n <= m
  BY <1>2, LeastNumber
<1>4. n \in S
  <2> SUFFICES ASSUME n \notin S PROVE FALSE
    OBVIOUS
  <2>1. n # 0 /\ n \in Nat
    BY <1>1
  <2>2. \A m \in S : m <= n - 1
    BY <1>1, <2>1
  <2>3. n - 1 \in T
    BY <2>1, <2>2
  <2> QED BY <1>3, <2>1, <2>3
<1>5. n \in S /\ \A m \in S : m <= n
  BY <1>4
<1> QED BY <1>1, <1>5 DEF LargestFree

(* A free size that none exceeds is the largest.                           *)
LEMMA LargestFreeIs ==
  ASSUME PoolAssumption, NEW h, ChunkList(h), Bounded(h),
         NEW n \in FreeSizes(h), \A m \in FreeSizes(h) : m <= n
  PROVE  LargestFree(h) = n
BY LargestFreeExists

-----------------------------------------------------------------------------
(* The operations themselves.                                               *)

\* g is h with a new block x; the blocks of h are as they were.
Placed(h, g, x, o, d) ==
  /\ OneMoreBlock(h, g, x)
  /\ g[x].owner = o /\ g[x].data = d /\ g[x].moved = FALSE
  /\ \A a \in DOMAIN h : h[a].used
       => /\ g[a].owner = h[a].owner /\ g[a].data = h[a].data
          /\ g[a].moved = h[a].moved

(* No owner and no data are values of a chunk's fields.                    *)
LEMMA NoneTyped ==
  ASSUME PoolAssumption
  PROVE  NoOwner \in Owners /\ NoData \in Data
BY DEF PoolAssumption, NoOwner, NoData

(* What a request needs, rounded up and with its header, is never nothing. *)
LEMMA NeededIsPositive ==
  ASSUME PoolAssumption, NEW size \in Nat \ {0}
  PROVE  Needed(size) \in Nat \ {0}
<1>1. (size + Align - 1) \div Align \in Nat
  BY DEF PoolAssumption
<1>2. ((size + Align - 1) \div Align) * Align \in Nat
  BY <1>1 DEF PoolAssumption
<1> QED BY <1>2 DEF Needed, PoolAssumption

(* What the code that splits a chunk does to the list.                     *)
LEMMA SplitEffect ==
  ASSUME PoolAssumption, ChunkList(heap), Tiled(heap),
         NEW c \in DOMAIN heap, NEW cut \in Nat,
         NEW lower \in Chunk, NEW upper \in Chunk,
         ~heap[c].used, c < cut, cut < c + heap[c].size,
         lower.size = cut - c, lower.prev = heap[c].prev, ~lower.last,
         upper.size = c + heap[c].size - cut, upper.prev = c, ~upper.last,
         lower.used <=> ~upper.used,
         heap' = MarkLast(Split(c, cut, lower, upper))
  PROVE  /\ ChunkList(heap') /\ IsSplit(heap, heap', c, cut)
         /\ cut \notin DOMAIN heap /\ cut \in DOMAIN heap'
         /\ \A a \in DOMAIN heap \ {c} :
              /\ heap'[a].owner = heap[a].owner /\ heap'[a].data = heap[a].data
              /\ heap'[a].moved = heap[a].moved
         /\ heap'[c].used = lower.used /\ heap'[c].owner = lower.owner
         /\ heap'[c].data = lower.data /\ heap'[c].moved = lower.moved
         /\ heap'[cut].used = upper.used /\ heap'[cut].owner = upper.owner
         /\ heap'[cut].data = upper.data /\ heap'[cut].moved = upper.moved
         /\ Cardinality(DOMAIN heap') = Cardinality(DOMAIN heap) + 1
<1> DEFINE L == Split(c, cut, lower, upper)
<1>1. /\ \A a \in DOMAIN heap :
           /\ a \in Address /\ a \in Nat /\ heap[a] \in Chunk
           /\ heap[a].size \in Nat /\ a + heap[a].size <= Arena
           /\ heap[a].last <=> a + heap[a].size = Arena
      /\ Arena \in Nat
  BY DEF ChunkList, Chunk, Address, PoolAssumption, Tiled, Bounded, End,
         LastMarked
<1>2. cut \in Address /\ cut \notin DOMAIN heap /\ c # cut
  BY <1>1 DEF Tiled, Disjoint, End, Address
<1>3. /\ DOMAIN L = DOMAIN heap \cup {cut} /\ L[c] = lower /\ L[cut] = upper
      /\ \A a \in DOMAIN heap \ {c} :
           L[a] = IF a = c + heap[c].size THEN [heap[a] EXCEPT !.prev = cut]
                                          ELSE heap[a]
  BY <1>2 DEF Split, NextOf
<1>4. \A a \in DOMAIN L : L[a] \in Chunk
  <2> SUFFICES ASSUME NEW a \in DOMAIN L PROVE L[a] \in Chunk
    OBVIOUS
  <2>1. CASE a = c \/ a = cut
    BY <1>3, <2>1
  <2>2. CASE a # c /\ a # cut
    <3>1. a \in DOMAIN heap \ {c} /\ heap[a] \in Chunk
      BY <1>1, <1>3, <2>2
    <3>2. [heap[a] EXCEPT !.prev = cut] \in Chunk
      BY <1>2, <3>1 DEF Chunk
    <3> QED BY <1>3, <3>1, <3>2
  <2> QED BY <2>1, <2>2
<1>5. /\ DOMAIN heap' = DOMAIN L
      /\ \A a \in DOMAIN L :
           heap'[a] = [L[a] EXCEPT !.last = (L[a].last \/ End(L, a) = Arena)]
  BY DEF MarkLast
<1>6. \A a \in DOMAIN L :
        /\ heap'[a] \in Chunk
        /\ heap'[a].size = L[a].size /\ heap'[a].prev = L[a].prev
        /\ heap'[a].used = L[a].used /\ heap'[a].owner = L[a].owner
        /\ heap'[a].data = L[a].data /\ heap'[a].moved = L[a].moved
        /\ heap'[a].last <=> (L[a].last \/ End(L, a) = Arena)
  BY <1>4, <1>5 DEF Chunk
<1>7. \A a \in DOMAIN heap \ {c} :
        /\ heap'[a].size = heap[a].size /\ heap'[a].used = heap[a].used
        /\ heap'[a].owner = heap[a].owner /\ heap'[a].data = heap[a].data
        /\ heap'[a].moved = heap[a].moved
        /\ heap'[a].prev = IF a = c + heap[c].size THEN cut ELSE heap[a].prev
        /\ heap'[a].last <=> (heap[a].last \/ a + heap[a].size = Arena)
  <2> SUFFICES ASSUME NEW a \in DOMAIN heap \ {c}
      PROVE /\ heap'[a].size = heap[a].size /\ heap'[a].used = heap[a].used
            /\ heap'[a].owner = heap[a].owner /\ heap'[a].data = heap[a].data
            /\ heap'[a].moved = heap[a].moved
            /\ heap'[a].prev = IF a = c + heap[c].size THEN cut ELSE heap[a].prev
            /\ heap'[a].last <=> (heap[a].last \/ a + heap[a].size = Arena)
    OBVIOUS
  <2>1. /\ L[a].size = heap[a].size /\ L[a].used = heap[a].used
        /\ L[a].owner = heap[a].owner /\ L[a].data = heap[a].data
        /\ L[a].moved = heap[a].moved /\ L[a].last = heap[a].last
        /\ L[a].prev = IF a = c + heap[c].size THEN cut ELSE heap[a].prev
    BY <1>1, <1>3 DEF Chunk
  <2> QED BY <1>3, <1>6, <2>1 DEF End
<1>8. ChunkList(heap')
  <2>1. DOMAIN heap' \subseteq Address
    BY <1>1, <1>2, <1>3, <1>5
  <2>2. heap' = [a \in DOMAIN heap' |-> heap'[a]]
    BY DEF MarkLast
  <2> QED BY <1>5, <1>6, <2>1, <2>2 DEF ChunkList
<1>9. \A a \in DOMAIN heap' : heap'[a].last <=> End(heap', a) = Arena
  <2> SUFFICES ASSUME NEW a \in DOMAIN heap'
               PROVE  heap'[a].last <=> a + heap'[a].size = Arena
    BY DEF End
  <2>1. CASE a = c \/ a = cut
    BY <1>3, <1>5, <1>6, <2>1 DEF End
  <2>2. CASE a # c /\ a # cut
    BY <1>1, <1>3, <1>5, <1>7, <2>2
  <2> QED BY <2>1, <2>2
<1>10. IsSplit(heap, heap', c, cut)
  <2>1. DOMAIN heap' = DOMAIN heap \cup {cut}
    BY <1>3, <1>5
  <2>2. /\ heap'[c].size = cut - c /\ heap'[c].prev = heap[c].prev
        /\ heap'[cut].size = c + heap[c].size - cut /\ heap'[cut].prev = c
        /\ heap'[c].used <=> ~heap'[cut].used
    BY <1>3, <1>6
  <2>3. \A a \in DOMAIN heap \ {c} :
          /\ heap'[a].size = heap[a].size /\ heap'[a].used = heap[a].used
          /\ heap'[a].prev = IF a = c + heap[c].size THEN cut ELSE heap[a].prev
    BY <1>7
  <2>4. End(heap, c) = c + heap[c].size
    BY DEF End
  <2>5. c \in DOMAIN heap /\ ~heap[c].used /\ c < cut /\ cut < End(heap, c)
    BY <2>4
  <2>6. \A a \in DOMAIN heap \ {c} :
          heap'[a].prev = IF a = End(heap, c) THEN cut ELSE heap[a].prev
    BY <2>3, <2>4
  <2>7. heap'[cut].size = End(heap, c) - cut
    BY SMTT(20), <1>1, <2>2, <2>4
  <2> QED BY Zenon, <1>9, <2>1, <2>2, <2>3, <2>5, <2>6, <2>7 DEF IsSplit
<1>11. Cardinality(DOMAIN heap') = Cardinality(DOMAIN heap) + 1
  <2>1. IsFiniteSet(DOMAIN heap)
    BY ListIsFinite
  <2>2. DOMAIN heap' = DOMAIN heap \cup {cut}
    BY <1>3, <1>5
  <2> QED BY <1>2, <2>1, <2>2, FS_AddElement
<1> QED BY <1>2, <1>3, <1>5, <1>6, <1>7, <1>8, <1>10, <1>11

(* What taking a whole chunk does to the list.                             *)
LEMMA TakeEffect ==
  ASSUME PoolAssumption, ChunkList(heap), Tiled(heap),
         NEW c \in DOMAIN heap, NEW o \in Owners, NEW d \in Data,
         ~heap[c].used,
         heap' = MarkLast([heap EXCEPT ![c] = Block(@.size, @.prev, o, d)])
  PROVE  /\ ChunkList(heap') /\ IsTaken(heap, heap', c)
         /\ \A a \in DOMAIN heap \ {c} :
              /\ heap'[a].owner = heap[a].owner /\ heap'[a].data = heap[a].data
              /\ heap'[a].moved = heap[a].moved
         /\ heap'[c].owner = o /\ heap'[c].data = d /\ heap'[c].moved = FALSE
<1> DEFINE L == [heap EXCEPT ![c] = Block(@.size, @.prev, o, d)]
<1>1. /\ \A a \in DOMAIN heap : heap[a] \in Chunk
      /\ \A a \in DOMAIN heap : heap[a].last <=> End(heap, a) = Arena
      /\ DOMAIN heap \subseteq Address
  BY DEF ChunkList, Tiled, LastMarked
<1>2. /\ DOMAIN L = DOMAIN heap
      /\ L[c] = Block(heap[c].size, heap[c].prev, o, d)
      /\ \A a \in DOMAIN heap \ {c} : L[a] = heap[a]
  OBVIOUS
<1>3. L[c] \in Chunk
  BY <1>1, <1>2 DEF Block, Chunk
<1>4. /\ DOMAIN heap' = DOMAIN heap
      /\ \A a \in DOMAIN heap :
           heap'[a] = [L[a] EXCEPT !.last = (L[a].last \/ End(L, a) = Arena)]
  BY <1>2 DEF MarkLast
<1>5. \A a \in DOMAIN heap :
        /\ heap'[a] \in Chunk
        /\ heap'[a].size = L[a].size /\ heap'[a].prev = L[a].prev
        /\ heap'[a].used = L[a].used /\ heap'[a].owner = L[a].owner
        /\ heap'[a].data = L[a].data /\ heap'[a].moved = L[a].moved
        /\ heap'[a].last <=> (L[a].last \/ End(L, a) = Arena)
  <2> SUFFICES ASSUME NEW a \in DOMAIN heap
      PROVE /\ heap'[a] \in Chunk
            /\ heap'[a].size = L[a].size /\ heap'[a].prev = L[a].prev
            /\ heap'[a].used = L[a].used /\ heap'[a].owner = L[a].owner
            /\ heap'[a].data = L[a].data /\ heap'[a].moved = L[a].moved
            /\ heap'[a].last <=> (L[a].last \/ End(L, a) = Arena)
    OBVIOUS
  <2>1. L[a] \in Chunk
    BY <1>1, <1>2, <1>3
  <2>2. heap'[a] = [L[a] EXCEPT !.last = (L[a].last \/ End(L, a) = Arena)]
    BY <1>4
  <2> HIDE DEF L
  <2> QED BY <2>1, <2>2 DEF Chunk
<1>6. /\ L[c].size = heap[c].size /\ L[c].prev = heap[c].prev /\ L[c].used = TRUE
      /\ L[c].last = FALSE /\ L[c].moved = FALSE /\ L[c].owner = o /\ L[c].data = d
  BY <1>2 DEF Block
<1>7. \A a \in DOMAIN heap : /\ heap'[a].size = heap[a].size
                             /\ heap'[a].prev = heap[a].prev
  BY <1>2, <1>5, <1>6
<1>8. ChunkList(heap')
  <2>1. heap' = [a \in DOMAIN heap' |-> heap'[a]]
    BY DEF MarkLast
  <2> QED BY <1>1, <1>4, <1>5, <2>1 DEF ChunkList
<1>9. \A a \in DOMAIN heap : /\ heap'[a].used <=> (heap[a].used \/ a = c)
                             /\ heap'[a].last <=> End(heap', a) = Arena
  <2> SUFFICES ASSUME NEW a \in DOMAIN heap
               PROVE  /\ heap'[a].used <=> (heap[a].used \/ a = c)
                      /\ heap'[a].last <=> End(heap', a) = Arena
    OBVIOUS
  <2>1. End(heap', a) = End(heap, a) /\ End(L, a) = End(heap, a)
    BY <1>2, <1>6, <1>7 DEF End
  <2>2. heap'[a].last <=> (L[a].last \/ End(heap, a) = Arena)
    BY ZenonT(30), <1>5, <2>1
  <2>3. CASE a = c
    BY <1>5, <1>6, <2>1, <2>2, <2>3
  <2>4. CASE a # c
    BY <1>1, <1>2, <1>5, <2>1, <2>2, <2>4
  <2> QED BY <2>3, <2>4
<1>10. IsTaken(heap, heap', c)
  BY <1>4, <1>7, <1>9 DEF IsTaken
<1>11. \A a \in DOMAIN heap \ {c} :
              /\ heap'[a].owner = heap[a].owner /\ heap'[a].data = heap[a].data
              /\ heap'[a].moved = heap[a].moved
  BY <1>2, <1>5
<1> QED BY <1>5, <1>6, <1>8, <1>10, <1>11

\* A carve, from either end, places one block and keeps the accounts.
LEMMA SplitPlaces ==
  ASSUME PoolAssumption, ChunkList(heap), Tiled(heap), Accounts,
         NEW c \in DOMAIN heap, NEW cut \in Nat, NEW x \in {c, cut},
         NEW lower \in Chunk, NEW upper \in Chunk,
         ~heap[c].used, c < cut, cut < c + heap[c].size,
         lower.size = cut - c, lower.prev = heap[c].prev, ~lower.last,
         upper.size = c + heap[c].size - cut, upper.prev = c, ~upper.last,
         lower.used <=> x = c, upper.used <=> x = cut,
         heap' = MarkLast(Split(c, cut, lower, upper)),
         total' = total - (IF x = c THEN lower.size ELSE upper.size),
         count' = count + 1, largest' = LargestFree(heap')
  PROVE  /\ ChunkList(heap') /\ Tiled(heap') /\ Accounts'
         /\ LET b == IF x = c THEN lower ELSE upper
            IN  b.moved = FALSE => Placed(heap, heap', x, b.owner, b.data)
<1>0. c # cut /\ c \in Nat
  BY DEF ChunkList, Address
<1>1. lower.used <=> ~upper.used
  BY <1>0
<1>2. /\ ChunkList(heap') /\ IsSplit(heap, heap', c, cut)
      /\ cut \notin DOMAIN heap /\ cut \in DOMAIN heap'
      /\ \A a \in DOMAIN heap \ {c} :
           /\ heap'[a].owner = heap[a].owner /\ heap'[a].data = heap[a].data
           /\ heap'[a].moved = heap[a].moved
      /\ heap'[c].used = lower.used /\ heap'[c].owner = lower.owner
      /\ heap'[c].data = lower.data /\ heap'[c].moved = lower.moved
      /\ heap'[cut].used = upper.used /\ heap'[cut].owner = upper.owner
      /\ heap'[cut].data = upper.data /\ heap'[cut].moved = upper.moved
      /\ Cardinality(DOMAIN heap') = Cardinality(DOMAIN heap) + 1
  BY <1>1, SplitEffect
<1>3. Tiled(heap')
  BY <1>2, SplitKeepsTiled
<1>4. /\ DOMAIN heap' = DOMAIN heap \cup {cut}
      /\ heap'[c].size = cut - c /\ heap'[cut].size = End(heap, c) - cut
      /\ \A a \in DOMAIN heap \ {c} : /\ heap'[a].size = heap[a].size
                                      /\ heap'[a].used = heap[a].used
  BY <1>2 DEF IsSplit
<1>5. OneMoreBlock(heap, heap', x)
  BY <1>0, <1>2, <1>4 DEF OneMoreBlock
<1>6. /\ Cardinality(UsedBytes(heap')) = Cardinality(UsedBytes(heap)) + heap'[x].size
      /\ Cardinality(UsedBytes(heap)) \in Nat
  BY <1>2, <1>3, <1>5, BlockAddsItsBytes DEF Tiled
<1>7. heap'[x].size = (IF x = c THEN lower.size ELSE upper.size)
      /\ heap'[x].size \in Int
  <2>1. heap[c].size \in Nat
    BY DEF ChunkList, Chunk
  <2> QED BY <1>0, <1>4, <2>1 DEF End
<1>8. total' = Arena - Cardinality(UsedBytes(heap'))
  BY <1>6, <1>7 DEF Accounts, PoolAssumption
<1>9. count' = Cardinality(DOMAIN heap')
  BY <1>2 DEF Accounts
<1>10. ASSUME (IF x = c THEN lower ELSE upper).moved = FALSE
       PROVE  Placed(heap, heap', x, (IF x = c THEN lower ELSE upper).owner,
                     (IF x = c THEN lower ELSE upper).data)
  <2>1. CASE x = c
    BY <1>0, <1>2, <1>5, <1>10, <2>1 DEF Placed
  <2>2. CASE x = cut
    BY <1>0, <1>2, <1>5, <1>10, <2>2 DEF Placed
  <2> QED BY <2>1, <2>2
<1>11. Accounts'
  BY <1>8, <1>9 DEF Accounts
<1> QED BY <1>2, <1>3, <1>10, <1>11

(* Taking a whole chunk places the block and keeps the accounts.           *)
LEMMA TakePlaces ==
  ASSUME PoolAssumption, ChunkList(heap), Tiled(heap), Accounts,
         NEW c \in DOMAIN heap, NEW o \in Owners, NEW d \in Data,
         ~heap[c].used,
         heap' = MarkLast([heap EXCEPT ![c] = Block(@.size, @.prev, o, d)]),
         total' = total - heap[c].size, count' = count,
         largest' = LargestFree(heap')
  PROVE  /\ ChunkList(heap') /\ Tiled(heap') /\ Accounts'
         /\ Placed(heap, heap', c, o, d)
<1>1. /\ ChunkList(heap') /\ IsTaken(heap, heap', c)
      /\ \A a \in DOMAIN heap \ {c} :
              /\ heap'[a].owner = heap[a].owner /\ heap'[a].data = heap[a].data
              /\ heap'[a].moved = heap[a].moved
      /\ heap'[c].owner = o /\ heap'[c].data = d /\ heap'[c].moved = FALSE
  BY TakeEffect
<1>2. Tiled(heap')
  BY <1>1, TakingKeepsTiled
<1>3. OneMoreBlock(heap, heap', c)
  BY <1>1 DEF IsTaken, OneMoreBlock
<1>4. /\ Cardinality(UsedBytes(heap')) = Cardinality(UsedBytes(heap)) + heap'[c].size
      /\ Cardinality(UsedBytes(heap)) \in Nat
  BY <1>1, <1>2, <1>3, BlockAddsItsBytes DEF Tiled
<1>5. heap'[c].size = heap[c].size /\ heap[c].size \in Nat
  BY <1>1 DEF IsTaken, ChunkList, Chunk
<1>6. Accounts'
  <2>1. DOMAIN heap' = DOMAIN heap
    BY <1>1 DEF IsTaken
  <2> QED BY <1>4, <1>5, <2>1 DEF Accounts, PoolAssumption
<1>7. Placed(heap, heap', c, o, d)
  BY <1>1, <1>3 DEF Placed
<1> QED BY <1>1, <1>2, <1>6, <1>7

(* So does carving the block from the low end of a chunk.                  *)
LEMMA CarveLowPlaces ==
  ASSUME PoolAssumption, ChunkList(heap), Tiled(heap), Accounts,
         NEW c \in DOMAIN heap, NEW need \in Nat \ {0},
         NEW o \in Owners, NEW d \in Data,
         Fits(c, need), CarveLow(c, need, o, d)
  PROVE  /\ ChunkList(heap') /\ Tiled(heap') /\ Accounts'
         /\ Placed(heap, heap', c, o, d)
<1> DEFINE lower == Block(need, heap[c].prev, o, d)
           upper == FreeChunk(heap[c].size - need, c, FALSE)
           cut == c + need
<1>1. /\ c \in Nat /\ c \in Address /\ heap[c] \in Chunk /\ heap[c].size \in Nat
      /\ ~heap[c].used /\ heap[c].size >= need /\ MinSplit \in Nat \ {0}
      /\ heap[c].prev \in Address \cup {Null}
  BY DEF ChunkList, Chunk, Address, Fits, PoolAssumption
<1>2. CASE Splits(c, need)
  <2>1. /\ heap' = MarkLast(Split(c, cut, lower, upper))
        /\ total' = total - need /\ count' = count + 1
        /\ largest' = LargestFree(heap')
    BY <1>2 DEF CarveLow, Carve
  <2>2. heap[c].size - need \in Nat \ {0} /\ cut \in Nat /\ c < cut
        /\ cut < c + heap[c].size /\ cut - c = need /\ c # cut
    BY <1>1, <1>2 DEF Splits
  <2>3. lower \in Chunk /\ upper \in Chunk
    BY <1>1, <2>2, NoneTyped DEF Block, FreeChunk, Chunk
  <2>4. /\ lower.size = cut - c /\ lower.prev = heap[c].prev /\ ~lower.last
        /\ lower.used = TRUE /\ lower.owner = o /\ lower.data = d
        /\ lower.moved = FALSE /\ lower.size = need
        /\ upper.size = c + heap[c].size - cut /\ upper.prev = c
        /\ ~upper.last /\ upper.used = FALSE
    BY <1>1, <2>2 DEF Block, FreeChunk
  <2> HIDE DEF lower, upper, cut
  <2> QED BY <1>1, <2>1, <2>2, <2>3, <2>4, SplitPlaces
<1>3. CASE ~Splits(c, need)
  <2>1. /\ heap' = MarkLast([heap EXCEPT ![c] = Block(@.size, @.prev, o, d)])
        /\ total' = total - heap[c].size /\ count' = count
        /\ largest' = LargestFree(heap')
    BY <1>3 DEF CarveLow, Carve
  <2> QED BY <1>1, <2>1, TakePlaces
<1> QED BY <1>2, <1>3

(* So does carving it from the high end.                                   *)
LEMMA CarveHighPlaces ==
  ASSUME PoolAssumption, ChunkList(heap), Tiled(heap), Accounts,
         NEW c \in DOMAIN heap, NEW need \in Nat \ {0},
         NEW o \in Owners, NEW d \in Data,
         Fits(c, need), CarveHigh(c, need, o, d)
  PROVE  /\ ChunkList(heap') /\ Tiled(heap') /\ Accounts'
         /\ Placed(heap, heap', HighBlock(c, need), o, d)
<1> DEFINE lower == FreeChunk(heap[c].size - need, heap[c].prev, FALSE)
           upper == Block(need, c, o, d)
           cut == NextOf(c) - need
<1>1. /\ c \in Nat /\ c \in Address /\ heap[c] \in Chunk /\ heap[c].size \in Nat
      /\ ~heap[c].used /\ heap[c].size >= need /\ MinSplit \in Nat \ {0}
      /\ heap[c].prev \in Address \cup {Null}
  BY DEF ChunkList, Chunk, Address, Fits, PoolAssumption
<1>2. CASE Splits(c, need)
  <2>1. /\ heap' = MarkLast(Split(c, cut, lower, upper))
        /\ total' = total - need /\ count' = count + 1
        /\ largest' = LargestFree(heap')
        /\ HighBlock(c, need) = cut
    BY <1>2 DEF CarveHigh, Carve, HighBlock
  <2>2. /\ heap[c].size - need \in Nat \ {0} /\ cut \in Nat /\ c < cut
        /\ cut < c + heap[c].size /\ cut - c = heap[c].size - need
        /\ c + heap[c].size - cut = need
    BY <1>1, <1>2 DEF Splits, NextOf
  <2>3. lower \in Chunk /\ upper \in Chunk
    BY <1>1, <2>2, NoneTyped DEF Block, FreeChunk, Chunk
  <2>4. /\ lower.size = cut - c /\ lower.prev = heap[c].prev /\ ~lower.last
        /\ lower.used = FALSE
        /\ upper.size = c + heap[c].size - cut /\ upper.prev = c /\ ~upper.last
        /\ upper.used = TRUE /\ upper.owner = o /\ upper.data = d
        /\ upper.moved = FALSE /\ upper.size = need
    BY <2>2 DEF Block, FreeChunk
  <2>5. cut # c
    BY <1>1, <2>2
  <2> HIDE DEF lower, upper, cut
  <2> QED BY <1>1, <2>1, <2>2, <2>3, <2>4, <2>5, SplitPlaces
<1>3. CASE ~Splits(c, need)
  <2>1. /\ heap' = MarkLast([heap EXCEPT ![c] = Block(@.size, @.prev, o, d)])
        /\ total' = total - heap[c].size /\ count' = count
        /\ largest' = LargestFree(heap')
        /\ HighBlock(c, need) = c
    BY <1>3 DEF CarveHigh, Carve, HighBlock
  <2> QED BY <1>1, <2>1, TakePlaces
<1> QED BY <1>2, <1>3

\* Freeing takes exactly one block away and keeps the accounts.
LEMMA ReleaseUnplaces ==
  ASSUME PoolAssumption, Arena > 0, ChunkList(heap), Tiled(heap), Accounts,
         NEW c \in DOMAIN heap, heap[c].used, Release(c)
  PROVE  /\ ChunkList(heap') /\ Tiled(heap') /\ Accounts'
         /\ OneMoreBlock(heap', heap, c)
         /\ \A a \in DOMAIN heap \ {c} : heap[a].used
              => /\ heap'[a].owner = heap[a].owner
                 /\ heap'[a].data = heap[a].data
                 /\ heap'[a].moved = heap[a].moved
<1> DEFINE base == IF JoinsPrev(c) THEN heap[c].prev ELSE c
           tail == IF JoinsNext(c) THEN NextOf(c) ELSE c
           size == NextOf(tail) - base
           freed == FreeChunk(size, heap[base].prev, heap[tail].last)
           D == (DOMAIN heap \ {c, tail}) \cup {base}
<1>1. /\ \A a \in DOMAIN heap :
           /\ a \in Address /\ a \in Nat /\ heap[a] \in Chunk
           /\ heap[a].size \in Nat /\ heap[a].size > 0
           /\ heap[a].last \in BOOLEAN /\ heap[a].prev \in Address \cup {Null}
      /\ Arena \in Nat
  BY DEF ChunkList, Chunk, Address, PoolAssumption, Tiled, Bounded
<1>2. /\ heap' = [a \in D |-> IF a = base THEN freed
                    ELSE IF a = NextOf(tail) THEN [heap[a] EXCEPT !.prev = base]
                    ELSE heap[a]]
      /\ total' = total + heap[c].size
      /\ count' = count - Cardinality({c, tail} \ {base})
  BY DEF Release
<1>3. /\ base = IF heap[c].prev # Null /\ ~heap[heap[c].prev].used
                THEN heap[c].prev ELSE c
      /\ tail = IF ~heap[c].last /\ ~heap[End(heap, c)].used
                THEN End(heap, c) ELSE c
  BY DEF JoinsPrev, JoinsNext, NextOf, End
<1>4. End(heap, tail) = NextOf(tail)
  BY DEF End, NextOf
<1> HIDE DEF base, tail
<1>5. /\ DOMAIN heap' = D /\ heap'[base] = freed
      /\ \A a \in D \ {base} :
           heap'[a] = IF a = NextOf(tail) THEN [heap[a] EXCEPT !.prev = base]
                                          ELSE heap[a]
  BY <1>2
<1>6. \A a \in D \ {base} :
        /\ a \in DOMAIN heap
        /\ heap'[a].size = heap[a].size /\ heap'[a].used = heap[a].used
        /\ heap'[a].last = heap[a].last /\ heap'[a].owner = heap[a].owner
        /\ heap'[a].data = heap[a].data /\ heap'[a].moved = heap[a].moved
        /\ heap'[a].prev = IF a = NextOf(tail) THEN base ELSE heap[a].prev
  <2> SUFFICES ASSUME NEW a \in D \ {base}
      PROVE /\ a \in DOMAIN heap
            /\ heap'[a].size = heap[a].size /\ heap'[a].used = heap[a].used
            /\ heap'[a].last = heap[a].last /\ heap'[a].owner = heap[a].owner
            /\ heap'[a].data = heap[a].data /\ heap'[a].moved = heap[a].moved
            /\ heap'[a].prev = IF a = NextOf(tail) THEN base ELSE heap[a].prev
    OBVIOUS
  <2>1. a \in DOMAIN heap /\ heap[a] \in Chunk
    BY <1>1
  <2>2. heap'[a] = IF a = NextOf(tail) THEN [heap[a] EXCEPT !.prev = base]
                                       ELSE heap[a]
    BY <1>5
  <2> QED BY <2>1, <2>2 DEF Chunk
<1>7. /\ heap'[base].size = End(heap, tail) - base
      /\ heap'[base].used = FALSE /\ heap'[base].prev = heap[base].prev
      /\ heap'[base].last = heap[tail].last
  BY <1>4, <1>5 DEF FreeChunk
<1>8. IsRelease(heap, heap', c, base, tail)
  <2>1. DOMAIN heap' = (DOMAIN heap \ {c, tail}) \cup {base}
    BY <1>5
  <2>2. \A a \in DOMAIN heap' \ {base} :
          /\ heap'[a].size = heap[a].size /\ heap'[a].used = heap[a].used
          /\ heap'[a].last = heap[a].last
          /\ heap'[a].prev = IF a = End(heap, tail) THEN base ELSE heap[a].prev
    BY <1>4, <1>5, <1>6
  <2> QED BY <1>3, <1>7, <2>1, <2>2 DEF IsRelease
<1>9. /\ base \in DOMAIN heap /\ tail \in DOMAIN heap /\ base <= c /\ c <= tail
      /\ base = c \/ (base + heap[base].size = c /\ ~heap[base].used)
      /\ tail = c \/ (c + heap[c].size = tail /\ ~heap[tail].used)
  BY <1>8, ReleaseNeighbours
<1>10. ChunkList(heap')
  <2>1. D \subseteq Address
    BY <1>1, <1>9
  <2>2. \A a \in D : heap'[a] \in Chunk
    <3>1. size \in Nat
      BY <1>1, <1>9 DEF NextOf
    <3>2. freed \in Chunk
      BY <1>1, <1>9, <3>1, NoneTyped DEF FreeChunk, Chunk
    <3>3. ASSUME NEW a \in D \ {base} PROVE heap'[a] \in Chunk
      <4>1. heap[a] \in Chunk /\ base \in Address
        BY <1>1, <1>6, <1>9
      <4>2. [heap[a] EXCEPT !.prev = base] \in Chunk
        BY <4>1 DEF Chunk
      <4> QED BY <1>5, <4>1, <4>2
    <3> QED BY <1>5, <3>2, <3>3
  <2>3. heap' = [a \in D |-> heap'[a]]
    BY <1>2
  <2> QED BY <1>5, <2>1, <2>2, <2>3 DEF ChunkList
<1>11. Tiled(heap')
  BY <1>8, <1>10, ReleaseKeepsTiled
<1>12. OneMoreBlock(heap', heap, c)
  <2>1. ASSUME NEW a \in DOMAIN heap \ {c}, heap[a].used
        PROVE  a \in D \ {base} /\ heap'[a].used /\ heap'[a].size = heap[a].size
    <3>1. a # base /\ a # tail
      BY <1>9, <2>1
    <3> QED BY <1>6, <2>1, <3>1
  <2>2. ASSUME NEW a \in D, heap'[a].used
        PROVE  a \in DOMAIN heap \ {c} /\ heap[a].used /\ heap[a].size = heap'[a].size
    <3>1. a # base
      BY <1>7, <2>2
    <3>2. a # c
      BY <2>2, <3>1
    <3> QED BY <1>6, <2>2, <3>1, <3>2
  <2> QED BY <1>5, <2>1, <2>2 DEF OneMoreBlock
<1>13. total' = Arena - Cardinality(UsedBytes(heap'))
  <2>1. /\ Cardinality(UsedBytes(heap)) = Cardinality(UsedBytes(heap')) + heap[c].size
        /\ Cardinality(UsedBytes(heap')) \in Nat
    BY <1>10, <1>12, BlockAddsItsBytes DEF Tiled
  <2> QED BY <1>1, <1>2, <2>1 DEF Accounts
<1>14. count' = Cardinality(DOMAIN heap')
  <2> DEFINE T == {c, tail} \ {base}
  <2>1. IsFiniteSet(DOMAIN heap)
    BY ListIsFinite
  <2>2. T \subseteq DOMAIN heap /\ D = DOMAIN heap \ T
    BY <1>9
  <2>3. DOMAIN heap \cap T = T
    BY <2>2
  <2>4. Cardinality(DOMAIN heap \ T)
          = Cardinality(DOMAIN heap) - Cardinality(DOMAIN heap \cap T)
    BY <2>1, FS_Difference
  <2> QED BY <1>2, <1>5, <2>2, <2>3, <2>4 DEF Accounts
<1>15. ASSUME NEW a \in DOMAIN heap \ {c}, heap[a].used
       PROVE  /\ heap'[a].owner = heap[a].owner /\ heap'[a].data = heap[a].data
              /\ heap'[a].moved = heap[a].moved
  <2>1. a # base /\ a # tail
    BY <1>9, <1>15
  <2> QED BY <1>6, <1>15, <2>1
<1>16. largest' = LargestFree(heap')
  <2>1. largest' = IF largest <= size THEN size ELSE largest
    BY DEF Release, base, tail
  <2>2. /\ FreeSizes(heap) \subseteq Nat /\ largest \in FreeSizes(heap)
        /\ \A n \in FreeSizes(heap) : n <= largest
    BY LargestFreeExists DEF Accounts, Tiled
  <2>3. /\ size \in Nat /\ size > 0 /\ heap'[base].size = size
        /\ heap[base].size <= size /\ heap[tail].size <= size
    BY <1>1, <1>4, <1>7, <1>9 DEF NextOf
  <2>4. base \in D /\ size \in FreeSizes(heap')
    BY <1>5, <1>7, <2>3 DEF FreeSizes
  <2>5. \A n \in FreeSizes(heap') : n = size \/ n \in FreeSizes(heap)
    <3> SUFFICES ASSUME NEW a \in D, ~heap'[a].used, a # base
                 PROVE  heap'[a].size \in FreeSizes(heap)
      BY <1>5, <2>3 DEF FreeSizes
    <3> QED BY <1>6 DEF FreeSizes
  <2>6. \A n \in FreeSizes(heap) : n <= size \/ n \in FreeSizes(heap')
    <3> SUFFICES ASSUME NEW a \in DOMAIN heap, ~heap[a].used,
                        ~(heap[a].size <= size)
                 PROVE  heap[a].size \in FreeSizes(heap')
      BY <2>3 DEF FreeSizes
    <3>1. a \in D \ {base}
      BY <2>3
    <3>2. heap'[a].size = heap[a].size /\ ~heap'[a].used
      BY <1>6, <3>1
    <3> QED BY <1>5, <3>1, <3>2 DEF FreeSizes
  <2>7. largest' \in FreeSizes(heap') /\ \A n \in FreeSizes(heap') : n <= largest'
    BY <2>1, <2>2, <2>3, <2>4, <2>5, <2>6
  <2> QED BY <1>10, <1>11, <2>7, LargestFreeIs DEF Tiled
<1>17. Accounts'
  BY <1>13, <1>14, <1>16 DEF Accounts
<1> QED BY Zenon, <1>10, <1>11, <1>12, <1>15, <1>17

-----------------------------------------------------------------------------
\* pool_init lays down one free chunk that fills the arena.
LEMMA InitialChunks ==
  ASSUME PoolAssumption, Arena > 0, InitChunks
  PROVE  /\ ChunkList(heap) /\ Tiled(heap) /\ Accounts
         /\ \A a \in DOMAIN heap : ~heap[a].used
<1>1. heap = [a \in {0} |-> FreeChunk(Arena, Null, TRUE)]
  BY DEF InitChunks
<1>2. /\ DOMAIN heap = {0} /\ heap[0] = FreeChunk(Arena, Null, TRUE)
      /\ heap = [a \in {0} |-> heap[a]]
  BY <1>1
<1>n. Arena \in Nat /\ Arena > 0
  BY DEF PoolAssumption
<1>3. heap[0] \in Chunk /\ heap[0].size = Arena /\ ~heap[0].used
      /\ heap[0].prev = Null /\ heap[0].last = TRUE
  BY <1>2, <1>n, NoneTyped DEF FreeChunk, Chunk
<1>4. ChunkList(heap)
  <2>1. DOMAIN heap \subseteq Address
    BY <1>2, <1>n DEF Address
  <2>2. heap \in [{0} -> Chunk]
    BY <1>2, <1>3
  <2> QED BY Zenon, <1>2, <2>1, <2>2 DEF ChunkList
<1>5. Tiled(heap)
  <2> DEFINE size == heap[0].size
             D == DOMAIN heap
  <2>1. D = {0} /\ size = Arena
    BY <1>2, <1>3
  <2>2. Bounded(heap) /\ Disjoint(heap) /\ LastMarked(heap)
    BY <2>1, <1>3, <1>n DEF Bounded, Disjoint, LastMarked, End
  <2>3. Covers(heap)
    BY <2>1, <1>n DEF Covers, Over, End
  <2>4. BackLinked(heap)
    BY <2>1, <1>3 DEF BackLinked
  <2>5. Coalesced(heap)
    BY <2>1, <1>n DEF Coalesced, End
  <2> QED BY <2>2, <2>3, <2>4, <2>5 DEF Tiled
<1>6. UsedBytes(heap) = {}
  BY <1>2, <1>3 DEF UsedBytes
<1>7. Cardinality(UsedBytes(heap)) = 0 /\ Cardinality(DOMAIN heap) = 1
  BY <1>2, <1>6, FS_EmptySet, FS_Singleton
<1>8. FreeSizes(heap) = {Arena, 0}
  BY <1>2, <1>3 DEF FreeSizes
<1>9. LargestFree(heap) = Arena
  <2>1. Arena \in FreeSizes(heap) /\ \A m \in FreeSizes(heap) : m <= Arena
    BY <1>n, <1>8
  <2>2. Bounded(heap)
    BY <1>5 DEF Tiled
  <2> QED BY <1>4, <2>1, <2>2, LargestFreeIs
<1>10. Accounts
  BY <1>n, <1>7, <1>9 DEF Accounts, InitChunks
<1> QED BY <1>2, <1>3, <1>4, <1>5, <1>10
=============================================================================
