-------------------------- MODULE DasCache_proofs --------------------------
(***************************************************************************)
(* Proofs about DasCache: the status table, the slots, the pool and the    *)
(* descriptors agree in every step of every loop, and eviction and the     *)
(* flat colour are the last resort.                                        *)
(***************************************************************************)
EXTENDS DasCache, FiniteSetTheorems, WellFoundedInduction, TLAPS

-----------------------------------------------------------------------------
(* The invariant.                                                           *)

\* A live block of the pool.
Blocks == [of : Index \cup {Client}, size : Nat, sels : SUBSET Sels, second : Handle \cup {None}]

CacheTypes ==
  /\ status \in [Index -> Slot \cup {Flat, Unloaded}]
  /\ slots \in [Slot -> [handle : Handle \cup {None}, tick : 0..Wrap - 1]]
  /\ tick \in 0..Wrap - 1 /\ ldt \subseteq Sels
  /\ DOMAIN pool \subseteq Handle /\ pool \in [DOMAIN pool -> Blocks]
  /\ trust \in {"exact", "leaky", "stray"} /\ locked \in BOOLEAN
  /\ req \in [index : Index \cup {Client}, face : BOOLEAN]

\* The handle of a slot that is taken.
Taken(s) == slots[s].handle # None
Second(h) == pool[h].second

\* The pool is the slots' blocks, a decode block for some of them, and at
\* most one block of another client.
PoolShape ==
  /\ \A s \in Slot : Taken(s) => /\ slots[s].handle \in DOMAIN pool
                                 /\ pool[slots[s].handle].of \in Index
  /\ \A s, t \in Slot : Taken(s) /\ slots[s].handle = slots[t].handle => s = t
  /\ \A h \in DOMAIN pool : Second(h) # None =>
       /\ \E s \in Slot : slots[s].handle = h
       /\ Second(h) \in DOMAIN pool /\ pool[Second(h)].of \in Index
       /\ Second(Second(h)) = None
       /\ \A s \in Slot : slots[s].handle # Second(h)
  /\ \A h, k \in DOMAIN pool : Second(h) # None /\ Second(h) = Second(k) => h = k
  /\ \A h \in DOMAIN pool : pool[h].of # Client =>
       \/ \E s \in Slot : slots[s].handle = h
       \/ \E k \in DOMAIN pool : Second(k) = h
  /\ \A h \in DOMAIN pool : pool[h].of = Client => pool[h].sels = {}
  /\ \A h, k \in DOMAIN pool : pool[h].of = Client /\ pool[k].of = Client => h = k

\* The descriptors are those of the blocks, and every decode block has one.
SelShape ==
  trust # "stray" =>
    /\ \A h \in DOMAIN pool : pool[h].sels \subseteq ldt
    /\ trust = "exact" => \A x \in ldt : \E h \in DOMAIN pool : x \in pool[h].sels
    /\ \A h, k \in DOMAIN pool : h # k => pool[h].sels \cap pool[k].sels = {}
    /\ \A h \in DOMAIN pool : Second(h) # None => pool[Second(h)].sels # {}

Named(s) == \E i \in Index : status[i] = s

\* The status table names taken slots by the index of their block, and names
\* all of them but that of the block being loaded.
TableShape ==
  /\ \A i \in Index : status[i] \in Slot =>
       Taken(status[i]) /\ pool[slots[status[i]].handle].of = i
  /\ \A s \in Slot : Taken(s) => Named(s) \/ (main # None /\ slots[s].handle = main)

\* The slot of the block being loaded.
LoadSlot == IF pc \in {"room", "take"} THEN room.saved ELSE cur

Loads == {"load", "reserve", "alloc", "read", "post"}

\* The block being loaded has neither a name nor a descriptor yet, and is of
\* this frame.
LoadShape ==
  main # None =>
    /\ LoadSlot \in Slot /\ slots[LoadSlot].handle = main /\ slots[LoadSlot].tick = tick
    /\ ~Named(LoadSlot) /\ pool[main].of = req.index
    /\ pool[main].sels = {} /\ Second(main) = None

Phases ==
  /\ pc \in {"idle", "look", "load", "reserve", "alloc", "read", "post", "room", "take"}
  /\ pc = "idle" => cur = None /\ main = None /\ pin = None /\ req = NoRequest
  /\ pc = "look" => main = None /\ pin = None /\ req.index \in Index
  /\ pc \in Loads => pin = None /\ req.index \in Index
  /\ pc \in {"load", "reserve", "alloc"} => main = None
  /\ pc = "alloc" => cur \in Slot /\ ~Taken(cur)
  /\ pc \in {"read", "post"} => main # None
  /\ pc \in {"room", "take"} => room.need \in Nat /\ pin = main
  /\ pc \in {"room", "take"} /\ main # None => req.index \in Index
  /\ pc \in {"room", "take"} /\ main = None =>
       req = NoRequest /\ \A h \in DOMAIN pool : pool[h].of # Client
  /\ pc \in Loads \/ (pc \in {"room", "take"} /\ main # None) => status[req.index] \notin Slot

DasInv == CacheTypes /\ PoolShape /\ SelShape /\ TableShape /\ LoadShape /\ Phases

-----------------------------------------------------------------------------
(* Least and oldest.                                                        *)

(* The values that stand for nothing are none of what they stand beside.    *)
LEMMA Nothings ==
  /\ None \notin Handle /\ None \notin Slot
  /\ Flat \notin Slot /\ Unloaded \notin Slot /\ Flat # Unloaded
  /\ Client \notin Index /\ Slot \subseteq Nat /\ Handle \subseteq Nat
  /\ Wrap \in Nat /\ Wrap > 1 /\ Slots \in Nat
BY DasCacheAssumption DEF None, Handle, Slot, Flat, Unloaded, Index

(* A set of numbers that is not empty has a least one, which is its Min.    *)
LEMMA MinIsLeast ==
  ASSUME NEW T \in SUBSET Nat, T # {}
  PROVE  Min(T) \in T /\ \A m \in T : Min(T) <= m
<1>1. PICK n \in T : \A m \in T : ~(<<m, n>> \in OpToRel(<, Nat))
  BY NatLessThanWellFounded, WFMin
<1>2. \A m \in T : ~(m < n)
  BY <1>1 DEF OpToRel
<1>3. \A m \in T : n <= m
  BY <1>2
<1> QED
  BY <1>3 DEF Min

(* A bounded one has a greatest.                                            *)
LEMMA BoundedHasGreatest ==
  ASSUME NEW b \in Nat, NEW T \in SUBSET (0..b), T # {}
  PROVE  \E n \in T : \A m \in T : m <= n
<1> DEFINE U == {x \in 0..b : b - x \in T}
<1>1. U \in SUBSET Nat /\ U # {}
  <2>1. PICK n \in T : TRUE
    OBVIOUS
  <2>2. b - n \in 0..b /\ b - (b - n) = n
    OBVIOUS
  <2>3. b - n \in U
    BY <2>1, <2>2
  <2>4. U \in SUBSET Nat
    OBVIOUS
  <2> QED
    BY <2>3, <2>4
<1>2. Min(U) \in U /\ \A m \in U : Min(U) <= m
  BY <1>1, MinIsLeast
<1>3. ASSUME NEW m \in T PROVE m <= b - Min(U)
  <2>1. b - m \in U
    <3>1. b - m \in 0..b /\ b - (b - m) = m
      OBVIOUS
    <3> QED
      BY <3>1
  <2>2. Min(U) <= b - m /\ Min(U) \in 0..b
    BY <1>2, <2>1
  <2> QED
    BY <2>2
<1>4. b - Min(U) \in T
  BY <1>2
<1> QED
  BY <1>3, <1>4

(* The age of a slot is a number of frames below the wrap.                  *)
LEMMA AgeIsBounded ==
  ASSUME CacheTypes, NEW s \in Slot
  PROVE  Age(s) \in 0..Wrap - 1
<1>1. slots[s].tick \in 0..Wrap - 1 /\ tick \in 0..Wrap - 1
  BY DEF CacheTypes
<1>2. Wrap \in Nat /\ Wrap > 0
  BY Nothings
<1> QED
  BY <1>1, <1>2 DEF Age

(* The scan for a victim finds one of the candidates.                       *)
LEMMA VictimIsOne ==
  ASSUME CacheTypes, NEW forbid \in BOOLEAN, Victims(forbid) # {}
  PROVE  Victim(forbid) \in Victims(forbid)
<1> DEFINE V == Victims(forbid)
           A == {Age(s) : s \in V}
<1>0. V \subseteq Slot /\ V # {}
  BY DEF Victims
<1> HIDE DEF V
<1>1. \A s \in V : Age(s) \in 0..Wrap - 1
  BY <1>0, AgeIsBounded
<1>2. A \in SUBSET (0..Wrap - 1) /\ A # {} /\ Wrap - 1 \in Nat
  <2>1. A \in SUBSET (0..Wrap - 1)
    BY <1>1
  <2>2. A # {}
    BY <1>0
  <2>3. Wrap - 1 \in Nat
    BY Nothings
  <2> QED
    BY <2>1, <2>2, <2>3
<1>3. PICK a \in A : \A m \in A : m <= a
  BY <1>2, BoundedHasGreatest
<1> DEFINE O == {s \in V : Age(s) = a}
<1>4. O \in SUBSET (0..Slots) /\ O # {} /\ Slots \in Nat
  BY <1>0, <1>3, Nothings DEF Slot
<1>5. PICK s \in O : \A t \in O : t <= s
  BY <1>4, BoundedHasGreatest
<1>6. ASSUME NEW t \in V PROVE Age(t) < Age(s) \/ (Age(t) = Age(s) /\ t <= s)
  <2>1. Age(t) <= a /\ Age(s) = a /\ Age(t) \in Int /\ a \in Int
    BY <1>1, <1>3, <1>5
  <2>2. CASE Age(t) = a
    BY <1>5, <2>1, <2>2
  <2>3. CASE Age(t) # a
    BY <2>1, <2>3
  <2> QED
    BY <2>2, <2>3
<1>7. s \in V
  BY <1>5
<1>8. \E q \in V : \A t \in V : Age(t) < Age(q) \/ (Age(t) = Age(q) /\ t <= q)
  BY <1>6, <1>7
<1>9. Victim(forbid) = CHOOSE q \in V : \A t \in V : Age(t) < Age(q) \/ (Age(t) = Age(q) /\ t <= q)
  BY DEF Victim, V
<1>10. Victim(forbid) \in V
  BY <1>8, <1>9
<1> QED
  BY <1>10 DEF V

(* So many descriptors can be picked from those that are spare.             *)
LEMMA MintedIsSpare ==
  ASSUME NEW n \in Nat, Cardinality(Spare) >= n
  PROVE  Minted(n) \subseteq Spare /\ Cardinality(Minted(n)) = n
<1>1. IsFiniteSet(Spare)
  BY DasCacheAssumption, FS_Subset DEF Spare
<1> DEFINE c == Cardinality(Spare)
<1>2. c \in Nat /\ ExistsBijection(1..c, Spare)
  BY <1>1, FS_CardinalityType
<1>3. PICK f \in Bijection(1..c, Spare) : TRUE
  BY <1>2 DEF ExistsBijection
<1>4. /\ f \in [1..c -> Spare] /\ (\A a, b \in 1..c : f[a] = f[b] => a = b)
      /\ n \in Nat /\ n <= c /\ c \in Nat
  BY <1>2, <1>3 DEF Bijection, Injection, IsInjective
<1> HIDE DEF c
<1> DEFINE T == {f[a] : a \in 1..n}
           g == [a \in 1..n |-> f[a]]
<1>5. T \subseteq Spare /\ 1..n \subseteq 1..c
  BY <1>4
<1>6. g \in Bijection(1..n, T)
  <2>1. g \in [1..n -> T]
    OBVIOUS
  <2>2. \A a, b \in 1..n : g[a] = g[b] => a = b
    BY <1>4, <1>5
  <2>3. \A t \in T : \E a \in 1..n : g[a] = t
    OBVIOUS
  <2> QED
    BY <2>1, <2>2, <2>3 DEF Bijection, Injection, IsInjective, Surjection
<1>7. ExistsBijection(1..n, T)
  BY <1>6 DEF ExistsBijection
<1>8. Cardinality(T) = n
  BY <1>4, <1>7, FS_CountingElements
<1>9. \E S \in SUBSET Spare : Cardinality(S) = n
  BY <1>5, <1>8
<1> QED
  BY <1>9 DEF Minted

-----------------------------------------------------------------------------
(* A handle for a new block.                                                *)

(* There are two handles for each slot and one for another client, so one   *)
(* is left while a slot, a decode block or the client lacks its own.        *)
LEMMA FreshHandle ==
  ASSUME CacheTypes, PoolShape,
         \/ \E s \in Slot : ~Taken(s)
         \/ \E s \in Slot : Taken(s) /\ Second(slots[s].handle) = None
         \/ \A h \in DOMAIN pool : pool[h].of # Client
  PROVE  NewHandle \in Handle /\ NewHandle \notin DOMAIN pool /\ NewHandle # None
<1> DEFINE Owns(s, h) == slots[s].handle = h
           Pairs(s, h) == Taken(s) /\ Second(slots[s].handle) = h
           owner(h) == CHOOSE s \in Slot : Owns(s, h)
           pair(h) == CHOOSE s \in Slot : Pairs(s, h)
           f == [h \in Handle |-> IF pool[h].of = Client THEN 2 * Slots + 1
                                  ELSE IF \E s \in Slot : Owns(s, h) THEN owner(h)
                                  ELSE Slots + pair(h)]
<1>0. Slots \in Nat /\ Slot = 1..Slots /\ Handle = 1..2 * Slots + 1 /\ None = 0
  BY Nothings DEF Slot, Handle, None
<1>1. ASSUME DOMAIN pool = Handle PROVE FALSE
  <2>1. \A h \in Handle : \/ pool[h].of = Client
                          \/ \E s \in Slot : Owns(s, h)
                          \/ \E s \in Slot : Pairs(s, h)
    <3> SUFFICES ASSUME NEW h \in Handle, pool[h].of # Client,
                        ~ \E s \in Slot : Owns(s, h)
                 PROVE  \E s \in Slot : Pairs(s, h)
      OBVIOUS
    <3>1. PICK k \in DOMAIN pool : Second(k) = h
      BY <1>1 DEF PoolShape
    <3>2. h # None
      BY <1>0
    <3>3. PICK s \in Slot : slots[s].handle = k
      BY <3>1, <3>2 DEF PoolShape
    <3>4. k # None
      BY <1>0, <1>1
    <3> QED
      BY <3>1, <3>3, <3>4 DEF Taken
  <2>2. \A h \in Handle : (\E s \in Slot : Owns(s, h)) =>
          owner(h) \in Slot /\ Owns(owner(h), h)
    OBVIOUS
  <2>3. \A h \in Handle : (\E s \in Slot : Pairs(s, h)) =>
          pair(h) \in Slot /\ Pairs(pair(h), h)
    OBVIOUS
  <2>4. \A h, k \in Handle : pool[h].of = Client /\ pool[k].of = Client => h = k
    BY <1>1 DEF PoolShape
  <2> HIDE DEF Owns, Pairs
  <2> HIDE DEF owner, pair
  <2>5. f \in [Handle -> Handle]
    <3> SUFFICES ASSUME NEW h \in Handle PROVE f[h] \in Handle
      OBVIOUS
    <3>1. CASE pool[h].of = Client
      BY <1>0, <3>1
    <3>2. CASE pool[h].of # Client /\ \E s \in Slot : Owns(s, h)
      <4>1. f[h] = owner(h)
        BY <3>2
      <4>2. owner(h) \in Slot
        BY <2>2, <3>2
      <4> QED
        BY <1>0, <4>1, <4>2
    <3>3. CASE pool[h].of # Client /\ ~ \E s \in Slot : Owns(s, h)
      <4>1. f[h] = Slots + pair(h)
        BY <3>3
      <4>2. pair(h) \in Slot
        BY <2>1, <2>3, <3>3
      <4> QED
        BY <1>0, <4>1, <4>2
    <3> QED
      BY <3>1, <3>2, <3>3
  <2>6. \A h \in Handle :
          \/ f[h] = 2 * Slots + 1 /\ pool[h].of = Client
          \/ f[h] \in Slot /\ Owns(f[h], h)
          \/ f[h] \in Slots + 1..2 * Slots /\ Pairs(f[h] - Slots, h)
    <3> SUFFICES ASSUME NEW h \in Handle
                 PROVE  \/ f[h] = 2 * Slots + 1 /\ pool[h].of = Client
                        \/ f[h] \in Slot /\ Owns(f[h], h)
                        \/ f[h] \in Slots + 1..2 * Slots /\ Pairs(f[h] - Slots, h)
      OBVIOUS
    <3>1. CASE pool[h].of = Client
      BY <3>1
    <3>2. CASE pool[h].of # Client /\ \E s \in Slot : Owns(s, h)
      BY <2>2, <3>2
    <3>3. CASE pool[h].of # Client /\ ~ \E s \in Slot : Owns(s, h)
      <4>1. f[h] = Slots + pair(h)
        BY <3>3
      <4>2. pair(h) \in Slot /\ Pairs(pair(h), h)
        BY <2>1, <2>3, <3>3
      <4>3. f[h] \in Slots + 1..2 * Slots /\ f[h] - Slots = pair(h)
        BY <1>0, <4>1, <4>2
      <4> QED
        BY <4>2, <4>3
    <3> QED
      BY <3>1, <3>2, <3>3
  <2> HIDE DEF f
  <2>7. \A h, k \in Handle : f[h] = f[k] => h = k
    <3> SUFFICES ASSUME NEW h \in Handle, NEW k \in Handle, f[h] = f[k] PROVE h = k
      OBVIOUS
    <3>1. CASE f[h] = 2 * Slots + 1
      <4>1. f[h] \notin Slot /\ f[h] \notin Slots + 1..2 * Slots
        BY <1>0, <3>1
      <4>2. pool[h].of = Client /\ pool[k].of = Client
        BY <2>6, <4>1
      <4> QED
        BY <2>4, <4>2
    <3>2. CASE f[h] \in Slot
      <4>1. f[h] # 2 * Slots + 1 /\ f[h] \notin Slots + 1..2 * Slots
        BY <1>0, <3>2
      <4>2. Owns(f[h], h) /\ Owns(f[h], k)
        BY <2>6, <4>1
      <4> QED
        BY <4>2 DEF Owns
    <3>3. CASE f[h] \in Slots + 1..2 * Slots
      <4>1. f[h] # 2 * Slots + 1 /\ f[h] \notin Slot
        BY <1>0, <3>3
      <4>2. Pairs(f[h] - Slots, h) /\ Pairs(f[h] - Slots, k)
        BY <2>6, <4>1
      <4> QED
        BY <4>2 DEF Pairs
    <3> QED
      BY <2>6, <3>1, <3>2, <3>3
  <2>8. f \in Surjection(Handle, Handle)
    <3>1. f \in Injection(Handle, Handle)
      BY <2>5, <2>7 DEF Injection, IsInjective
    <3>2. IsFiniteSet(Handle)
      BY <1>0, FS_Interval
    <3> QED
      BY <3>1, <3>2, FS_Injection
  <2>9. \A x \in Handle : \E h \in Handle : f[h] = x
    BY <2>8 DEF Surjection
  <2>10. CASE \E s \in Slot : ~Taken(s)
    <3>1. PICK s \in Slot : ~Taken(s)
      BY <2>10
    <3>2. s \in Handle /\ s # 2 * Slots + 1 /\ s \notin Slots + 1..2 * Slots
      BY <1>0
    <3>3. PICK h \in Handle : f[h] = s
      BY <2>9, <3>2
    <3>4. Owns(s, h) /\ h # None
      BY <1>0, <2>6, <3>2, <3>3
    <3> QED
      BY <3>1, <3>4 DEF Taken, Owns
  <2>11. CASE \E s \in Slot : Taken(s) /\ Second(slots[s].handle) = None
    <3>1. PICK s \in Slot : Taken(s) /\ Second(slots[s].handle) = None
      BY <2>11
    <3>2. /\ Slots + s \in Handle /\ Slots + s # 2 * Slots + 1 /\ Slots + s \notin Slot
          /\ (Slots + s) - Slots = s
      BY <1>0
    <3>3. PICK h \in Handle : f[h] = Slots + s
      BY <2>9, <3>2
    <3>4. Pairs(s, h) /\ h # None
      BY <1>0, <2>6, <3>2, <3>3
    <3> QED
      BY <3>1, <3>4 DEF Pairs
  <2>12. CASE \A h \in DOMAIN pool : pool[h].of # Client
    <3>1. /\ 2 * Slots + 1 \in Handle /\ 2 * Slots + 1 \notin Slot
          /\ 2 * Slots + 1 \notin Slots + 1..2 * Slots
      BY <1>0
    <3>2. PICK h \in Handle : f[h] = 2 * Slots + 1
      BY <2>9, <3>1
    <3>3. pool[h].of = Client
      BY <2>6, <3>1, <3>2
    <3> QED
      BY <1>1, <2>12, <3>3
  <2> QED
    BY <2>10, <2>11, <2>12
<1>2. Handle \ DOMAIN pool # {} /\ Handle \ DOMAIN pool \in SUBSET Nat
  BY <1>1, Nothings DEF CacheTypes
<1>3. NewHandle \in Handle \ DOMAIN pool
  BY <1>2, MinIsLeast DEF NewHandle
<1> QED
  BY <1>3, Nothings

-----------------------------------------------------------------------------
(* Freeing slots.                                                           *)

\* The blocks of the slots ss and their decode blocks.
Freed(ss) ==
  {slots[s].handle : s \in ss} \cup UNION {SecondOf(h) : h \in {slots[s].handle : s \in ss}}

(* What is left of the pool is what it was.                                 *)
LEMMA WithoutKeeps ==
  ASSUME CacheTypes, NEW hs, pool' = Without(hs)
  PROVE  /\ DOMAIN pool' = DOMAIN pool \ hs
         /\ \A h \in DOMAIN pool' : pool'[h] = pool[h]
         /\ DOMAIN pool' \subseteq Handle /\ pool' \in [DOMAIN pool' -> Blocks]
<1>1. pool' = [h \in DOMAIN pool \ hs |-> pool[h]]
  BY DEF Without, Restrict
<1>2. DOMAIN pool \subseteq Handle /\ \A h \in DOMAIN pool : pool[h] \in Blocks
  BY DEF CacheTypes
<1> QED
  BY <1>1, <1>2

(* A handle that was freed is that of a freed slot or of its decode block.  *)
LEMMA FreedHandles ==
  ASSUME CacheTypes, PoolShape, NEW ss \in SUBSET Slot, \A s \in ss : Taken(s), NEW h
  PROVE  h \in Freed(ss) <=> \/ \E s \in ss : slots[s].handle = h
                             \/ \E s \in ss : Second(slots[s].handle) = h /\ h # None
<1> DEFINE mains == {slots[s].handle : s \in ss}
<1>1. h \in mains <=> \E s \in ss : slots[s].handle = h
  OBVIOUS
<1>2. h \in UNION {SecondOf(m) : m \in mains} <=> \E m \in mains : h \in SecondOf(m)
  OBVIOUS
<1>3. \A m : h \in SecondOf(m) <=> Second(m) = h /\ h # None
  BY DEF SecondOf, Second
<1>4. (\E m \in mains : Second(m) = h /\ h # None)
        <=> \E s \in ss : Second(slots[s].handle) = h /\ h # None
  OBVIOUS
<1>5. Freed(ss) = mains \cup UNION {SecondOf(m) : m \in mains}
  BY DEF Freed
<1> HIDE DEF mains
<1> QED
  BY <1>1, <1>2, <1>3, <1>4, <1>5

(* Freeing slots with their decode blocks leaves a pool of the same shape.  *)
LEMMA FreeingKeepsShape ==
  ASSUME CacheTypes, PoolShape, NEW ss \in SUBSET Slot, \A s \in ss : Taken(s),
         pool' = Without(Freed(ss)),
         \A s \in Slot : slots'[s].handle = IF s \in ss THEN None ELSE slots[s].handle
  PROVE  PoolShape'
<1> DEFINE Gone(h) == h \in Freed(ss)
<1>1. /\ DOMAIN pool' = DOMAIN pool \ Freed(ss)
      /\ \A h \in DOMAIN pool' : pool'[h] = pool[h]
  BY WithoutKeeps
<1>2. \A h : Gone(h) <=> \/ \E s \in ss : slots[s].handle = h
                         \/ \E s \in ss : Second(slots[s].handle) = h /\ h # None
  BY FreedHandles
<1>3. \A h \in DOMAIN pool' : h \in DOMAIN pool /\ ~Gone(h)
  BY <1>1
<1>4. \A s \in Slot : Taken(s)' => Taken(s) /\ s \notin ss /\ slots'[s].handle = slots[s].handle
  BY DEF Taken
<1>5. \A s \in Slot : Taken(s)' => ~Gone(slots[s].handle)
  <2> SUFFICES ASSUME NEW s \in Slot, Taken(s)', Gone(slots[s].handle) PROVE FALSE
    OBVIOUS
  <2>1. Taken(s) /\ s \notin ss
    BY <1>4
  <2>2. \A t \in ss : slots[t].handle # slots[s].handle
    BY <2>1 DEF PoolShape
  <2>3. PICK t \in ss : Second(slots[t].handle) = slots[s].handle
    BY <1>2, <2>2
  <2>4. slots[t].handle \in DOMAIN pool /\ Second(slots[t].handle) # None
    BY <2>1, <2>3 DEF PoolShape, Taken
  <2> QED
    BY <2>3, <2>4 DEF PoolShape
<1>6. \A h \in DOMAIN pool' : Second(h)' = Second(h)
  BY <1>1 DEF Second
<1> HIDE DEF Gone
<1>7. \A s \in Slot : Taken(s)' => /\ slots'[s].handle \in DOMAIN pool'
                                   /\ pool'[slots'[s].handle].of \in Index
  <2> SUFFICES ASSUME NEW s \in Slot, Taken(s)'
               PROVE  slots'[s].handle \in DOMAIN pool' /\ pool'[slots'[s].handle].of \in Index
    OBVIOUS
  <2>1. slots'[s].handle = slots[s].handle /\ ~Gone(slots[s].handle) /\ Taken(s)
    BY <1>4, <1>5
  <2>2. slots[s].handle \in DOMAIN pool /\ pool[slots[s].handle].of \in Index
    BY <2>1 DEF PoolShape
  <2>3. slots[s].handle \in DOMAIN pool'
    BY <1>1, <2>1, <2>2 DEF Gone
  <2> QED
    BY <1>1, <2>1, <2>2, <2>3
<1>8. \A s, t \in Slot : Taken(s)' /\ slots'[s].handle = slots'[t].handle => s = t
  <2> SUFFICES ASSUME NEW s \in Slot, NEW t \in Slot, Taken(s)', slots'[s].handle = slots'[t].handle
               PROVE  s = t
    OBVIOUS
  <2>1. Taken(t)'
    BY DEF Taken
  <2>2. Taken(s) /\ slots[s].handle = slots[t].handle
    BY <1>4, <2>1
  <2> QED
    BY <2>2 DEF PoolShape
<1>9. ASSUME NEW h \in DOMAIN pool', Second(h)' # None
      PROVE  /\ \E s \in Slot : slots'[s].handle = h
             /\ Second(h)' \in DOMAIN pool' /\ pool'[Second(h)'].of \in Index
             /\ pool'[Second(h)'].second = None
             /\ \A s \in Slot : slots'[s].handle # Second(h)'
  <2>1. h \in DOMAIN pool /\ Second(h) # None /\ Second(h)' = Second(h) /\ ~Gone(h)
    BY <1>3, <1>6, <1>9
  <2>2. PICK s \in Slot : slots[s].handle = h
    BY <2>1 DEF PoolShape
  <2>3. s \notin ss
    BY <1>2, <2>1, <2>2
  <2>4. slots'[s].handle = h
    BY <2>2, <2>3
  <2>5. /\ Second(h) \in DOMAIN pool /\ pool[Second(h)].of \in Index
        /\ Second(Second(h)) = None
        /\ \A t \in Slot : slots[t].handle # Second(h)
    BY <2>1 DEF PoolShape
  <2>6. ~Gone(Second(h))
    <3> SUFFICES ASSUME Gone(Second(h)) PROVE FALSE
      OBVIOUS
    <3>1. PICK t \in ss : Second(slots[t].handle) = Second(h)
      BY <1>2, <2>5
    <3>2. slots[t].handle \in DOMAIN pool
      BY DEF PoolShape
    <3>3. slots[t].handle = h
      BY <2>1, <3>1, <3>2 DEF PoolShape
    <3> QED
      BY <1>2, <2>1, <3>3
  <2>7. Second(h) \in DOMAIN pool'
    BY <1>1, <2>5, <2>6 DEF Gone
  <2>8. pool'[Second(h)] = pool[Second(h)]
    BY <1>1, <2>7
  <2>9. \A t \in Slot : slots'[t].handle # Second(h)
    BY <2>1, <2>5
  <2> QED
    BY <2>1, <2>4, <2>5, <2>7, <2>8, <2>9 DEF Second
<1>10. \A h, k \in DOMAIN pool' : Second(h)' # None /\ Second(h)' = Second(k)' => h = k
  BY <1>3, <1>6 DEF PoolShape
<1>11. ASSUME NEW h \in DOMAIN pool', pool'[h].of # Client
       PROVE  \/ \E s \in Slot : slots'[s].handle = h
              \/ \E k \in DOMAIN pool' : Second(k)' = h
  <2>1. h \in DOMAIN pool /\ pool[h].of # Client /\ ~Gone(h) /\ h # None
    BY <1>1, <1>3, <1>11, Nothings DEF CacheTypes
  <2>2. CASE \E s \in Slot : slots[s].handle = h
    BY <1>2, <2>1, <2>2
  <2>3. CASE \E k \in DOMAIN pool : Second(k) = h
    <3>1. PICK k \in DOMAIN pool : Second(k) = h
      BY <2>3
    <3>2. PICK s \in Slot : slots[s].handle = k
      BY <2>1, <3>1 DEF PoolShape
    <3>3. s \notin ss
      BY <1>2, <2>1, <3>1, <3>2
    <3>4. k # None
      BY Nothings DEF CacheTypes
    <3>5. Taken(s)'
      BY <3>2, <3>3, <3>4 DEF Taken
    <3>6. k \in DOMAIN pool'
      BY <1>4, <1>7, <3>2, <3>5
    <3> QED
      BY <1>6, <3>1, <3>6
  <2> QED
    BY <2>1, <2>2, <2>3 DEF PoolShape
<1>12. \A h \in DOMAIN pool' : pool'[h].of = Client => pool'[h].sels = {}
  BY <1>1 DEF PoolShape
<1>13. \A h, k \in DOMAIN pool' : pool'[h].of = Client /\ pool'[k].of = Client => h = k
  BY <1>1, <1>3 DEF PoolShape
<1> QED
  BY <1>7, <1>8, <1>9, <1>10, <1>11, <1>12, <1>13 DEF PoolShape, Second

(* What free_das_cache_entry does to the pool, and to the descriptors while *)
(* every decode block has its own.                                          *)
LEMMA FreeEntriesMeans ==
  ASSUME CacheTypes, PoolShape, SelShape, NEW ss \in SUBSET Slot, \A s \in ss : Taken(s),
         FreeEntries(ss)
  PROVE  /\ pool' = Without(Freed(ss))
         /\ ldt' \subseteq ldt
         /\ trust # "stray" => ldt' = ldt \ UNION {pool[h].sels : h \in Freed(ss)}
<1> DEFINE mains == {slots[s].handle : s \in ss}
           bare == \E h \in mains : \E k \in SecondOf(h) : pool[k].sels = {}
<1>1. Freed(ss) = mains \cup UNION {SecondOf(h) : h \in mains}
  BY DEF Freed
<1>2. /\ pool' = Without(Freed(ss))
      /\ \E stale \in IF bare THEN SUBSET ldt ELSE {{}} :
           ldt' = (ldt \ UNION {pool[h].sels : h \in Freed(ss)}) \ stale
  BY <1>1 DEF FreeEntries
<1>3. ASSUME trust # "stray" PROVE ~bare
  <2>1. \A h \in mains : h \in DOMAIN pool
    BY DEF PoolShape
  <2>2. \A h \in mains : \A k \in SecondOf(h) : k = Second(h) /\ Second(h) # None
    BY DEF SecondOf, Second
  <2> HIDE DEF mains
  <2> QED
    BY <1>3, <2>1, <2>2 DEF SelShape
<1>4. trust # "stray" => ldt' = ldt \ UNION {pool[h].sels : h \in Freed(ss)}
  BY <1>2, <1>3
<1> QED
  BY <1>2, <1>4

(* Freeing slots through free_das_cache_entry keeps the pool and the        *)
(* descriptors in shape.                                                    *)
LEMMA FreeingKeepsDescriptors ==
  ASSUME CacheTypes, PoolShape, SelShape, NEW ss \in SUBSET Slot, \A s \in ss : Taken(s),
         FreeEntries(ss), trust' = trust,
         \A s \in Slot : slots'[s].handle = IF s \in ss THEN None ELSE slots[s].handle
  PROVE  /\ PoolShape' /\ SelShape' /\ ldt' \subseteq Sels
         /\ DOMAIN pool' \subseteq DOMAIN pool
         /\ \A h \in DOMAIN pool' : pool'[h] = pool[h]
         /\ DOMAIN pool' \subseteq Handle /\ pool' \in [DOMAIN pool' -> Blocks]
<1>1. /\ pool' = Without(Freed(ss)) /\ ldt' \subseteq ldt
      /\ trust # "stray" => ldt' = ldt \ UNION {pool[h].sels : h \in Freed(ss)}
  BY FreeEntriesMeans
<1>2. PoolShape'
  BY <1>1, FreeingKeepsShape
<1>3. /\ DOMAIN pool' = DOMAIN pool \ Freed(ss)
      /\ \A h \in DOMAIN pool' : pool'[h] = pool[h]
      /\ DOMAIN pool' \subseteq Handle /\ pool' \in [DOMAIN pool' -> Blocks]
  BY <1>1, WithoutKeeps
<1>4. Freed(ss) \subseteq DOMAIN pool
  <2>1. \A h \in Freed(ss) : \/ \E s \in ss : slots[s].handle = h
                             \/ \E s \in ss : Second(slots[s].handle) = h /\ h # None
    BY FreedHandles
  <2> QED
    BY <2>1 DEF PoolShape
<1>5. SelShape'
  <2> SUFFICES ASSUME trust # "stray" PROVE SelShape'
    BY DEF SelShape
  <2>1. ldt' = ldt \ UNION {pool[h].sels : h \in Freed(ss)}
    BY <1>1
  <2>2. \A x : x \in ldt' <=> x \in ldt /\ \A h \in Freed(ss) : x \notin pool[h].sels
    BY <2>1
  <2>3. ASSUME NEW h \in DOMAIN pool' PROVE pool'[h].sels \subseteq ldt'
    <3>1. h \in DOMAIN pool /\ h \notin Freed(ss) /\ pool'[h] = pool[h]
      BY <1>3
    <3>2. pool[h].sels \subseteq ldt
      BY <3>1 DEF SelShape
    <3>3. \A k \in Freed(ss) : pool[h].sels \cap pool[k].sels = {}
      BY <1>4, <3>1 DEF SelShape
    <3> QED
      BY <2>2, <3>1, <3>2, <3>3
  <2>4. ASSUME trust = "exact", NEW x \in ldt' PROVE \E h \in DOMAIN pool' : x \in pool'[h].sels
    <3>1. PICK h \in DOMAIN pool : x \in pool[h].sels
      BY <2>2, <2>4 DEF SelShape
    <3> QED
      BY <1>3, <2>2, <3>1
  <2>5. \A h, k \in DOMAIN pool' : h # k => pool'[h].sels \cap pool'[k].sels = {}
    BY <1>3 DEF SelShape
  <2>6. ASSUME NEW h \in DOMAIN pool', Second(h)' # None PROVE pool'[Second(h)'].sels # {}
    <3>1. Second(h)' = Second(h) /\ h \in DOMAIN pool
      BY <1>3 DEF Second
    <3>2. Second(h)' \in DOMAIN pool'
      BY <1>2, <2>6 DEF PoolShape
    <3>3. pool'[Second(h)'] = pool[Second(h)]
      BY <1>3, <3>1, <3>2
    <3> QED
      BY <2>6, <3>1, <3>3 DEF SelShape
  <2> QED
    BY <2>3, <2>4, <2>5, <2>6 DEF SelShape
<1> QED
  BY <1>1, <1>2, <1>3, <1>5 DEF CacheTypes

-----------------------------------------------------------------------------
(* Eviction.                                                                *)

\* The three loops that evict.
Evicting(forbid) ==
  /\ Evict(forbid)
  /\ pc \in {"reserve", "alloc", "room"} /\ forbid = (pc = "alloc")
  /\ UNCHANGED <<given, tick, locked, trust, pc, req, main, pin, room>>

(* The victim of an eviction is a slot the status table names: that of the  *)
(* block being loaded is of this frame and pinned.                          *)
LEMMA VictimIsNamed ==
  ASSUME DasInv, NEW forbid \in BOOLEAN, Evicting(forbid)
  PROVE  LET s == Victim(forbid) IN
         /\ s \in Slot /\ Taken(s) /\ Named(s) /\ slots[s].handle # main
         /\ (main # None => s # LoadSlot)
         /\ (forbid => Age(s) # 0)
<1> DEFINE s == Victim(forbid)
<1>1. Victims(forbid) # {} /\ CacheTypes
  BY DEF Evicting, Evict, DasInv
<1>2. s \in Victims(forbid)
  BY <1>1, VictimIsOne
<1>3. s \in Slot /\ Taken(s) /\ (Age(s) # 0 \/ (~forbid /\ slots[s].handle # pin))
  BY <1>2 DEF Victims, Taken
<1> HIDE DEF s
<1>4. ASSUME main # None PROVE slots[s].handle # main
  <2> SUFFICES ASSUME slots[s].handle = main PROVE FALSE
    OBVIOUS
  <2>1. pc = "room" /\ pin = main
    BY <1>4 DEF Evicting, DasInv, Phases
  <2>2. LoadSlot \in Slot /\ slots[LoadSlot].handle = main /\ slots[LoadSlot].tick = tick
    BY <1>4 DEF DasInv, LoadShape
  <2>3. s = LoadSlot
    BY <1>3, <2>2 DEF DasInv, PoolShape
  <2>4. tick \in 0..Wrap - 1 /\ Wrap \in Nat /\ Wrap > 1
    BY <1>1, Nothings DEF CacheTypes
  <2>5. Age(s) = 0
    BY <2>2, <2>3, <2>4 DEF Age
  <2> QED
    BY <1>3, <2>1, <2>5
<1>5. Taken(s) => slots[s].handle # main
  BY <1>4 DEF Taken
<1>6. Named(s)
  BY <1>3, <1>5 DEF DasInv, TableShape
<1>7. main # None => s # LoadSlot
  BY <1>3, <1>5 DEF DasInv, LoadShape
<1> QED
  BY <1>3, <1>5, <1>6, <1>7 DEF s

(* An eviction keeps the invariant.                                         *)
LEMMA EvictionKeeps ==
  ASSUME DasInv, NEW forbid \in BOOLEAN, Evicting(forbid)
  PROVE  DasInv'
<1>0. PICK s : s = Victim(forbid)
  OBVIOUS
<1>1. /\ s \in Slot /\ Taken(s) /\ Named(s) /\ slots[s].handle # main
      /\ (main # None => s # LoadSlot)
  BY <1>0, VictimIsNamed
<1>2. /\ cur' = s
      /\ status' = [i \in Index |-> IF status[i] = s THEN Unloaded ELSE status[i]]
      /\ slots' = [slots EXCEPT ![s].handle = None]
      /\ FreeEntries({s})
  BY <1>0, <1>1 DEF Evicting, Evict, Named
<1>3. /\ UNCHANGED <<tick, locked, trust, pc, req, main, pin, room>>
      /\ pc \in {"reserve", "alloc", "room"}
  BY DEF Evicting
<1>4. CacheTypes /\ PoolShape /\ SelShape /\ TableShape /\ LoadShape /\ Phases
  BY DEF DasInv
<1>5. slots \in [Slot -> [handle : Handle \cup {None}, tick : 0..Wrap - 1]]
  BY <1>4 DEF CacheTypes
<1>6. \A t \in Slot : slots'[t] = IF t = s THEN [handle |-> None, tick |-> slots[s].tick]
                                  ELSE slots[t]
  BY <1>1, <1>2, <1>5
<1>7. \A t \in Slot : slots'[t].handle = IF t \in {s} THEN None ELSE slots[t].handle
  BY <1>6
<1>8. /\ PoolShape' /\ SelShape' /\ ldt' \subseteq Sels
      /\ DOMAIN pool' \subseteq DOMAIN pool
      /\ \A h \in DOMAIN pool' : pool'[h] = pool[h]
      /\ DOMAIN pool' \subseteq Handle /\ pool' \in [DOMAIN pool' -> Blocks]
  <2>1. {s} \in SUBSET Slot /\ \A t \in {s} : Taken(t)
    BY <1>1
  <2> QED
    BY <1>2, <1>3, <1>4, <1>7, <2>1, FreeingKeepsDescriptors
<1>9. slots' \in [Slot -> [handle : Handle \cup {None}, tick : 0..Wrap - 1]]
  BY <1>1, <1>2, <1>5
<1>10. status' \in [Index -> Slot \cup {Flat, Unloaded}]
  BY <1>2, <1>4 DEF CacheTypes
<1>11. CacheTypes'
  BY <1>3, <1>4, <1>8, <1>9, <1>10 DEF CacheTypes
<1>12. \A i \in Index : status'[i] \in Slot => status[i] # s /\ status'[i] = status[i]
  BY <1>2, Nothings
<1>13. \A t \in Slot : Taken(t)' => /\ Taken(t) /\ t # s /\ slots'[t] = slots[t]
                                    /\ pool'[slots[t].handle] = pool[slots[t].handle]
  <2> SUFFICES ASSUME NEW t \in Slot, Taken(t)'
               PROVE  /\ Taken(t) /\ t # s /\ slots'[t] = slots[t]
                      /\ pool'[slots[t].handle] = pool[slots[t].handle]
    OBVIOUS
  <2>1. t # s /\ slots'[t] = slots[t]
    BY <1>6, <1>7 DEF Taken
  <2>2. slots'[t].handle \in DOMAIN pool'
    BY <1>8 DEF PoolShape
  <2> QED
    BY <1>8, <2>1, <2>2 DEF Taken
<1>14. \A t \in Slot : t # s => (Taken(t)' <=> Taken(t))
  BY <1>6 DEF Taken
<1>15. TableShape'
  <2>1. ASSUME NEW i \in Index, status'[i] \in Slot
        PROVE  /\ slots'[status'[i]].handle # None
               /\ pool'[slots'[status'[i]].handle].of = i
    <3>1. PICK t \in Slot : t = status[i] /\ t # s /\ status'[i] = t
      BY <1>12, <2>1
    <3>2. Taken(t) /\ pool[slots[t].handle].of = i
      BY <1>4, <3>1 DEF TableShape
    <3>3. Taken(t)'
      BY <1>14, <3>1, <3>2
    <3>4. slots'[t] = slots[t] /\ pool'[slots[t].handle] = pool[slots[t].handle]
      BY <1>13, <3>3
    <3>5. slots'[status'[i]] = slots[t] /\ slots[t].handle # None
      BY <3>1, <3>2, <3>4 DEF Taken
    <3> QED
      BY <3>2, <3>4, <3>5
  <2>2. ASSUME NEW t \in Slot, Taken(t)'
        PROVE  Named(t)' \/ (main' # None /\ slots'[t].handle = main')
    <3>1. Taken(t) /\ t # s /\ slots'[t] = slots[t]
      BY <1>13, <2>2
    <3>2. CASE Named(t)
      <4>1. PICK i \in Index : status[i] = t
        BY <3>2 DEF Named
      <4>2. status'[i] = t
        BY <1>2, <3>1, <4>1
      <4> QED
        BY <4>2 DEF Named
    <3>3. CASE main # None /\ slots[t].handle = main
      BY <1>3, <3>1, <3>3
    <3> QED
      BY <1>4, <3>1, <3>2, <3>3 DEF TableShape
  <2>3. \A t \in Slot : Taken(t)' => Named(t)' \/ (main' # None /\ slots'[t].handle = main')
    BY <2>2
  <2> QED
    BY <2>1, <2>3 DEF TableShape, Taken
<1>16. ASSUME main # None PROVE LoadSlot' = LoadSlot
  BY <1>3, <1>4, <1>16 DEF LoadSlot, Phases
<1>17. LoadShape'
  <2> SUFFICES ASSUME main # None PROVE LoadShape'
    BY <1>3 DEF LoadShape
  <2>0. PICK l : l = LoadSlot
    OBVIOUS
  <2>1. /\ l \in Slot /\ slots[l].handle = main /\ slots[l].tick = tick
        /\ ~Named(l) /\ pool[main].of = req.index
        /\ pool[main].sels = {} /\ Second(main) = None /\ l # s /\ LoadSlot' = l
    BY <1>1, <1>4, <1>16, <2>0 DEF LoadShape
  <2>2. slots'[l] = slots[l] /\ Taken(l)'
    BY <1>4, <1>6, <2>1, Nothings DEF Taken
  <2>3. pool'[main] = pool[main]
    BY <1>13, <2>1, <2>2
  <2>4. ~Named(l)'
    BY <1>12, <2>1 DEF Named
  <2> QED
    BY <1>3, <2>1, <2>2, <2>3, <2>4 DEF LoadShape, Second
<1>18. Phases'
  <2>1. pc = "alloc" => ~Taken(s)'
    BY <1>7, <1>1 DEF Taken
  <2>2. \A i \in Index : status[i] \notin Slot => status'[i] \notin Slot
    BY <1>12
  <2>3. \A h \in DOMAIN pool' : h \in DOMAIN pool /\ pool'[h].of = pool[h].of
    BY <1>8
  <2>4. Taken(cur)' = Taken(s)'
    BY <1>2 DEF Taken
  <2>5. pc' \in Loads \/ (pc' \in {"room", "take"} /\ main' # None)
          => status'[req'.index] \notin Slot
    BY <1>3, <1>4, <2>2 DEF Phases
  <2>6. pc' \in {"room", "take"} /\ main' = None =>
          req' = NoRequest /\ \A h \in DOMAIN pool' : pool'[h].of # Client
    BY <1>3, <1>4, <2>3 DEF Phases
  <2>7. pc' = "alloc" => cur' \in Slot /\ ~Taken(cur)'
    BY <1>1, <1>2, <1>3, <2>1, <2>4
  <2> QED
    BY <1>3, <1>4, <2>5, <2>6, <2>7 DEF Phases
<1> QED
  BY <1>8, <1>11, <1>15, <1>17, <1>18 DEF DasInv

-----------------------------------------------------------------------------
(* Steps that leave the cache alone.                                        *)

(* The requests there are.                                                  *)
LEMMA NoRequestIsOne == NoRequest \in [index : Index \cup {Client}, face : BOOLEAN]
BY DEF NoRequest

(* The same blocks and descriptors in the same slots are in the same shape. *)
LEMMA SameBlocks ==
  ASSUME PoolShape, SelShape, UNCHANGED <<pool, ldt, trust>>,
         \A s \in Slot : slots'[s].handle = slots[s].handle
  PROVE  PoolShape' /\ SelShape'
<1>1. PoolShape'
  BY DEF PoolShape, Taken, Second
<1>2. SelShape'
  BY DEF SelShape, Second
<1> QED
  BY <1>1, <1>2

(* A step that leaves the cache alone keeps all but the phases.             *)
LEMMA QuietStep ==
  ASSUME DasInv, UNCHANGED <<status, slots, tick, pool, ldt, trust>>, locked' \in BOOLEAN,
         req' \in [index : Index \cup {Client}, face : BOOLEAN], main' = main,
         main # None => LoadSlot' = LoadSlot /\ req' = req
  PROVE  CacheTypes' /\ PoolShape' /\ SelShape' /\ TableShape' /\ LoadShape'
<1>1. CacheTypes /\ PoolShape /\ SelShape /\ TableShape /\ LoadShape
  BY DEF DasInv
<1>2. CacheTypes'
  BY <1>1 DEF CacheTypes
<1>3. PoolShape' /\ SelShape'
  BY <1>1, SameBlocks
<1>4. TableShape'
  BY <1>1 DEF TableShape, Taken, Named
<1>5. LoadShape'
  <2> SUFFICES ASSUME main # None PROVE LoadShape'
    BY DEF LoadShape
  <2>1. PICK l : l = LoadSlot /\ LoadSlot' = l
    OBVIOUS
  <2>2. /\ l \in Slot /\ slots[l].handle = main /\ slots[l].tick = tick
        /\ ~Named(l) /\ pool[main].of = req.index
        /\ pool[main].sels = {} /\ pool[main].second = None
    BY <1>1, <2>1 DEF LoadShape, Second
  <2>3. ~Named(l)'
    BY <2>2 DEF Named
  <2> QED
    BY <2>1, <2>2, <2>3 DEF LoadShape, Second
<1> QED
  BY <1>2, <1>3, <1>4, <1>5

\* The steps that leave the cache alone.
Quiet ==
  \/ Ask \/ AnswerFlat \/ Miss \/ LoadAbsent \/ LoadBegins \/ Reserve \/ ReadBlock
  \/ PostNeedsRoom \/ RoomFound \/ RoomFails \/ ClientAsks \/ ToggleLock

(* They keep the invariant.                                                 *)
LEMMA QuietKeeps ==
  ASSUME DasInv, Quiet
  PROVE  DasInv'
<1>1. CacheTypes /\ Phases
  BY DEF DasInv
<1>2. UNCHANGED <<status, slots, tick, pool, ldt, trust>>
  BY DEF Quiet, Ask, AnswerFlat, Miss, LoadAbsent, LoadBegins, Reserve, ReadBlock,
         PostNeedsRoom, RoomFound, RoomFails, ClientAsks, ToggleLock, cache, locals
<1>3. locked' \in BOOLEAN
  BY <1>1 DEF Quiet, Ask, AnswerFlat, Miss, LoadAbsent, LoadBegins, Reserve, ReadBlock,
         PostNeedsRoom, RoomFound, RoomFails, ClientAsks, ToggleLock, cache, locals, CacheTypes
<1>4. /\ req' \in [index : Index \cup {Client}, face : BOOLEAN] /\ main' = main
      /\ main # None => LoadSlot' = LoadSlot /\ req' = req
      /\ Phases'
  <2>0. \A h : Taken(h)' <=> Taken(h)
    BY <1>2 DEF Taken
  <2>1. CASE Ask
    <3>1. /\ pc = "idle" /\ pc' = "look" /\ main' = main /\ pin' = pin
          /\ main = None /\ pin = None /\ req'.index \in Index
      BY <1>1, <2>1 DEF Ask, Phases, locals
    <3>2. req' \in [index : Index \cup {Client}, face : BOOLEAN]
      BY <2>1 DEF Ask
    <3>3. Phases'
      BY <3>1 DEF Phases, Loads
    <3> QED
      BY <3>1, <3>2, <3>3
  <2>2. CASE AnswerFlat \/ LoadAbsent
    <3>1. /\ pc' = "idle" /\ req' = NoRequest /\ cur' = None /\ main' = None /\ main = None
          /\ pin' = None
      BY <1>1, <2>2 DEF AnswerFlat, LoadAbsent, Answered, Phases, Loads
    <3>2. Phases'
      BY <3>1 DEF Phases, Loads
    <3> QED
      BY <3>1, <3>2, NoRequestIsOne
  <2>3. CASE Miss
    <3>1. /\ pc' = "load" /\ req' = req /\ main' = main /\ main = None
          /\ pin' = None /\ req.index \in Index /\ status[req.index] \in {Unloaded, Flat}
      BY <1>1, <2>3 DEF Miss, Phases, locals
    <3>2. status'[req'.index] \notin Slot
      BY <1>2, <3>1, Nothings
    <3>3. Phases'
      BY <3>1, <3>2 DEF Phases, Loads
    <3> QED
      BY <1>1, <3>1, <3>3 DEF CacheTypes
  <2>4. CASE LoadBegins
    <3>1. /\ pc' = "reserve" /\ req' = req /\ main' = main /\ main = None
          /\ pin' = None /\ req.index \in Index /\ status[req.index] \notin Slot
      BY <1>1, <2>4 DEF LoadBegins, Phases, locals, Loads
    <3>2. status'[req'.index] \notin Slot
      BY <1>2, <3>1
    <3>3. Phases'
      BY <3>1, <3>2 DEF Phases, Loads
    <3> QED
      BY <1>1, <3>1, <3>3 DEF CacheTypes
  <2>5. CASE Reserve
    <3>1. /\ pc' = "alloc" /\ req' = req /\ main' = main /\ main = None
          /\ pin' = None /\ req.index \in Index /\ status[req.index] \notin Slot
          /\ FreeSlots # {} /\ cur' = Min(FreeSlots)
      BY <1>1, <2>5 DEF Reserve, Phases, Loads
    <3>2. status'[req'.index] \notin Slot
      BY <1>2, <3>1
    <3>3. FreeSlots \in SUBSET Nat
      BY Nothings DEF FreeSlots
    <3>4. cur' \in FreeSlots
      BY <3>1, <3>3, MinIsLeast
    <3>5. cur' \in Slot /\ ~Taken(cur)'
      BY <1>2, <3>4 DEF FreeSlots, Taken
    <3>6. Phases'
      BY <3>1, <3>2, <3>5 DEF Phases, Loads
    <3> QED
      BY <1>1, <3>1, <3>6 DEF CacheTypes
  <2>6. CASE ReadBlock
    <3>1. /\ pc = "read" /\ pc' = "post" /\ req' = req /\ main' = main /\ main # None /\ cur' = cur
          /\ pin' = None /\ req.index \in Index /\ status[req.index] \notin Slot
      BY <1>1, <2>6 DEF ReadBlock, Phases, Loads, locals
    <3>2. status'[req'.index] \notin Slot
      BY <1>2, <3>1
    <3>3. LoadSlot' = LoadSlot
      BY <3>1 DEF LoadSlot
    <3>4. Phases'
      BY <3>1, <3>2 DEF Phases, Loads
    <3> QED
      BY <1>1, <3>1, <3>3, <3>4 DEF CacheTypes
  <2>7. CASE PostNeedsRoom
    <3>1. /\ pc = "post" /\ pc' = "room" /\ req' = req /\ main' = main /\ main # None /\ cur' = cur
          /\ pin' = main /\ req.index \in Index /\ status[req.index] \notin Slot
          /\ room' = [need |-> Size[req.index], largest |-> FALSE, saved |-> cur]
      BY <1>1, <2>7 DEF PostNeedsRoom, Phases, Loads
    <3>2. status'[req'.index] \notin Slot
      BY <1>2, <3>1
    <3>3. LoadSlot' = LoadSlot
      BY <3>1 DEF LoadSlot
    <3>4. room'.need \in Nat
      BY <3>1, DasCacheAssumption
    <3>5. Phases'
      BY <3>1, <3>2, <3>4 DEF Phases, Loads
    <3> QED
      BY <1>1, <3>1, <3>3, <3>5 DEF CacheTypes
  <2>8. CASE RoomFound \/ RoomFails
    <3>1. /\ pc = "room" /\ pc' = "take" /\ UNCHANGED <<req, main, cur, pin, room>>
      BY <2>8 DEF RoomFound, RoomFails, locals
    <3>2. LoadSlot' = LoadSlot
      BY <3>1 DEF LoadSlot
    <3>3. Phases'
      BY <1>1, <1>2, <3>1 DEF Phases, Loads
    <3> QED
      BY <1>1, <3>1, <3>2, <3>3 DEF CacheTypes
  <2>9. CASE ClientAsks
    <3>1. /\ pc = "idle" /\ pc' = "room" /\ UNCHANGED <<req, main, cur, pin>>
          /\ main = None /\ pin = None /\ req = NoRequest
          /\ \A h \in DOMAIN pool : pool[h].of # Client
      BY <1>1, <2>9 DEF ClientAsks, Phases
    <3>2. room'.need \in Nat
      BY <2>9, DasCacheAssumption DEF ClientAsks
    <3>3. Phases'
      BY <1>2, <3>1, <3>2 DEF Phases, Loads
    <3> QED
      BY <1>1, <3>1, <3>3 DEF CacheTypes
  <2>10. CASE ToggleLock
    <3>1. pc = "idle" /\ UNCHANGED <<pc, req, main, cur, pin, room>>
      BY <2>10 DEF ToggleLock, locals
    <3>2. LoadSlot' = LoadSlot
      BY <3>1 DEF LoadSlot
    <3>3. Phases'
      BY <1>1, <3>1 DEF Phases, Loads
    <3> QED
      BY <1>1, <3>1, <3>2, <3>3 DEF CacheTypes
  <2> QED
    BY <2>1, <2>2, <2>3, <2>4, <2>5, <2>6, <2>7, <2>8, <2>9, <2>10 DEF Quiet
<1>5. CacheTypes' /\ PoolShape' /\ SelShape' /\ TableShape' /\ LoadShape'
  BY <1>2, <1>3, <1>4, QuietStep
<1> QED
  BY <1>4, <1>5 DEF DasInv

-----------------------------------------------------------------------------
(* Flat colours, hits, the frame and the change of map.                     *)

(* An index that gets its flat colour named no slot before.                 *)
LEMMA FlatKeeps ==
  ASSUME DasInv, LoadFlat \/ AllocGivesUp
  PROVE  DasInv'
<1>1. CacheTypes /\ PoolShape /\ SelShape /\ TableShape /\ Phases
  BY DEF DasInv
<1>2. /\ UNCHANGED <<slots, tick, pool, ldt, trust, locked, pin, room>>
      /\ main = None /\ main' = None /\ pin = None
      /\ req.index \in Index /\ status[req.index] \notin Slot
  BY <1>1 DEF LoadFlat, AllocGivesUp, Answered, locals, Phases, Loads
<1>3. \/ status' = [status EXCEPT ![req.index] = Flat] /\ pc' = "look" /\ req' = req
      \/ status' = status /\ pc' = "idle" /\ req' = NoRequest /\ cur' = None
  BY DEF LoadFlat, AllocGivesUp, Answered, locals
<1>4. \A s \in Slot : \A i \in Index : status'[i] = s <=> status[i] = s
  BY <1>1, <1>2, <1>3, Nothings DEF CacheTypes
<1>5. status' \in [Index -> Slot \cup {Flat, Unloaded}]
  BY <1>1, <1>2, <1>3 DEF CacheTypes
<1>6. req' \in [index : Index \cup {Client}, face : BOOLEAN]
  BY <1>1, <1>3, NoRequestIsOne DEF CacheTypes
<1>7. CacheTypes'
  BY <1>1, <1>2, <1>5, <1>6 DEF CacheTypes
<1>8. PoolShape' /\ SelShape'
  BY <1>1, <1>2, SameBlocks
<1>9. TableShape'
  <2>1. ASSUME NEW i \in Index, status'[i] \in Slot
        PROVE  /\ slots'[status'[i]].handle # None
               /\ pool'[slots'[status'[i]].handle].of = i
    <3>1. status'[i] = status[i]
      BY <1>4, <2>1
    <3> QED
      BY <1>1, <1>2, <2>1, <3>1 DEF TableShape, Taken
  <2>2. ASSUME NEW s \in Slot, slots'[s].handle # None PROVE Named(s)'
    <3>1. Named(s)
      BY <1>1, <1>2, <2>2 DEF TableShape, Taken
    <3> QED
      BY <1>4, <3>1 DEF Named
  <2> QED
    BY <2>1, <2>2 DEF TableShape, Taken
<1>10. LoadShape'
  BY <1>2 DEF LoadShape
<1>11. Phases'
  BY <1>2, <1>3 DEF Phases, Loads
<1> QED
  BY <1>7, <1>8, <1>9, <1>10, <1>11 DEF DasInv

(* A hit stamps a slot.                                                     *)
LEMMA HitKeeps ==
  ASSUME DasInv, Hit
  PROVE  DasInv'
<1>1. CacheTypes /\ PoolShape /\ SelShape /\ TableShape /\ Phases
  BY DEF DasInv
<1>2. /\ UNCHANGED <<status, tick, pool, ldt, trust, locked, pin, room>>
      /\ main = None /\ main' = None /\ pin = None
      /\ pc' = "idle" /\ req' = NoRequest /\ cur' = None
      /\ status[req.index] \in Slot
      /\ slots' = [slots EXCEPT ![status[req.index]].tick = tick]
  BY <1>1 DEF Hit, Answered, Phases
<1>3. PICK n \in Slot : n = status[req.index]
  BY <1>2
<1>4. slots \in [Slot -> [handle : Handle \cup {None}, tick : 0..Wrap - 1]] /\ tick \in 0..Wrap - 1
  BY <1>1 DEF CacheTypes
<1>5. slots' = [s \in Slot |-> IF s = n THEN [handle |-> slots[n].handle, tick |-> tick]
                               ELSE slots[s]]
  <2>1. slots[n] \in [handle : Handle \cup {None}, tick : 0..Wrap - 1]
    BY <1>4
  <2>2. [slots[n] EXCEPT !.tick = tick] = [handle |-> slots[n].handle, tick |-> tick]
    BY <2>1
  <2>3. slots' = [slots EXCEPT ![n] = [slots[n] EXCEPT !.tick = tick]]
    BY <1>2, <1>3
  <2> QED
    BY <1>4, <2>2, <2>3
<1>6. slots' \in [Slot -> [handle : Handle \cup {None}, tick : 0..Wrap - 1]]
  BY <1>4, <1>5
<1>7. \A s \in Slot : slots'[s].handle = slots[s].handle
  BY <1>5
<1>8. CacheTypes'
  BY <1>1, <1>2, <1>6, NoRequestIsOne DEF CacheTypes
<1>9. PoolShape' /\ SelShape'
  BY <1>1, <1>2, <1>7, SameBlocks
<1>10. TableShape'
  BY SMTT(20), <1>1, <1>2, <1>7 DEF TableShape, Taken, Named
<1>11. LoadShape' /\ Phases'
  BY <1>2 DEF LoadShape, Phases, Loads
<1> QED
  BY <1>8, <1>9, <1>10, <1>11 DEF DasInv

(* A frame passes between requests.                                         *)
LEMMA FrameKeeps ==
  ASSUME DasInv, Frame
  PROVE  DasInv'
<1>1. CacheTypes /\ PoolShape /\ SelShape /\ TableShape /\ Phases
  BY DEF DasInv
<1>2. /\ pc = "idle" /\ main = None /\ tick' = (tick + 1) % Wrap
      /\ UNCHANGED <<status, slots, pool, ldt, trust, locked, pc, req, cur, main, pin, room>>
  BY <1>1 DEF Frame, cache, locals, Phases
<1>3. tick' \in 0..Wrap - 1
  <2>1. tick \in 0..Wrap - 1 /\ Wrap \in Nat /\ Wrap > 0
    BY <1>1, Nothings DEF CacheTypes
  <2> QED
    BY <1>2, <2>1
<1>4. CacheTypes'
  BY <1>1, <1>2, <1>3 DEF CacheTypes
<1>5. PoolShape' /\ SelShape'
  BY <1>1, <1>2, SameBlocks
<1>6. TableShape'
  BY <1>1, <1>2 DEF TableShape, Taken, Named
<1>7. LoadShape' /\ Phases'
  BY <1>1, <1>2 DEF LoadShape, Phases, Loads
<1> QED
  BY <1>4, <1>5, <1>6, <1>7 DEF DasInv

(* A change of map frees what the table names, which is every slot taken.   *)
LEMMA SwitchMapKeeps ==
  ASSUME DasInv, SwitchMap
  PROVE  DasInv'
<1> DEFINE ss == {s \in Slot : \E i \in Index : status[i] = s}
<1>1. CacheTypes /\ PoolShape /\ SelShape /\ TableShape /\ Phases
  BY DEF DasInv
<1>2. /\ pc = "idle" /\ main = None /\ FreeEntries(ss)
      /\ status' = [i \in Index |-> Unloaded]
      /\ slots' = [s \in Slot |-> [handle |-> None, tick |-> 0]]
      /\ UNCHANGED <<tick, trust, locked, pc, req, cur, main, pin, room>>
  BY <1>1 DEF SwitchMap, locals, Phases
<1>3. \A s \in Slot : s \in ss <=> Taken(s)
  <2>1. \A s \in Slot : Taken(s) => s \in ss
    BY <1>1, <1>2 DEF TableShape, Named
  <2>2. \A s \in ss : Taken(s)
    BY <1>1 DEF TableShape
  <2> QED
    BY <2>1, <2>2
<1>4. ss \in SUBSET Slot
  OBVIOUS
<1> HIDE DEF ss
<1>5. \A s \in Slot : slots'[s].handle = IF s \in ss THEN None ELSE slots[s].handle
  BY <1>2, <1>3 DEF Taken
<1>6. /\ PoolShape' /\ SelShape' /\ ldt' \subseteq Sels
      /\ DOMAIN pool' \subseteq Handle /\ pool' \in [DOMAIN pool' -> Blocks]
  BY <1>1, <1>2, <1>3, <1>4, <1>5, FreeingKeepsDescriptors
<1>7. slots' \in [Slot -> [handle : Handle \cup {None}, tick : 0..Wrap - 1]]
  BY <1>2, Nothings
<1>8. status' \in [Index -> Slot \cup {Flat, Unloaded}]
  BY <1>2
<1>9. CacheTypes'
  BY <1>1, <1>2, <1>6, <1>7, <1>8 DEF CacheTypes
<1>10. TableShape'
  BY <1>2, Nothings DEF TableShape, Taken
<1>11. LoadShape' /\ Phases'
  BY <1>1, <1>2 DEF LoadShape, Phases, Loads
<1> QED
  BY <1>6, <1>9, <1>10, <1>11 DEF DasInv

-----------------------------------------------------------------------------
(* New blocks.                                                              *)

(* The pool with one more block.                                            *)
LEMMA WithMeans ==
  ASSUME CacheTypes, NEW h \in Handle, h \notin DOMAIN pool, NEW b \in Blocks, pool' = With(h, b)
  PROVE  /\ DOMAIN pool' = DOMAIN pool \cup {h} /\ pool'[h] = b
         /\ \A k \in DOMAIN pool : pool'[k] = pool[k]
         /\ DOMAIN pool' \subseteq Handle /\ pool' \in [DOMAIN pool' -> Blocks]
<1>1. DOMAIN pool' = DOMAIN pool \cup {h} /\ pool' = [k \in DOMAIN pool' |-> pool'[k]]
  BY DEF With
<1>2. pool'[h] = b /\ \A k \in DOMAIN pool : pool'[k] = pool[k]
  BY DEF With
<1>3. DOMAIN pool \subseteq Handle /\ \A k \in DOMAIN pool : pool[k] \in Blocks
  BY DEF CacheTypes
<1>4. \A k \in DOMAIN pool' : pool'[k] \in Blocks
  BY <1>1, <1>2, <1>3
<1> QED
  BY <1>1, <1>2, <1>3, <1>4

(* A block without descriptors takes none from the others.                  *)
LEMMA BareBlockKeepsDescriptors ==
  ASSUME CacheTypes, PoolShape, SelShape, NEW h, h \notin DOMAIN pool, UNCHANGED <<ldt, trust>>,
         DOMAIN pool' = DOMAIN pool \cup {h}, \A k \in DOMAIN pool : pool'[k] = pool[k],
         pool'[h].sels = {}, pool'[h].second = None
  PROVE  SelShape'
<1> SUFFICES ASSUME trust # "stray" PROVE SelShape'
  BY DEF SelShape
<1>1. \A k \in DOMAIN pool' : k = h \/ (k \in DOMAIN pool /\ pool'[k] = pool[k])
  OBVIOUS
<1>2. \A k \in DOMAIN pool' : pool'[k].sels \subseteq ldt
  BY <1>1 DEF SelShape
<1>3. trust = "exact" => \A x \in ldt : \E k \in DOMAIN pool' : x \in pool'[k].sels
  BY DEF SelShape
<1>4. \A k, l \in DOMAIN pool' : k # l => pool'[k].sels \cap pool'[l].sels = {}
  BY <1>1 DEF SelShape
<1>5. ASSUME NEW k \in DOMAIN pool', pool'[k].second # None
      PROVE  pool'[pool'[k].second].sels # {}
  <2>1. k \in DOMAIN pool /\ pool'[k] = pool[k] /\ Second(k) # None
    BY <1>1, <1>5 DEF Second
  <2>2. Second(k) \in DOMAIN pool /\ pool[Second(k)].sels # {}
    BY <2>1 DEF PoolShape, SelShape
  <2> QED
    BY <2>1, <2>2 DEF Second
<1> QED
  BY <1>2, <1>3, <1>4, <1>5 DEF SelShape, Second

(* The block that is allocated for a load goes to the reserved slot.        *)
LEMMA AllocBlockKeeps ==
  ASSUME DasInv, AllocBlock
  PROVE  DasInv'
<1>1. CacheTypes /\ PoolShape /\ SelShape /\ TableShape /\ Phases
  BY DEF DasInv
<1>2. PICK c, h, b : c = cur /\ h = NewHandle /\ b = Block(req.index, Size[req.index], {}, None)
  OBVIOUS
<1>3. /\ pc = "alloc" /\ main = None /\ c \in Slot /\ slots[c].handle = None
      /\ req.index \in Index /\ status[req.index] \notin Slot /\ pin = None
  BY <1>1, <1>2 DEF AllocBlock, Phases, Loads, Taken
<1>4. /\ main' = h /\ pool' = With(h, b) /\ cur' = c
      /\ slots' = [slots EXCEPT ![c] = [handle |-> h, tick |-> tick]]
      /\ pc' = "read" /\ UNCHANGED <<status, tick, locked, ldt, trust, req, pin, room>>
  BY <1>2 DEF AllocBlock
<1>5. h \in Handle /\ h \notin DOMAIN pool /\ h # None
  BY <1>1, <1>2, <1>3, FreshHandle DEF Taken
<1>6. b = [of |-> req.index, size |-> Size[req.index], sels |-> {}, second |-> None]
  BY <1>2 DEF Block
<1>7. b \in Blocks
  <2>1. Size[req.index] \in Nat
    BY <1>3, DasCacheAssumption
  <2> QED
    BY <1>3, <1>6, <2>1 DEF Blocks
<1>8. /\ DOMAIN pool' = DOMAIN pool \cup {h} /\ pool'[h] = b
      /\ \A k \in DOMAIN pool : pool'[k] = pool[k]
      /\ DOMAIN pool' \subseteq Handle /\ pool' \in [DOMAIN pool' -> Blocks]
  BY <1>1, <1>4, <1>5, <1>7, WithMeans
<1>9. \A s \in Slot : slots'[s] = IF s = c THEN [handle |-> h, tick |-> tick] ELSE slots[s]
  BY <1>1, <1>3, <1>4 DEF CacheTypes
<1>10. slots' \in [Slot -> [handle : Handle \cup {None}, tick : 0..Wrap - 1]]
  BY <1>1, <1>3, <1>4, <1>5 DEF CacheTypes
<1>11. CacheTypes'
  BY <1>1, <1>4, <1>8, <1>10 DEF CacheTypes
<1>12. \A s \in Slot : slots[s].handle # h
  BY <1>1, <1>5 DEF PoolShape, Taken
<1>13. PoolShape'
  <2>0. /\ pool'[h].of \in Index /\ pool'[h].second = None /\ pool'[h].sels = {}
        /\ Client \notin Index
    BY <1>3, <1>6, <1>8, Nothings
  <2>1. \A s \in Slot : slots'[s].handle # None => /\ slots'[s].handle \in DOMAIN pool'
                                                   /\ pool'[slots'[s].handle].of \in Index
    <3> SUFFICES ASSUME NEW s \in Slot, slots'[s].handle # None
                 PROVE  /\ slots'[s].handle \in DOMAIN pool'
                        /\ pool'[slots'[s].handle].of \in Index
      OBVIOUS
    <3>1. CASE s = c
      BY <1>8, <1>9, <2>0, <3>1
    <3>2. CASE s # c
      <4>1. slots[s].handle \in DOMAIN pool /\ pool[slots[s].handle].of \in Index
        BY <1>1, <1>9, <3>2 DEF PoolShape, Taken
      <4> QED
        BY <1>8, <1>9, <3>2, <4>1
    <3> QED
      BY <3>1, <3>2
  <2>2. \A s, t \in Slot : slots'[s].handle # None /\ slots'[s].handle = slots'[t].handle => s = t
    BY <1>1, <1>9, <1>12 DEF PoolShape, Taken
  <2>3. ASSUME NEW k \in DOMAIN pool', pool'[k].second # None
        PROVE  /\ \E s \in Slot : slots'[s].handle = k
               /\ pool'[k].second \in DOMAIN pool' /\ pool'[pool'[k].second].of \in Index
               /\ pool'[pool'[k].second].second = None
               /\ \A s \in Slot : slots'[s].handle # pool'[k].second
    <3>1. k \in DOMAIN pool /\ pool'[k] = pool[k] /\ Second(k) # None /\ Second(k) = pool'[k].second
      BY <1>8, <2>0, <2>3 DEF Second
    <3>2. /\ \E s \in Slot : slots[s].handle = k
          /\ Second(k) \in DOMAIN pool /\ pool[Second(k)].of \in Index
          /\ pool[Second(k)].second = None
          /\ \A s \in Slot : slots[s].handle # Second(k)
      BY <1>1, <3>1 DEF PoolShape, Second
    <3>3. PICK s \in Slot : slots[s].handle = k
      BY <3>2
    <3>4. s # c
      BY <1>1, <1>3, <3>1, <3>3, Nothings DEF CacheTypes
    <3>5. slots'[s].handle = k
      BY <1>9, <3>3, <3>4
    <3>6. Second(k) # h
      BY <1>5, <3>2
    <3>7. \A t \in Slot : slots'[t].handle # Second(k)
      BY <1>9, <3>2, <3>6
    <3> QED
      BY <1>8, <3>1, <3>2, <3>5, <3>7
  <2>4. \A k, l \in DOMAIN pool' :
          pool'[k].second # None /\ pool'[k].second = pool'[l].second => k = l
    BY <1>1, <1>8, <2>0 DEF PoolShape, Second
  <2>5. ASSUME NEW k \in DOMAIN pool', pool'[k].of # Client
        PROVE  \/ \E s \in Slot : slots'[s].handle = k
               \/ \E l \in DOMAIN pool' : pool'[l].second = k
    <3>1. CASE k = h
      BY <1>3, <1>9, <3>1
    <3>2. CASE k # h
      <4>1. k \in DOMAIN pool /\ pool[k].of # Client
        BY <1>8, <2>5, <3>2
      <4>2. CASE \E s \in Slot : slots[s].handle = k
        <5>1. PICK s \in Slot : slots[s].handle = k
          BY <4>2
        <5>2. s # c
          BY <1>1, <1>3, <4>1, <5>1, Nothings DEF CacheTypes
        <5> QED
          BY <1>9, <5>1, <5>2
      <4>3. CASE \E l \in DOMAIN pool : Second(l) = k
        BY <1>8, <4>3 DEF Second
      <4> QED
        BY <1>1, <4>1, <4>2, <4>3 DEF PoolShape
    <3> QED
      BY <3>1, <3>2
  <2>6. \A k \in DOMAIN pool' : pool'[k].of = Client => pool'[k].sels = {}
    BY <1>1, <1>8, <2>0 DEF PoolShape
  <2>7. \A k, l \in DOMAIN pool' : pool'[k].of = Client /\ pool'[l].of = Client => k = l
    BY <1>1, <1>8, <2>0 DEF PoolShape
  <2> QED
    BY <2>1, <2>2, <2>3, <2>4, <2>5, <2>6, <2>7 DEF PoolShape, Taken, Second
<1>14. SelShape'
  <2>1. pool'[h].sels = {} /\ pool'[h].second = None
    BY <1>6, <1>8
  <2> QED
    BY <1>1, <1>4, <1>5, <1>8, <2>1, BareBlockKeepsDescriptors
<1>15. \A i \in Index : status[i] # c
  BY <1>1, <1>3 DEF TableShape, Taken
<1>16. TableShape'
  <2>1. ASSUME NEW i \in Index, status'[i] \in Slot
        PROVE  /\ slots'[status'[i]].handle # None
               /\ pool'[slots'[status'[i]].handle].of = i
    <3>1. PICK s \in Slot : s = status[i] /\ s = status'[i] /\ s # c
      BY <1>4, <1>15, <2>1
    <3>2. slots[s].handle # None /\ pool[slots[s].handle].of = i
      BY <1>1, <3>1 DEF TableShape, Taken
    <3>3. slots[s].handle \in DOMAIN pool
      BY <1>1, <3>2 DEF PoolShape, Taken
    <3> QED
      BY <1>8, <1>9, <3>1, <3>2, <3>3
  <2>2. ASSUME NEW s \in Slot, slots'[s].handle # None
        PROVE  Named(s)' \/ (main' # None /\ slots'[s].handle = main')
    <3>1. CASE s = c
      BY <1>4, <1>5, <1>9, <3>1
    <3>2. CASE s # c
      <4>1. Named(s)
        BY <1>1, <1>3, <1>9, <2>2, <3>2 DEF TableShape, Taken
      <4> QED
        BY <1>4, <4>1 DEF Named
    <3> QED
      BY <3>1, <3>2
  <2> QED
    BY <2>1, <2>2 DEF TableShape, Taken
<1>17. LoadShape'
  <2>1. LoadSlot' = c
    BY <1>4 DEF LoadSlot
  <2>2. ~Named(c)'
    BY <1>4, <1>15 DEF Named
  <2>3. slots'[c].handle = h /\ slots'[c].tick = tick
    BY <1>3, <1>9
  <2>4. pool'[h].of = req.index /\ pool'[h].sels = {} /\ pool'[h].second = None
    BY <1>6, <1>8
  <2> QED
    BY <1>3, <1>4, <2>1, <2>2, <2>3, <2>4 DEF LoadShape, Second
<1>18. Phases'
  BY <1>3, <1>4, <1>5 DEF Phases, Loads
<1> QED
  BY <1>11, <1>13, <1>14, <1>16, <1>17, <1>18 DEF DasInv

(* Another client's block is the only one of its kind.                      *)
LEMMA ClientTakesKeeps ==
  ASSUME DasInv, ClientTakes
  PROVE  DasInv'
<1>1. CacheTypes /\ PoolShape /\ SelShape /\ TableShape /\ LoadShape /\ Phases
  BY DEF DasInv
<1>2. /\ pc = "take" /\ main = None /\ pin = None /\ req = NoRequest
      /\ room.need \in Nat /\ \A h \in DOMAIN pool : pool[h].of # Client
      /\ pc' = "idle" /\ req' = NoRequest /\ cur' = None /\ main' = None /\ pin' = None
      /\ UNCHANGED <<status, slots, tick, locked, ldt, trust>>
  BY <1>1 DEF ClientTakes, Answered, Phases, cache
<1>3. LoadShape' /\ Phases'
  BY <1>2 DEF LoadShape, Phases, Loads
<1>4. CASE pool' = pool
  <2>1. CacheTypes'
    BY <1>1, <1>2, <1>4, NoRequestIsOne DEF CacheTypes
  <2>2. PoolShape' /\ SelShape'
    BY <1>1, <1>2, <1>4, SameBlocks
  <2>3. TableShape'
    BY <1>1, <1>2, <1>4 DEF TableShape, Taken, Named
  <2> QED
    BY <1>3, <2>1, <2>2, <2>3 DEF DasInv
<1>5. CASE pool' = With(NewHandle, Block(Client, room.need, {}, None))
  <2>1. PICK h, b : h = NewHandle /\ b = Block(Client, room.need, {}, None)
    OBVIOUS
  <2>2. h \in Handle /\ h \notin DOMAIN pool /\ h # None
    BY <1>1, <1>2, <2>1, FreshHandle
  <2>3. b = [of |-> Client, size |-> room.need, sels |-> {}, second |-> None]
    BY <2>1 DEF Block
  <2>4. b \in Blocks
    BY <1>2, <2>3 DEF Blocks
  <2>5. /\ DOMAIN pool' = DOMAIN pool \cup {h} /\ pool'[h] = b
        /\ \A k \in DOMAIN pool : pool'[k] = pool[k]
        /\ DOMAIN pool' \subseteq Handle /\ pool' \in [DOMAIN pool' -> Blocks]
    BY <1>1, <1>5, <2>1, <2>2, <2>4, WithMeans
  <2>6. CacheTypes'
    BY <1>1, <1>2, <2>5, NoRequestIsOne DEF CacheTypes
  <2>7. \A s \in Slot : slots[s].handle # h
    BY <1>1, <2>2 DEF PoolShape, Taken
  <2>8. pool'[h].of = Client /\ pool'[h].second = None /\ pool'[h].sels = {}
    BY <2>3, <2>5
  <2>9. PoolShape'
    <3>1. \A s \in Slot : slots'[s].handle # None =>
            slots'[s].handle \in DOMAIN pool' /\ pool'[slots'[s].handle].of \in Index
      BY <1>1, <1>2, <2>5 DEF PoolShape, Taken
    <3>2. \A s, t \in Slot :
            slots'[s].handle # None /\ slots'[s].handle = slots'[t].handle => s = t
      BY <1>1, <1>2 DEF PoolShape, Taken
    <3>3. ASSUME NEW k \in DOMAIN pool', pool'[k].second # None
          PROVE  /\ \E s \in Slot : slots'[s].handle = k
                 /\ pool'[k].second \in DOMAIN pool' /\ pool'[pool'[k].second].of \in Index
                 /\ pool'[pool'[k].second].second = None
                 /\ \A s \in Slot : slots'[s].handle # pool'[k].second
      <4>1. k \in DOMAIN pool /\ pool'[k] = pool[k] /\ Second(k) # None
            /\ Second(k) = pool'[k].second
        BY <2>5, <2>8, <3>3 DEF Second
      <4>2. /\ \E s \in Slot : slots[s].handle = k
            /\ Second(k) \in DOMAIN pool /\ pool[Second(k)].of \in Index
            /\ pool[Second(k)].second = None
            /\ \A s \in Slot : slots[s].handle # Second(k)
        BY <1>1, <4>1 DEF PoolShape, Second
      <4> QED
        BY <1>2, <2>5, <4>1, <4>2
    <3>4. \A k, l \in DOMAIN pool' :
            pool'[k].second # None /\ pool'[k].second = pool'[l].second => k = l
      BY <1>1, <2>5, <2>8 DEF PoolShape, Second
    <3>5. \A k \in DOMAIN pool' : pool'[k].of # Client =>
            \/ \E s \in Slot : slots'[s].handle = k
            \/ \E l \in DOMAIN pool' : pool'[l].second = k
      BY <1>1, <1>2, <2>5, <2>8 DEF PoolShape, Second
    <3>6. \A k \in DOMAIN pool' : pool'[k].of = Client => k = h
      BY <1>2, <2>5
    <3> QED
      BY <2>8, <3>1, <3>2, <3>3, <3>4, <3>5, <3>6 DEF PoolShape, Taken, Second
  <2>10. SelShape'
    BY <1>1, <1>2, <2>2, <2>5, <2>8, BareBlockKeepsDescriptors
  <2>11. TableShape'
    <3>1. \A i \in Index : status[i] \in Slot =>
            /\ slots[status[i]].handle # None /\ slots[status[i]].handle \in DOMAIN pool
            /\ pool[slots[status[i]].handle].of = i
      BY <1>1 DEF TableShape, Taken, PoolShape
    <3>2. \A s \in Slot : slots[s].handle # None => Named(s)'
      BY <1>1, <1>2 DEF TableShape, Taken, Named
    <3> QED
      BY <1>2, <2>5, <3>1, <3>2 DEF TableShape, Taken
  <2> QED
    BY <1>3, <2>6, <2>9, <2>10, <2>11 DEF DasInv
<1> QED
  BY <1>4, <1>5 DEF ClientTakes

-----------------------------------------------------------------------------
(* The end of a load.                                                       *)

(* The block that was loaded gets its name.                                 *)
LEMMA PublishKeeps ==
  ASSUME DasInv, NEW c, c = LoadSlot, main # None, req.index \in Index,
         status[req.index] \notin Slot, UNCHANGED <<slots, req>>, Publish(c), pin' = None,
         \A h \in DOMAIN pool : pool'[h].of = pool[h].of
  PROVE  /\ status' \in [Index -> Slot \cup {Flat, Unloaded}]
         /\ TableShape' /\ LoadShape' /\ Phases'
<1>1. CacheTypes /\ PoolShape /\ TableShape /\ LoadShape
  BY DEF DasInv
<1>2. c \in Slot /\ slots[c].handle = main /\ pool[main].of = req.index /\ main \in DOMAIN pool
  BY <1>1 DEF LoadShape, PoolShape, Taken
<1>3. /\ status' = [status EXCEPT ![req.index] = c]
      /\ pc' = "look" /\ cur' = None /\ main' = None
  BY DEF Publish
<1>4. status' \in [Index -> Slot \cup {Flat, Unloaded}]
  BY <1>1, <1>2, <1>3 DEF CacheTypes
<1>5. status'[req.index] = c /\ \A i \in Index : i # req.index => status'[i] = status[i]
  BY <1>1, <1>3 DEF CacheTypes
<1>6. TableShape'
  <2>1. ASSUME NEW i \in Index, status'[i] \in Slot
        PROVE  /\ slots'[status'[i]].handle # None
               /\ pool'[slots'[status'[i]].handle].of = i
    <3>1. CASE i = req.index
      BY <1>2, <1>5, <3>1
    <3>2. CASE i # req.index
      <4>1. PICK s \in Slot : s = status[i] /\ s = status'[i]
        BY <1>5, <2>1, <3>2
      <4>2. slots[s].handle # None /\ pool[slots[s].handle].of = i
        BY <1>1, <4>1 DEF TableShape, Taken
      <4>3. slots[s].handle \in DOMAIN pool
        BY <1>1, <4>2 DEF PoolShape, Taken
      <4> QED
        BY <4>1, <4>2, <4>3
    <3> QED
      BY <3>1, <3>2
  <2>2. ASSUME NEW s \in Slot, slots'[s].handle # None PROVE Named(s)'
    <3>1. CASE s = c
      BY <1>5, <3>1 DEF Named
    <3>2. CASE s # c
      <4>1. slots[s].handle # main
        BY <1>1, <1>2, <2>2, <3>2 DEF PoolShape, Taken
      <4>2. PICK i \in Index : status[i] = s
        BY <1>1, <2>2, <4>1 DEF TableShape, Taken, Named
      <4>3. i # req.index
        BY <4>2
      <4> QED
        BY <1>5, <4>2, <4>3 DEF Named
    <3> QED
      BY <3>1, <3>2
  <2> QED
    BY <2>1, <2>2 DEF TableShape, Taken
<1>7. LoadShape' /\ Phases'
  BY <1>3 DEF LoadShape, Phases, Loads
<1> QED
  BY <1>4, <1>6, <1>7

(* Where a load ends, its slot is the current one, or the remembered one.   *)
LEMMA LoadEnds ==
  ASSUME DasInv, \/ pc \in {"read", "post"}
                 \/ pc = "take" /\ main # None
  PROVE  /\ main # None /\ LoadSlot = IF pc = "take" THEN room.saved ELSE cur
         /\ req.index \in Index /\ status[req.index] \notin Slot
         /\ pc # "take" => pin = None
BY DEF DasInv, Phases, Loads, LoadSlot

(* The selectors of a plain or a grouped block.                             *)
LEMMA PostMintsKeeps ==
  ASSUME DasInv, PostMints
  PROVE  DasInv'
<1>1. CacheTypes /\ PoolShape /\ SelShape /\ LoadShape
  BY DEF DasInv
<1>2. PICK c, m, new : c = cur /\ m = main /\ new = Minted(SelsNeeded(req.index))
  OBVIOUS
<1>3. pc = "post"
  BY DEF PostMints
<1>4. /\ m # None /\ c = LoadSlot /\ req.index \in Index /\ status[req.index] \notin Slot
      /\ pin = None
  BY <1>2, <1>3, LoadEnds
<1>5. /\ ldt' = ldt \cup new /\ pool' = [pool EXCEPT ![m].sels = new] /\ Publish(c)
      /\ UNCHANGED <<slots, tick, locked, trust, req, pin, room>>
  BY <1>2 DEF PostMints
<1>6. new \subseteq Spare
  <2>1. SelsNeeded(req.index) \in Nat
    BY DasCacheAssumption DEF SelsNeeded
  <2>2. Cardinality(Spare) >= SelsNeeded(req.index)
    BY DEF PostMints
  <2> QED
    BY <1>2, <2>1, <2>2, MintedIsSpare
<1>7. new \subseteq Sels /\ new \cap ldt = {}
  BY <1>6 DEF Spare
<1>8. /\ c \in Slot /\ slots[c].handle = m /\ m \in DOMAIN pool
      /\ pool[m].of = req.index /\ pool[m].sels = {} /\ pool[m].second = None
  BY <1>1, <1>2, <1>4 DEF LoadShape, PoolShape, Taken, Second
<1>9. pool[m] \in Blocks
  BY <1>1, <1>8 DEF CacheTypes
<1>10. /\ DOMAIN pool' = DOMAIN pool
       /\ pool'[m] = [of |-> pool[m].of, size |-> pool[m].size, sels |-> new, second |-> None]
       /\ \A k \in DOMAIN pool : k # m => pool'[k] = pool[k]
  <2>1. pool' = [pool EXCEPT ![m] = [pool[m] EXCEPT !.sels = new]]
    BY <1>5
  <2>2. [pool[m] EXCEPT !.sels = new]
          = [of |-> pool[m].of, size |-> pool[m].size, sels |-> new, second |-> None]
    BY <1>8, <1>9 DEF Blocks
  <2> QED
    BY <1>8, <2>1, <2>2
<1>11. pool'[m] \in Blocks
  BY <1>7, <1>9, <1>10 DEF Blocks
<1>12. \A k \in DOMAIN pool : pool'[k].of = pool[k].of /\ pool'[k].second = pool[k].second
  BY <1>8, <1>10
<1>13. /\ status' \in [Index -> Slot \cup {Flat, Unloaded}]
       /\ TableShape' /\ LoadShape' /\ Phases'
  BY <1>2, <1>4, <1>5, <1>12, PublishKeeps
<1>14. CacheTypes'
  <2>1. pool' \in [DOMAIN pool' -> Blocks]
    <3>1. \A k \in DOMAIN pool : pool'[k] \in Blocks
      BY <1>1, <1>10, <1>11 DEF CacheTypes
    <3>2. pool' = [k \in DOMAIN pool |-> pool'[k]]
      BY <1>5
    <3> QED
      BY <1>10, <3>1, <3>2
  <2>2. ldt' \subseteq Sels
    BY <1>1, <1>5, <1>7 DEF CacheTypes
  <2> QED
    BY <1>1, <1>5, <1>10, <1>13, <2>1, <2>2 DEF CacheTypes
<1>15. PoolShape'
  <2>1. \A k \in DOMAIN pool' : pool'[k].of = Client => pool'[k].sels = {}
    BY <1>1, <1>4, <1>8, <1>10, Nothings DEF PoolShape
  <2>2. \A s \in Slot : slots[s].handle \in DOMAIN pool =>
          pool'[slots[s].handle].of = pool[slots[s].handle].of
    BY <1>12
  <2>3. \A k \in DOMAIN pool : Second(k) \in DOMAIN pool =>
          /\ pool'[Second(k)].of = pool[Second(k)].of
          /\ pool'[Second(k)].second = pool[Second(k)].second
    BY <1>12
  <2>4. \A s \in Slot : slots'[s].handle # None =>
          slots'[s].handle \in DOMAIN pool' /\ pool'[slots'[s].handle].of \in Index
    BY <1>1, <1>5, <1>10, <2>2 DEF PoolShape, Taken
  <2>5. \A s, t \in Slot : slots'[s].handle # None /\ slots'[s].handle = slots'[t].handle => s = t
    BY <1>1, <1>5 DEF PoolShape, Taken
  <2>6. \A k \in DOMAIN pool' : pool'[k].second # None =>
          /\ \E s \in Slot : slots'[s].handle = k
          /\ pool'[k].second \in DOMAIN pool' /\ pool'[pool'[k].second].of \in Index
          /\ pool'[pool'[k].second].second = None
          /\ \A s \in Slot : slots'[s].handle # pool'[k].second
    BY <1>1, <1>5, <1>10, <1>12, <2>3 DEF PoolShape, Second
  <2>7. \A k, l \in DOMAIN pool' :
          pool'[k].second # None /\ pool'[k].second = pool'[l].second => k = l
    BY <1>1, <1>10, <1>12 DEF PoolShape, Second
  <2>8. \A k \in DOMAIN pool' : pool'[k].of # Client =>
          \/ \E s \in Slot : slots'[s].handle = k
          \/ \E l \in DOMAIN pool' : pool'[l].second = k
    BY <1>1, <1>5, <1>10, <1>12 DEF PoolShape, Second
  <2>9. \A k, l \in DOMAIN pool' : pool'[k].of = Client /\ pool'[l].of = Client => k = l
    BY <1>1, <1>10, <1>12 DEF PoolShape
  <2> QED
    BY <2>1, <2>4, <2>5, <2>6, <2>7, <2>8, <2>9 DEF PoolShape, Taken, Second
<1>16. SelShape'
  <2> SUFFICES ASSUME trust # "stray" PROVE SelShape'
    BY <1>5 DEF SelShape
  <2>0. /\ \A k \in DOMAIN pool : pool[k].sels \subseteq ldt
        /\ trust = "exact" => \A x \in ldt : \E k \in DOMAIN pool : x \in pool[k].sels
        /\ \A k, l \in DOMAIN pool : k # l => pool[k].sels \cap pool[l].sels = {}
        /\ \A k \in DOMAIN pool : Second(k) # None => pool[Second(k)].sels # {}
    BY <1>1 DEF SelShape
  <2>1. \A k \in DOMAIN pool' : pool'[k].sels \subseteq ldt'
    BY <1>5, <1>10, <2>0
  <2>2. ASSUME trust' = "exact", NEW x \in ldt' PROVE \E k \in DOMAIN pool' : x \in pool'[k].sels
    <3>1. CASE x \in new
      BY <1>8, <1>10, <3>1
    <3>2. CASE x \in ldt
      <4>1. PICK k \in DOMAIN pool : x \in pool[k].sels
        BY <1>5, <2>0, <2>2, <3>2
      <4> QED
        BY <1>8, <1>10, <4>1
    <3> QED
      BY <1>5, <2>2, <3>1, <3>2
  <2>3. \A k, l \in DOMAIN pool' : k # l => pool'[k].sels \cap pool'[l].sels = {}
    BY <1>7, <1>10, <2>0
  <2>4. \A k \in DOMAIN pool' : pool'[k].second # None => pool'[pool'[k].second].sels # {}
    <3> SUFFICES ASSUME NEW k \in DOMAIN pool', pool'[k].second # None
                 PROVE  pool'[pool'[k].second].sels # {}
      OBVIOUS
    <3>1. /\ k \in DOMAIN pool /\ Second(k) # None /\ Second(k) = pool'[k].second
          /\ Second(k) \in DOMAIN pool
      BY <1>1, <1>10, <1>12 DEF PoolShape, Second
    <3>2. Second(k) # m
      BY <1>1, <1>8, <3>1 DEF PoolShape
    <3> QED
      BY <1>10, <2>0, <3>1, <3>2
  <2> QED
    BY <2>1, <2>2, <2>3, <2>4 DEF SelShape, Second
<1> QED
  BY <1>13, <1>14, <1>15, <1>16 DEF DasInv

(* The decode block of a compressed block, with or without a selector.      *)
LEMMA DecodeKeeps ==
  ASSUME DasInv, NEW c, c = LoadSlot, main # None, req.index \in Index,
         status[req.index] \notin Slot, Decode(c), pin' = None,
         UNCHANGED <<slots, tick, locked, req>>
  PROVE  DasInv'
<1>1. CacheTypes /\ PoolShape /\ SelShape /\ LoadShape
  BY DEF DasInv
<1>2. PICK h, m, new : h = NewHandle /\ m = main /\ new = IF Spare = {} THEN {} ELSE Minted(1)
  OBVIOUS
<1>3. PICK b : b = Block(req.index, Size[req.index], new, None)
  OBVIOUS
<1>4. /\ pool' = [With(h, b) EXCEPT ![m].second = h]
      /\ ldt' = ldt \cup new /\ trust' = (IF new = {} THEN "stray" ELSE trust)
      /\ Publish(c)
  BY <1>2, <1>3 DEF Decode
<1>5. /\ c \in Slot /\ slots[c].handle = m /\ m \in DOMAIN pool /\ m # None
      /\ pool[m].of = req.index /\ pool[m].sels = {} /\ pool[m].second = None
  BY <1>1, <1>2 DEF LoadShape, PoolShape, Taken, Second
<1>6. h \in Handle /\ h \notin DOMAIN pool /\ h # None /\ h # m
  <2>1. Taken(c) /\ Second(slots[c].handle) = None
    BY <1>5 DEF Taken, Second
  <2> QED
    BY <1>1, <1>2, <1>5, <2>1, FreshHandle
<1>7. new \subseteq Spare
  <2>1. CASE Spare = {}
    BY <1>2, <2>1
  <2>2. CASE Spare # {}
    <3>1. IsFiniteSet(Spare)
      BY DasCacheAssumption, FS_Subset DEF Spare
    <3>2. Cardinality(Spare) >= 1
      BY <2>2, <3>1, FS_EmptySet, FS_CardinalityType
    <3> QED
      BY <1>2, <2>2, <3>2, MintedIsSpare
  <2> QED
    BY <2>1, <2>2
<1>8. new \subseteq Sels /\ new \cap ldt = {}
  BY <1>7 DEF Spare
<1>9. b = [of |-> req.index, size |-> Size[req.index], sels |-> new, second |-> None]
  BY <1>3 DEF Block
<1>10. b \in Blocks /\ pool[m] \in Blocks
  <2>1. Size[req.index] \in Nat
    BY DasCacheAssumption
  <2>2. b \in Blocks
    BY <1>8, <1>9, <2>1 DEF Blocks
  <2>3. pool[m] \in Blocks
    BY <1>1, <1>5 DEF CacheTypes
  <2> QED
    BY <2>2, <2>3
<1>11. PICK p : p = With(h, b)
  OBVIOUS
<1>12. p = [k \in DOMAIN pool \cup {h} |-> IF k = h THEN b ELSE pool[k]]
  BY <1>11 DEF With
<1>13. /\ DOMAIN pool' = DOMAIN pool \cup {h} /\ pool'[h] = b
       /\ pool'[m] = [of |-> req.index, size |-> pool[m].size, sels |-> {}, second |-> h]
       /\ \A k \in DOMAIN pool : k # m => pool'[k] = pool[k]
       /\ pool' = [k \in DOMAIN pool \cup {h} |-> pool'[k]]
  <2>1. p[m] = pool[m]
    BY <1>5, <1>6, <1>12
  <2>2. pool' = [p EXCEPT ![m] = [pool[m] EXCEPT !.second = h]]
    BY <1>4, <1>11, <2>1
  <2>3. [pool[m] EXCEPT !.second = h]
          = [of |-> req.index, size |-> pool[m].size, sels |-> {}, second |-> h]
    BY SMTT(20), <1>5, <1>10 DEF Blocks
  <2> QED
    BY <1>5, <1>6, <1>12, <2>2, <2>3
<1>14. \A k \in DOMAIN pool : pool'[k].of = pool[k].of /\ pool'[k].sels = pool[k].sels
  BY <1>5, <1>13
<1>15. \A k \in DOMAIN pool : k # m => pool'[k].second = pool[k].second
  BY <1>13
<1>16. pool'[m].second = h /\ pool'[h].second = None /\ pool'[h].of = req.index
       /\ pool'[h].sels = new
  BY <1>9, <1>13
<1>17. /\ status' \in [Index -> Slot \cup {Flat, Unloaded}]
       /\ TableShape' /\ LoadShape' /\ Phases'
  BY <1>4, <1>14, PublishKeeps
<1>18. CacheTypes'
  <2>1. pool'[m] \in Blocks
    BY <1>6, <1>10, <1>13 DEF Blocks
  <2>2. \A k \in DOMAIN pool \cup {h} : pool'[k] \in Blocks
    BY <1>1, <1>10, <1>13, <2>1 DEF CacheTypes
  <2>3. pool' \in [DOMAIN pool' -> Blocks] /\ DOMAIN pool' \subseteq Handle
    <3>1. pool' \in [DOMAIN pool' -> Blocks]
      BY <1>13, <2>2
    <3>2. DOMAIN pool' \subseteq Handle
      BY <1>1, <1>6, <1>13 DEF CacheTypes
    <3> QED
      BY <3>1, <3>2
  <2>4. ldt' \subseteq Sels /\ trust' \in {"exact", "leaky", "stray"}
    BY <1>1, <1>4, <1>8 DEF CacheTypes
  <2> QED
    BY <1>1, <1>17, <2>3, <2>4 DEF CacheTypes
<1>19. \A s \in Slot : slots[s].handle # h
  BY <1>1, <1>6 DEF PoolShape, Taken
<1>20. \A k \in DOMAIN pool : pool[k].second # m /\ pool[k].second # h
  <2> SUFFICES ASSUME NEW k \in DOMAIN pool PROVE pool[k].second # m /\ pool[k].second # h
    OBVIOUS
  <2>1. CASE Second(k) = None
    BY <1>5, <1>6, <2>1 DEF Second
  <2>2. CASE Second(k) # None
    <3>1. Second(k) \in DOMAIN pool /\ slots[c].handle # Second(k)
      BY <1>1, <1>5, <2>2 DEF PoolShape
    <3> QED
      BY <1>5, <1>6, <3>1 DEF Second
  <2> QED
    BY <2>1, <2>2
<1>21. Client \notin Index
  BY Nothings
<1>22. PoolShape'
  <2>1. \A s \in Slot : slots'[s].handle # None =>
          slots'[s].handle \in DOMAIN pool' /\ pool'[slots'[s].handle].of \in Index
    <3> SUFFICES ASSUME NEW s \in Slot, slots[s].handle # None
                 PROVE  /\ slots[s].handle \in DOMAIN pool'
                        /\ pool'[slots[s].handle].of \in Index
      OBVIOUS
    <3>1. slots[s].handle \in DOMAIN pool /\ pool[slots[s].handle].of \in Index
      BY <1>1 DEF PoolShape, Taken
    <3> QED
      BY <1>13, <1>14, <3>1
  <2>2. \A s, t \in Slot : slots'[s].handle # None /\ slots'[s].handle = slots'[t].handle => s = t
    BY <1>1 DEF PoolShape, Taken
  <2>3. ASSUME NEW k \in DOMAIN pool', pool'[k].second # None
        PROVE  /\ \E s \in Slot : slots'[s].handle = k
               /\ pool'[k].second \in DOMAIN pool' /\ pool'[pool'[k].second].of \in Index
               /\ pool'[pool'[k].second].second = None
               /\ \A s \in Slot : slots'[s].handle # pool'[k].second
    <3>1. CASE k = m
      BY <1>5, <1>13, <1>16, <1>19, <3>1
    <3>2. CASE k # m
      <4>1. k \in DOMAIN pool /\ Second(k) # None /\ Second(k) = pool'[k].second
        BY <1>13, <1>15, <1>16, <2>3, <3>2 DEF Second
      <4>2. /\ \E s \in Slot : slots[s].handle = k
            /\ Second(k) \in DOMAIN pool /\ pool[Second(k)].of \in Index
            /\ pool[Second(k)].second = None
            /\ \A s \in Slot : slots[s].handle # Second(k)
        BY <1>1, <4>1 DEF PoolShape, Second
      <4>3. Second(k) # m
        BY <1>20, <4>1 DEF Second
      <4>4. pool'[Second(k)] = pool[Second(k)]
        BY <1>13, <4>2, <4>3
      <4> QED
        BY <1>13, <4>1, <4>2, <4>4
    <3> QED
      BY <3>1, <3>2
  <2>4. ASSUME NEW k \in DOMAIN pool', NEW l \in DOMAIN pool', pool'[k].second # None,
               pool'[k].second = pool'[l].second
        PROVE  k = l
    <3>1. k # h /\ l # h
      BY <1>16, <2>4
    <3>2. k \in DOMAIN pool /\ l \in DOMAIN pool
      BY <1>13, <3>1
    <3>3. CASE k = m \/ l = m
      BY <1>15, <1>16, <1>20, <2>4, <3>2, <3>3
    <3>4. CASE k # m /\ l # m
      BY <1>1, <1>15, <2>4, <3>2, <3>4 DEF PoolShape, Second
    <3> QED
      BY <3>3, <3>4
  <2>5. ASSUME NEW k \in DOMAIN pool', pool'[k].of # Client
        PROVE  \/ \E s \in Slot : slots'[s].handle = k
               \/ \E l \in DOMAIN pool' : pool'[l].second = k
    <3>1. CASE k = h
      BY <1>5, <1>13, <1>16, <3>1
    <3>2. CASE k # h
      <4>1. k \in DOMAIN pool /\ pool[k].of # Client /\ k # None
        BY <1>1, <1>13, <1>14, <2>5, <3>2, Nothings DEF CacheTypes
      <4>2. CASE \E s \in Slot : slots[s].handle = k
        BY <4>2
      <4>3. CASE \E l \in DOMAIN pool : Second(l) = k
        <5>1. PICK l \in DOMAIN pool : pool[l].second = k
          BY <4>3 DEF Second
        <5>2. l # m
          BY <1>5, <4>1, <5>1
        <5> QED
          BY <1>13, <1>15, <5>1, <5>2
      <4> QED
        BY <1>1, <4>1, <4>2, <4>3 DEF PoolShape
    <3> QED
      BY <3>1, <3>2
  <2>6. \A k \in DOMAIN pool' : pool'[k].of = Client =>
          k \in DOMAIN pool /\ pool[k].of = Client /\ pool'[k].sels = pool[k].sels
    BY <1>13, <1>14, <1>16, <1>21
  <2>7. \A k \in DOMAIN pool' : pool'[k].of = Client => pool'[k].sels = {}
    BY <1>1, <2>6 DEF PoolShape
  <2>8. \A k, l \in DOMAIN pool' : pool'[k].of = Client /\ pool'[l].of = Client => k = l
    BY <1>1, <2>6 DEF PoolShape
  <2> QED
    BY <2>1, <2>2, <2>3, <2>4, <2>5, <2>7, <2>8 DEF PoolShape, Taken, Second
<1>23. SelShape'
  <2> SUFFICES ASSUME trust' # "stray" PROVE SelShape'
    BY DEF SelShape
  <2>1. new # {} /\ trust' = trust
    BY <1>4
  <2>2. /\ \A k \in DOMAIN pool : pool[k].sels \subseteq ldt
        /\ trust = "exact" => \A x \in ldt : \E k \in DOMAIN pool : x \in pool[k].sels
        /\ \A k, l \in DOMAIN pool : k # l => pool[k].sels \cap pool[l].sels = {}
        /\ \A k \in DOMAIN pool : Second(k) # None => pool[Second(k)].sels # {}
    BY <1>1, <2>1 DEF SelShape
  <2>3. \A k \in DOMAIN pool' : k = h \/ k \in DOMAIN pool
    BY <1>13
  <2>4. \A k \in DOMAIN pool' : pool'[k].sels \subseteq ldt'
    BY <1>4, <1>14, <1>16, <2>2, <2>3
  <2>5. ASSUME trust = "exact", NEW x \in ldt' PROVE \E k \in DOMAIN pool' : x \in pool'[k].sels
    <3>1. CASE x \in new
      BY <1>13, <1>16, <3>1
    <3>2. CASE x \in ldt
      <4>1. PICK k \in DOMAIN pool : x \in pool[k].sels
        BY <2>2, <2>5, <3>2
      <4> QED
        BY <1>13, <1>14, <4>1
    <3> QED
      BY <1>4, <2>5, <3>1, <3>2
  <2>6. ASSUME NEW k \in DOMAIN pool', NEW l \in DOMAIN pool', k # l
        PROVE  pool'[k].sels \cap pool'[l].sels = {}
    <3>1. CASE k = h
      BY <1>8, <1>14, <1>16, <2>2, <2>3, <2>6, <3>1
    <3>2. CASE l = h
      BY <1>8, <1>14, <1>16, <2>2, <2>3, <2>6, <3>2
    <3>3. CASE k # h /\ l # h
      BY <1>14, <2>2, <2>3, <2>6, <3>3
    <3> QED
      BY <3>1, <3>2, <3>3
  <2>7. ASSUME NEW k \in DOMAIN pool', pool'[k].second # None
        PROVE  pool'[pool'[k].second].sels # {}
    <3>1. CASE k = m
      BY <1>16, <2>1, <3>1
    <3>2. CASE k # m
      <4>1. k \in DOMAIN pool /\ Second(k) # None /\ Second(k) = pool'[k].second
        BY <1>13, <1>15, <1>16, <2>7, <3>2 DEF Second
      <4>2. Second(k) \in DOMAIN pool /\ pool[Second(k)].sels # {}
        BY <1>1, <2>2, <4>1 DEF PoolShape
      <4> QED
        BY <1>14, <4>1, <4>2
    <3> QED
      BY <3>1, <3>2
  <2> QED
    BY <2>1, <2>4, <2>5, <2>6, <2>7 DEF SelShape, Second
<1> QED
  BY <1>17, <1>18, <1>22, <1>23 DEF DasInv

(* Both ways a compressed block gets its decode block.                      *)
LEMMA DecodesKeep ==
  ASSUME DasInv, PostDecodes \/ TakeDecodes
  PROVE  DasInv'
<1>1. CASE PostDecodes
  <2>1. pc = "post" /\ Decode(cur) /\ UNCHANGED <<slots, tick, locked, req, pin>>
    BY <1>1 DEF PostDecodes
  <2>2. /\ main # None /\ cur = LoadSlot /\ pin = None
        /\ req.index \in Index /\ status[req.index] \notin Slot
    BY <2>1, LoadEnds
  <2> QED
    BY <2>1, <2>2, DecodeKeeps
<1>2. CASE TakeDecodes
  <2>1. pc = "take" /\ main # None /\ Decode(room.saved) /\ pin' = None
        /\ UNCHANGED <<slots, tick, locked, req>>
    BY <1>2 DEF TakeDecodes
  <2>2. /\ room.saved = LoadSlot
        /\ req.index \in Index /\ status[req.index] \notin Slot
    BY <2>1, LoadEnds
  <2> QED
    BY <2>1, <2>2, DecodeKeeps
<1> QED
  BY <1>1, <1>2

(* A load that fails gives back its block, which has no decode block yet;   *)
(* descriptors may be lost, and then no longer count as exact.              *)
LEMMA FailKeeps ==
  ASSUME DasInv, NEW c, c = LoadSlot, main # None, FailFree(c), pin' = None,
         UNCHANGED <<status, tick, locked>>, ldt \subseteq ldt', ldt' \subseteq Sels,
         trust' \in {"exact", "leaky", "stray"},
         trust' # "stray" => trust # "stray",
         trust' = "exact" => trust = "exact" /\ ldt' = ldt
  PROVE  DasInv'
<1>1. CacheTypes /\ PoolShape /\ SelShape /\ TableShape /\ LoadShape
  BY DEF DasInv
<1>2. PICK m : m = main
  OBVIOUS
<1>3. /\ c \in Slot /\ slots[c].handle = m /\ m \in DOMAIN pool /\ m # None /\ ~Named(c)
      /\ pool[m].sels = {} /\ pool[m].second = None
  BY <1>1, <1>2 DEF LoadShape, PoolShape, Taken, Second
<1>4. /\ slots' = [slots EXCEPT ![c].handle = None] /\ pool' = Without({m})
      /\ pc' = "idle" /\ req' = NoRequest /\ cur' = None /\ main' = None
  BY <1>2, <1>3 DEF FailFree, Answered
<1>5. {c} \in SUBSET Slot /\ \A s \in {c} : Taken(s)
  BY <1>3 DEF Taken
<1>6. Freed({c}) = {m}
  <2>1. \A h : h \in Freed({c}) <=> \/ \E s \in {c} : slots[s].handle = h
                                    \/ \E s \in {c} : Second(slots[s].handle) = h /\ h # None
    BY <1>1, <1>5, FreedHandles
  <2>2. \A h : h \in Freed({c}) <=> h = m
    BY <1>3, <2>1 DEF Second
  <2> QED
    BY <2>2
<1>7. slots \in [Slot -> [handle : Handle \cup {None}, tick : 0..Wrap - 1]]
  BY <1>1 DEF CacheTypes
<1>8. \A s \in Slot : slots'[s].handle = IF s \in {c} THEN None ELSE slots[s].handle
  BY <1>3, <1>4, <1>7
<1>9. PoolShape'
  BY <1>1, <1>4, <1>5, <1>6, <1>8, FreeingKeepsShape
<1>10. /\ DOMAIN pool' = DOMAIN pool \ {m}
       /\ \A h \in DOMAIN pool' : pool'[h] = pool[h]
       /\ DOMAIN pool' \subseteq Handle /\ pool' \in [DOMAIN pool' -> Blocks]
  BY <1>1, <1>4, WithoutKeeps
<1>11. slots' \in [Slot -> [handle : Handle \cup {None}, tick : 0..Wrap - 1]]
  BY <1>3, <1>4, <1>7
<1>12. CacheTypes'
  BY <1>1, <1>4, <1>10, <1>11, NoRequestIsOne DEF CacheTypes
<1>13. SelShape'
  <2> SUFFICES ASSUME trust' # "stray" PROVE SelShape'
    BY DEF SelShape
  <2>1. /\ \A h \in DOMAIN pool : pool[h].sels \subseteq ldt
        /\ trust = "exact" => \A x \in ldt : \E h \in DOMAIN pool : x \in pool[h].sels
        /\ \A h, k \in DOMAIN pool : h # k => pool[h].sels \cap pool[k].sels = {}
        /\ \A h \in DOMAIN pool : Second(h) # None => pool[Second(h)].sels # {}
    BY <1>1 DEF SelShape
  <2>2. \A h \in DOMAIN pool' : pool'[h].sels \subseteq ldt'
    BY <1>10, <2>1
  <2>3. ASSUME trust' = "exact", NEW x \in ldt' PROVE \E h \in DOMAIN pool' : x \in pool'[h].sels
    <3>1. PICK h \in DOMAIN pool : x \in pool[h].sels
      BY <2>1, <2>3
    <3>2. h # m
      BY <1>3, <3>1
    <3> QED
      BY <1>10, <3>1, <3>2
  <2>4. \A h, k \in DOMAIN pool' : h # k => pool'[h].sels \cap pool'[k].sels = {}
    BY <1>10, <2>1
  <2>5. ASSUME NEW h \in DOMAIN pool', pool'[h].second # None
        PROVE  pool'[pool'[h].second].sels # {}
    <3>1. /\ h \in DOMAIN pool /\ Second(h) # None /\ Second(h) = pool'[h].second
          /\ pool'[h].second \in DOMAIN pool'
      BY <1>9, <1>10, <2>5 DEF PoolShape, Second
    <3> QED
      BY <1>10, <2>1, <3>1
  <2> QED
    BY <2>2, <2>3, <2>4, <2>5 DEF SelShape, Second
<1>14. TableShape'
  <2>1. ASSUME NEW i \in Index, status'[i] \in Slot
        PROVE  /\ slots'[status'[i]].handle # None
               /\ pool'[slots'[status'[i]].handle].of = i
    <3>1. PICK s \in Slot : s = status[i] /\ s = status'[i] /\ s # c
      BY <1>3, <2>1 DEF Named
    <3>2. slots[s].handle # None /\ pool[slots[s].handle].of = i
      BY <1>1, <3>1 DEF TableShape, Taken
    <3>3. slots'[s].handle = slots[s].handle
      BY <1>8, <3>1
    <3>4. slots'[s].handle \in DOMAIN pool'
      BY <1>9, <3>2, <3>3 DEF PoolShape, Taken
    <3> QED
      BY <1>10, <3>1, <3>2, <3>3, <3>4
  <2>2. ASSUME NEW s \in Slot, slots'[s].handle # None PROVE Named(s)'
    <3>1. s # c /\ slots[s].handle # None
      BY <1>8, <2>2
    <3>2. slots[s].handle # m
      BY <1>1, <1>3, <3>1 DEF PoolShape, Taken
    <3> QED
      BY <1>1, <1>2, <3>1, <3>2 DEF TableShape, Taken, Named
  <2> QED
    BY <2>1, <2>2 DEF TableShape, Taken
<1>15. LoadShape' /\ Phases'
  BY <1>4 DEF LoadShape, Phases, Loads
<1> QED
  BY <1>9, <1>12, <1>13, <1>14, <1>15 DEF DasInv

(* The three ways a load fails once it has its block.                       *)
LEMMA FailuresKeep ==
  ASSUME DasInv, ReadFails \/ PostMintFails \/ TakeFails
  PROVE  DasInv'
<1>1. ldt \subseteq Sels /\ trust \in {"exact", "leaky", "stray"}
  BY DEF DasInv, CacheTypes
<1>2. CASE ReadFails
  <2>1. pc = "read" /\ FailFree(cur) /\ UNCHANGED <<status, tick, locked, ldt, trust, pin>>
    BY <1>2 DEF ReadFails
  <2>2. main # None /\ cur = LoadSlot /\ pin = None
    BY <2>1, LoadEnds
  <2> QED
    BY <1>1, <2>1, <2>2, FailKeeps
<1>3. CASE PostMintFails
  <2>1. /\ pc = "post" /\ FailFree(cur) /\ UNCHANGED <<status, tick, locked, pin>>
        /\ ldt' = Sels
        /\ trust' = IF Spare # {} /\ trust = "exact" THEN "leaky" ELSE trust
    BY <1>3 DEF PostMintFails
  <2>2. main # None /\ cur = LoadSlot /\ pin = None
    BY <2>1, LoadEnds
  <2>3. Spare = {} => ldt' = ldt
    BY <1>1, <2>1 DEF Spare
  <2>4. /\ trust' \in {"exact", "leaky", "stray"} /\ trust' # "stray" => trust # "stray"
        /\ trust' = "exact" => trust = "exact" /\ ldt' = ldt
    BY <1>1, <2>1, <2>3
  <2> QED
    BY <1>1, <2>1, <2>2, <2>4, FailKeeps
<1>4. CASE TakeFails
  <2>1. /\ pc = "take" /\ main # None /\ FailFree(room.saved) /\ pin' = None
        /\ UNCHANGED <<status, tick, locked, ldt, trust>>
    BY <1>4 DEF TakeFails
  <2>2. room.saved = LoadSlot
    BY <2>1, LoadEnds
  <2> QED
    BY <1>1, <2>1, <2>2, FailKeeps
<1> QED
  BY <1>2, <1>3, <1>4

(* Another client's block leaves as it came.                                *)
LEMMA ClientFreesKeeps ==
  ASSUME DasInv, ClientFrees
  PROVE  DasInv'
<1>1. CacheTypes /\ PoolShape /\ SelShape /\ TableShape /\ Phases
  BY DEF DasInv
<1>2. PICK m \in DOMAIN pool : pool[m].of = Client /\ pool' = Without({m})
  BY DEF ClientFrees
<1>3. /\ pc = "idle" /\ main = None
      /\ UNCHANGED <<status, slots, tick, locked, ldt, trust, pc, req, cur, main, pin, room>>
  BY <1>1 DEF ClientFrees, cache, locals, Phases
<1>4. /\ DOMAIN pool' = DOMAIN pool \ {m}
      /\ \A h \in DOMAIN pool' : pool'[h] = pool[h]
      /\ DOMAIN pool' \subseteq Handle /\ pool' \in [DOMAIN pool' -> Blocks]
  BY <1>1, <1>2, WithoutKeeps
<1>5. Client \notin Index
  BY Nothings
<1>6. \A s \in Slot : slots[s].handle # None =>
        slots[s].handle \in DOMAIN pool' /\ pool[slots[s].handle].of \in Index
  BY <1>1, <1>2, <1>4, <1>5 DEF PoolShape, Taken
<1>7. \A k \in DOMAIN pool : Second(k) # m \/ Second(k) = None
  BY <1>1, <1>2, <1>5 DEF PoolShape
<1>8. pool[m].second = None /\ pool[m].sels = {}
  <2>1. pool[m].second # None => \E s \in Slot : slots[s].handle = m
    BY <1>1, <1>2 DEF PoolShape, Second
  <2>2. m # None
    BY <1>1, <1>2, Nothings DEF CacheTypes
  <2> QED
    BY <1>1, <1>2, <1>5, <2>1, <2>2 DEF PoolShape, Taken
<1>9. CacheTypes'
  BY <1>1, <1>3, <1>4 DEF CacheTypes
<1>10. PoolShape'
  <2>1. \A s \in Slot : slots'[s].handle # None =>
          slots'[s].handle \in DOMAIN pool' /\ pool'[slots'[s].handle].of \in Index
    BY <1>3, <1>4, <1>6
  <2>2. \A s, t \in Slot : slots'[s].handle # None /\ slots'[s].handle = slots'[t].handle => s = t
    BY <1>1, <1>3 DEF PoolShape, Taken
  <2>3. ASSUME NEW k \in DOMAIN pool', pool'[k].second # None
        PROVE  /\ \E s \in Slot : slots'[s].handle = k
               /\ pool'[k].second \in DOMAIN pool' /\ pool'[pool'[k].second].of \in Index
               /\ pool'[pool'[k].second].second = None
               /\ \A s \in Slot : slots'[s].handle # pool'[k].second
    <3>1. /\ k \in DOMAIN pool /\ pool'[k] = pool[k]
          /\ Second(k) # None /\ Second(k) = pool'[k].second
      BY <1>4, <2>3 DEF Second
    <3>2. /\ \E s \in Slot : slots[s].handle = k
          /\ Second(k) \in DOMAIN pool /\ pool[Second(k)].of \in Index
          /\ pool[Second(k)].second = None
          /\ \A s \in Slot : slots[s].handle # Second(k)
      BY <1>1, <3>1 DEF PoolShape, Second
    <3>3. Second(k) # m
      BY <1>7, <3>1
    <3>4. Second(k) \in DOMAIN pool' /\ pool'[Second(k)] = pool[Second(k)]
      BY <1>4, <3>2, <3>3
    <3> QED
      BY <1>3, <3>1, <3>2, <3>4
  <2>4. \A k, l \in DOMAIN pool' :
          pool'[k].second # None /\ pool'[k].second = pool'[l].second => k = l
    BY <1>1, <1>4 DEF PoolShape, Second
  <2>5. ASSUME NEW k \in DOMAIN pool', pool'[k].of # Client
        PROVE  \/ \E s \in Slot : slots'[s].handle = k
               \/ \E l \in DOMAIN pool' : pool'[l].second = k
    <3>1. k \in DOMAIN pool /\ pool[k].of # Client /\ k # None
      BY <1>1, <1>4, <2>5, Nothings DEF CacheTypes
    <3>2. ASSUME NEW l \in DOMAIN pool, Second(l) = k
          PROVE  l \in DOMAIN pool' /\ pool'[l].second = k
      BY <1>4, <1>8, <3>1, <3>2 DEF Second
    <3> QED
      BY <1>1, <1>3, <3>1, <3>2 DEF PoolShape
  <2>6. \A k \in DOMAIN pool' : pool'[k].of # Client
    BY <1>1, <1>2, <1>4 DEF PoolShape
  <2> QED
    BY <2>1, <2>2, <2>3, <2>4, <2>5, <2>6 DEF PoolShape, Taken, Second
<1>11. SelShape'
  <2> SUFFICES ASSUME trust # "stray" PROVE SelShape'
    BY <1>3 DEF SelShape
  <2>1. /\ \A h \in DOMAIN pool : pool[h].sels \subseteq ldt
        /\ trust = "exact" => \A x \in ldt : \E h \in DOMAIN pool : x \in pool[h].sels
        /\ \A h, k \in DOMAIN pool : h # k => pool[h].sels \cap pool[k].sels = {}
        /\ \A h \in DOMAIN pool : Second(h) # None => pool[Second(h)].sels # {}
    BY <1>1 DEF SelShape
  <2>2. trust = "exact" => \A x \in ldt : \E h \in DOMAIN pool' : x \in pool'[h].sels
    BY <1>4, <1>8, <2>1
  <2>3. ASSUME NEW h \in DOMAIN pool', pool'[h].second # None
        PROVE  pool'[pool'[h].second].sels # {}
    <3>1. /\ h \in DOMAIN pool /\ Second(h) # None /\ Second(h) = pool'[h].second
          /\ pool'[h].second \in DOMAIN pool'
      BY <1>4, <1>10, <2>3 DEF PoolShape, Second
    <3> QED
      BY <1>4, <2>1, <3>1
  <2> QED
    BY <1>3, <1>4, <2>1, <2>2, <2>3 DEF SelShape, Second
<1>12. TableShape'
  <2>1. ASSUME NEW i \in Index, status[i] \in Slot
        PROVE  slots[status[i]].handle # None /\ pool'[slots[status[i]].handle].of = i
    BY <1>1, <1>4, <1>6, <2>1 DEF TableShape, Taken
  <2>2. \A s \in Slot : slots[s].handle # None => Named(s)'
    BY <1>1, <1>3 DEF TableShape, Taken, Named
  <2> QED
    BY <1>3, <2>1, <2>2 DEF TableShape, Taken
<1>13. LoadShape' /\ Phases'
  <2>1. LoadShape'
    BY <1>3 DEF LoadShape
  <2> QED
    BY <1>1, <1>3, <2>1 DEF Phases, Loads
<1> QED
  BY <1>9, <1>10, <1>11, <1>12, <1>13 DEF DasInv

-----------------------------------------------------------------------------
(* The theorems.                                                            *)

(* The cache starts empty and in shape.                                     *)
LEMMA CacheBegins ==
  ASSUME Init
  PROVE  DasInv
<1>1. CacheTypes
  <2>1. tick \in 0..Wrap - 1 /\ 0 \in 0..Wrap - 1
    BY Nothings DEF Init
  <2>2. DOMAIN pool = {} /\ pool \in [DOMAIN pool -> Blocks]
    BY DEF Init
  <2>3. slots \in [Slot -> [handle : Handle \cup {None}, tick : 0..Wrap - 1]]
    BY <2>1 DEF Init
  <2>4. status \in [Index -> Slot \cup {Flat, Unloaded}]
    BY DEF Init
  <2> QED
    BY <2>1, <2>2, <2>3, <2>4, NoRequestIsOne DEF Init, CacheTypes
<1>2. DOMAIN pool = {} /\ \A s \in Slot : slots[s].handle = None
  BY DEF Init
<1>3. PoolShape /\ SelShape
  BY <1>2 DEF Init, PoolShape, SelShape, Taken
<1>4. TableShape
  BY <1>2, Nothings DEF Init, TableShape, Taken
<1>5. LoadShape /\ Phases
  BY DEF Init, LoadShape, Phases, Loads
<1> QED
  BY <1>1, <1>3, <1>4, <1>5 DEF DasInv

(* Every step of every loop keeps the cache in shape.                       *)
LEMMA CacheStep ==
  ASSUME DasInv, [Next]_vars
  PROVE  DasInv'
<1>1. CASE Quiet
  BY <1>1, QuietKeeps
<1>2. CASE ReserveEvicts \/ AllocEvicts \/ RoomEvicts
  <2>1. CASE ReserveEvicts
    <3>1. Evicting(FALSE)
      BY <2>1 DEF ReserveEvicts, Evicting
    <3> QED
      BY <3>1, EvictionKeeps
  <2>2. CASE AllocEvicts
    <3>1. Evicting(TRUE)
      BY <2>2 DEF AllocEvicts, Evicting
    <3> QED
      BY <3>1, EvictionKeeps
  <2>3. CASE RoomEvicts
    <3>1. Evicting(FALSE)
      BY <2>3 DEF RoomEvicts, Evicting
    <3> QED
      BY <3>1, EvictionKeeps
  <2> QED
    BY <1>2, <2>1, <2>2, <2>3
<1>3. CASE LoadFlat \/ AllocGivesUp
  BY <1>3, FlatKeeps
<1>4. CASE Hit \/ Frame \/ SwitchMap
  BY <1>4, HitKeeps, FrameKeeps, SwitchMapKeeps
<1>5. CASE AllocBlock \/ ClientTakes \/ ClientFrees
  BY <1>5, AllocBlockKeeps, ClientTakesKeeps, ClientFreesKeeps
<1>6. CASE PostMints \/ PostDecodes \/ TakeDecodes
  BY <1>6, PostMintsKeeps, DecodesKeep
<1>7. CASE ReadFails \/ PostMintFails \/ TakeFails
  BY <1>7, FailuresKeep
<1>8. CASE UNCHANGED vars
  <2>1. UNCHANGED <<status, slots, tick, pool, ldt, trust, locked, req, main, pc, cur, pin, room>>
    BY <1>8 DEF vars, cache, locals
  <2>2. locked' \in BOOLEAN /\ req' \in [index : Index \cup {Client}, face : BOOLEAN]
    BY <2>1 DEF DasInv, CacheTypes
  <2>3. LoadSlot' = LoadSlot
    BY <2>1 DEF LoadSlot
  <2>4. CacheTypes' /\ PoolShape' /\ SelShape' /\ TableShape' /\ LoadShape'
    BY <2>1, <2>2, <2>3, QuietStep
  <2>5. Phases'
    BY <2>1 DEF DasInv, Phases, Taken
  <2> QED
    BY <2>4, <2>5 DEF DasInv
<1> QED
  BY <1>1, <1>2, <1>3, <1>4, <1>5, <1>6, <1>7, <1>8 DEF Next, Loading, Quiet

(* The inductive invariant: who owns each block and each descriptor, which  *)
(* slots the status table names, and what each step of a load has in hand.  *)
THEOREM DasCacheInvariant == Spec => []DasInv
<1>1. Init => DasInv
  BY CacheBegins
<1>2. DasInv /\ [Next]_vars => DasInv'
  BY CacheStep
<1> QED
  BY <1>1, <1>2, PTL DEF Spec

(* A live block is that of one slot, or the decode block of one main block, *)
(* or another client's.                                                     *)
LEMMA EveryBlockHasOneOwner ==
  ASSUME CacheTypes, PoolShape, NEW h \in DOMAIN pool
  PROVE  Cardinality({s \in Slot : slots[s].handle = h})
           + Cardinality({k \in DOMAIN pool : pool[k].second = h})
           = IF pool[h].of = Client THEN 0 ELSE 1
<1> DEFINE S == {s \in Slot : slots[s].handle = h}
           K == {k \in DOMAIN pool : pool[k].second = h}
<1>1. h # None /\ Client \notin Index
  BY Nothings DEF CacheTypes
<1>2. Cardinality({}) = 0
  BY FS_EmptySet
<1>3. CASE pool[h].of = Client
  <2>1. S = {}
    BY <1>1, <1>3 DEF PoolShape, Taken
  <2>2. K = {}
    BY <1>1, <1>3 DEF PoolShape, Second
  <2> QED
    BY <1>2, <1>3, <2>1, <2>2
<1>4. CASE \E s \in Slot : slots[s].handle = h
  <2>1. PICK s \in Slot : slots[s].handle = h
    BY <1>4
  <2>2. S = {s}
    BY <1>1, <2>1 DEF PoolShape, Taken
  <2>3. K = {}
    BY <1>1, <2>1 DEF PoolShape, Second
  <2>4. pool[h].of # Client
    BY <1>1, <2>1 DEF PoolShape, Taken
  <2>5. Cardinality({s}) = 1
    BY FS_Singleton
  <2>6. Cardinality(S) = 1 /\ Cardinality(K) = 0
    BY <1>2, <2>2, <2>3, <2>5
  <2> HIDE DEF S, K
  <2>7. Cardinality(S) + Cardinality(K) = IF pool[h].of = Client THEN 0 ELSE 1
    BY <2>4, <2>6
  <2> QED
    BY <2>7 DEF S, K
<1>5. CASE pool[h].of # Client /\ ~ \E s \in Slot : slots[s].handle = h
  <2>1. PICK k \in DOMAIN pool : pool[k].second = h
    BY <1>5 DEF PoolShape, Second
  <2>2. S = {}
    BY <1>5
  <2>3. K = {k}
    BY <1>1, <2>1 DEF PoolShape, Second
  <2>4. Cardinality({k}) = 1
    BY FS_Singleton
  <2>5. Cardinality(S) = 0 /\ Cardinality(K) = 1
    BY <1>2, <2>2, <2>3, <2>4
  <2> HIDE DEF S, K
  <2>6. Cardinality(S) + Cardinality(K) = IF pool[h].of = Client THEN 0 ELSE 1
    BY <1>5, <2>5
  <2> QED
    BY <2>6 DEF S, K
<1> QED
  BY <1>3, <1>4, <1>5

(* What the parts of the invariant say together is what the run checks.     *)
LEMMA ShapesAgree ==
  ASSUME DasInv
  PROVE  CacheIsConsistent
<1>1. CacheTypes /\ PoolShape /\ SelShape /\ TableShape
  BY DEF DasInv
<1>2. \A i \in Index : status[i] \in Slot => /\ slots[status[i]].handle \in DOMAIN pool
                                             /\ pool[slots[status[i]].handle].of = i
  BY <1>1 DEF TableShape, PoolShape, Taken
<1>3. \A s \in Slot : slots[s].handle # None => \/ \E i \in Index : status[i] = s
                                                \/ main # None /\ slots[s].handle = main
  BY <1>1 DEF TableShape, Taken, Named
<1>4. \A h \in DOMAIN pool :
        Cardinality({s \in Slot : slots[s].handle = h})
          + Cardinality({k \in DOMAIN pool : pool[k].second = h})
          = IF pool[h].of = Client THEN 0 ELSE 1
  BY <1>1, EveryBlockHasOneOwner
<1>5. TableSlotsAndPoolAgree
  BY <1>2, <1>3, <1>4 DEF TableSlotsAndPoolAgree
<1>6. SelectorsAgree
  <2> SUFFICES ASSUME trust # "stray" PROVE SelectorsAgree
    BY DEF SelectorsAgree
  <2> DEFINE held == UNION {pool[h].sels : h \in DOMAIN pool}
  <2>1. /\ \A h \in DOMAIN pool : pool[h].sels \subseteq ldt
        /\ trust = "exact" => \A x \in ldt : \E h \in DOMAIN pool : x \in pool[h].sels
        /\ \A h, k \in DOMAIN pool : h # k => pool[h].sels \cap pool[k].sels = {}
    BY <1>1 DEF SelShape
  <2>2. held \subseteq ldt
    BY <2>1
  <2>3. trust = "exact" => held = ldt
    <3> SUFFICES ASSUME trust = "exact" PROVE ldt \subseteq held
      BY <2>2
    <3> QED
      BY <2>1
  <2> QED
    BY <2>1, <2>2, <2>3 DEF SelectorsAgree
<1> QED
  BY <1>5, <1>6 DEF CacheIsConsistent

(* The status table, the slots, the pool and the descriptors agree in every *)
(* step of every loop, for any table of kinds and sizes, any number of      *)
(* slots and descriptors and any pool: whatever was evicted in the middle   *)
(* of a load, failed or was refused before.                                 *)
THEOREM CacheAgrees == Spec => []CacheIsConsistent
BY DasCacheInvariant, ShapesAgree, PTL

(* One step: an allocation spares the blocks of this frame, and gives an    *)
(* index up only when nothing else is left.                                 *)
LEMMA EvictionStep ==
  ASSUME DasInv, [Next]_vars
  PROVE  /\ \A i \in Index :
              pc = "alloc" /\ status[i] \in Slot /\ status'[i] = Unloaded => Age(status[i]) # 0
         /\ \A i \in given' \ given :
              /\ \A s \in Slot : slots[s].handle = None \/ Age(s) = 0
              /\ locked \/ Size[i] > FreeBytes
<1>1. status \in [Index -> Slot \cup {Flat, Unloaded}] /\ CacheTypes /\ Phases
  BY DEF DasInv, CacheTypes
<1>2. ASSUME NEW i \in Index, pc = "alloc", status[i] \in Slot, status'[i] = Unloaded
      PROVE  Age(status[i]) # 0
  <2>1. status' # status
    BY <1>2, Nothings
  <2>2. AllocEvicts \/ AllocGivesUp
    BY <1>2, <2>1 DEF Next, Loading, Ask, ClientAsks, ClientFrees, Frame, ToggleLock, SwitchMap,
         Hit, AnswerFlat, Miss, LoadFlat, LoadAbsent, LoadBegins, Reserve, ReserveEvicts,
         AllocBlock, ReadBlock, ReadFails, PostMints, PostMintFails, PostDecodes, PostNeedsRoom,
         RoomFound, RoomEvicts, RoomFails, TakeDecodes, TakeFails, ClientTakes, vars, cache
  <2>3. CASE AllocEvicts
    <3>1. Evicting(TRUE)
      BY <2>3 DEF AllocEvicts, Evicting
    <3>2. PICK s : s = Victim(TRUE)
      OBVIOUS
    <3>3. Named(s) /\ Age(s) # 0
      BY <3>1, <3>2, VictimIsNamed
    <3>4. status' = [j \in Index |-> IF status[j] = s THEN Unloaded ELSE status[j]]
      BY <3>1, <3>2, <3>3 DEF Evicting, Evict, Named
    <3>5. status[i] = s
      BY <1>2, <3>4, Nothings
    <3> QED
      BY <3>3, <3>5
  <2>4. CASE AllocGivesUp
    <3>1. status' = status \/ status' = [status EXCEPT ![req.index] = Flat]
      BY <2>4 DEF AllocGivesUp
    <3>2. status'[i] = status[i] \/ status'[i] = Flat
      BY <1>1, <3>1
    <3> QED
      BY <1>2, <3>2, Nothings
  <2> QED
    BY <2>2, <2>3, <2>4
<1>3. ASSUME NEW i \in given' \ given
      PROVE  /\ \A s \in Slot : slots[s].handle = None \/ Age(s) = 0
             /\ locked \/ Size[i] > FreeBytes
  <2>1. AllocGivesUp
    <3>1. given' # given /\ ~(given' \subseteq given)
      BY <1>3
    <3>2. CASE SwitchMap
      BY <3>1, <3>2 DEF SwitchMap
    <3> QED
      BY <3>1, <3>2 DEF Next, Loading, Ask, ClientAsks, ClientFrees, Frame, ToggleLock,
         Hit, AnswerFlat, Miss, LoadFlat, LoadAbsent, LoadBegins, Reserve, ReserveEvicts,
         AllocBlock, AllocEvicts, ReadBlock, ReadFails, PostMints, PostMintFails, PostDecodes,
         PostNeedsRoom, RoomFound, RoomEvicts, RoomFails, TakeDecodes, TakeFails, ClientTakes,
         vars, cache
  <2>2. i = req.index /\ Victims(TRUE) = {} /\ MayBeRefused(Size[req.index])
    BY <1>3, <2>1 DEF AllocGivesUp
  <2>3. \A s \in Slot : slots[s].handle = None \/ Age(s) = 0
    BY <2>2 DEF Victims
  <2>4. locked \/ Size[i] > FreeBytes
    BY <2>2 DEF MayBeRefused
  <2> QED
    BY <2>3, <2>4
<1> QED
  BY <1>2, <1>3

(* Eviction and the flat colour are the last resort, for any sizes, any     *)
(* number of slots and any pool.                                            *)
THEOREM EvictionComesLast == Spec => EvictionIsTheLastResort
<1>1. DasInv /\ [Next]_vars =>
        /\ \A i \in Index :
             pc = "alloc" /\ status[i] \in Slot /\ status'[i] = Unloaded => Age(status[i]) # 0
        /\ \A i \in given' \ given :
             /\ \A s \in Slot : slots[s].handle = None \/ Age(s) = 0
             /\ locked \/ Size[i] > FreeBytes
  BY EvictionStep
<1> QED
  BY <1>1, DasCacheInvariant, PTL DEF Spec, EvictionIsTheLastResort
=============================================================================
