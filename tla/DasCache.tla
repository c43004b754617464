------------------------------ MODULE DasCache ------------------------------
(***************************************************************************)
(* The cache of DAS blocks (engine/das_assets.c, engine/renderer.c).       *)
(*                                                                         *)
(* The renderer asks for the block of a FAT index.  A status table says    *)
(* which cache slot holds it, that a flat colour stands for it, or that it *)
(* is not loaded: then it is read into a block of the relocatable pool     *)
(* (module HandlePool), older blocks making room for it, and finished by   *)
(* its kind: a plain block gets one selector, a grouped one a selector for *)
(* each child, a compressed one a second block to be decoded into.  Save-  *)
(* under buffers, movies and databases take blocks of the same pool and    *)
(* evict as well.                                                          *)
(*                                                                         *)
(* The cache runs on the game thread alone.  What interferes are its       *)
(* loops: reserving a slot, allocating, and making room, which may happen  *)
(* in the middle of a load and shares its globals.  A step is one pass of  *)
(* a loop.  Of the pool only the sum of the free bytes is kept: with a     *)
(* block in it there may be gaps, and an allocation that cannot compact    *)
(* may fail or not.  The placeholders 0xfc and 0xfe, which name other      *)
(* indices, and flat shading are left out.                                 *)
(***************************************************************************)
EXTENDS Integers, FiniteSets, FiniteSetsExt, Functions

CONSTANTS
  Low, High,   (* FAT indices below 0x1000, which have a flat colour, and above *)
  Forgiven,    (* those below 0x800, whose bits a change of map clears     *)
  Kind,        (* index -> "plain", "grouped", "rle" or "absent"           *)
  Size,        (* index -> bytes of its block, chunk header included       *)
  Children,    (* child selectors of a grouped block                       *)
  Slots,       (* cache slots (0xf0)                                       *)
  Total,       (* bytes of the pool                                        *)
  Sels,        (* the LDT descriptors the cache may get                    *)
  Wrap,        (* the tick is a 16-bit counter; it wraps here              *)
  Needs        (* sizes the other clients of the pool ask for              *)

Index == Low \cup High
Slot == 1 .. Slots
Handle == 1 .. 2 * Slots + 1     \* two for each slot and one for a client
None == 0
Client == "client"
Flat == 253                      \* 0xfd
Unloaded == 255                  \* 0xff

ASSUME DasCacheAssumption ==
  /\ Low \cap High = {} /\ Client \notin Index /\ Forgiven \subseteq Low
  /\ Kind \in [Index -> {"plain", "grouped", "rle", "absent"}]
  /\ Size \in [Index -> Nat \ {0}] /\ Children \in Nat \ {0}
  /\ Slots \in 1 .. Flat - 1 /\ Total \in Nat /\ IsFiniteSet(Sels)
  /\ Wrap \in Nat \ {0, 1} /\ Needs \subseteq Nat \ {0}

VARIABLES
  status,   \* index -> its slot, Flat or Unloaded
  slots,    \* slot -> [handle, tick]: its block and the frame of its last use
  given,    \* the indices that were given up (the bitset at 0x8c740)
  tick,     \* g_das_cache_tick
  pool,     \* the live handles -> [of, size, sels, second]
  locked,   \* the pool's lock: no block may move
  ldt,      \* the descriptors in use
  trust,    \* history: "exact"; "leaky" once a grouped block failed halfway;
            \* "stray" once a decode block was left without its selector
  pc,       \* "idle", or the step or loop the game thread is in
  req,      \* the request being answered: [index, face]
  cur,      \* g_current_das_cache_slot and its index (0x8c734, 0x8c940)
  main,     \* g_current_das_handle (0x8c738) while its block is being loaded
  pin,      \* g_das_eviction_protected_allocation (0x85400)
  room      \* a caller that makes room: [need, largest, saved]

cache == <<status, slots, given>>
locals == <<cur, main, pin, room>>
vars == <<cache, tick, pool, locked, ldt, trust, pc, req, locals>>

NoRequest == [index |-> Client, face |-> FALSE]
NoRoom == [need |-> 0, largest |-> FALSE, saved |-> None]

Init ==
  /\ status = [i \in Index |-> Unloaded]
  /\ slots = [s \in Slot |-> [handle |-> None, tick |-> 0]]
  /\ given = {} /\ tick = 0
  /\ pool = [h \in {} |-> 0]
  /\ locked = FALSE /\ ldt = {} /\ trust = "exact"
  /\ pc = "idle" /\ req = NoRequest
  /\ cur = None /\ main = None /\ pin = None /\ room = NoRoom

-----------------------------------------------------------------------------
(* The pool and the descriptors, as their clients see them.                 *)

FreeBytes == Total - MapThenSumSet(LAMBDA h : pool[h].size, DOMAIN pool)
MayHaveGaps == DOMAIN pool # {}

\* pool_alloc_handle_sized, or any allocation while the pool is locked: a free
\* chunk has to be large enough as it is.
MayFit(n) == n <= FreeBytes
MayNotFit(n) == n > FreeBytes \/ MayHaveGaps

\* pool_alloc_handle compacts if it must and may (HandlePool checks that this
\* is enough).
MayBeRefused(n) == IF locked THEN MayNotFit(n) ELSE n > FreeBytes

NewHandle == Min(Handle \ DOMAIN pool)
Block(i, n, sels, second) == [of |-> i, size |-> n, sels |-> sels, second |-> second]
With(h, b) == [k \in DOMAIN pool \cup {h} |-> IF k = h THEN b ELSE pool[k]]
Without(hs) == Restrict(pool, DOMAIN pool \ hs)

Spare == Sels \ ldt
Minted(n) == CHOOSE S \in SUBSET Spare : Cardinality(S) = n

-----------------------------------------------------------------------------
(* Eviction.                                                                *)

Age(s) == (tick - slots[s].tick) % Wrap

\* Mutant: blocks of this frame are not spared.
VictimsAnyAge(forbid) ==
  {s \in Slot : slots[s].handle # None /\ (Age(s) # 0 \/ slots[s].handle # pin)}

\* Blocks of this frame are taken only if the caller allows it and does not
\* protect them.
Victims(forbid) ==
  {s \in Slot : /\ slots[s].handle # None
                /\ Age(s) # 0 \/ (~forbid /\ slots[s].handle # pin)}

\* The scan keeps the last of the oldest.
Victim(forbid) ==
  CHOOSE s \in Victims(forbid) : \A t \in Victims(forbid) :
    Age(t) < Age(s) \/ (Age(t) = Age(s) /\ t <= s)

SecondOf(h) == {pool[h].second} \ {None}

\* free_das_cache_entry, for the slots ss: the selectors by kind, the decode
\* block, the block.  A decode block without a selector hands whatever word is
\* in its place to the descriptor call.
FreeEntries(ss) ==
  LET mains == {slots[s].handle : s \in ss}
      all == mains \cup UNION {SecondOf(h) : h \in mains}
      bare == \E h \in mains : \E k \in SecondOf(h) : pool[k].sels = {}
  IN /\ pool' = Without(all)
     /\ \E stale \in IF bare THEN SUBSET ldt ELSE {{}} :
          ldt' = (ldt \ UNION {pool[h].sels : h \in all}) \ stale

\* evict_das_cache_slot and release_das_cache_slot_resources: the slot becomes
\* the current one, and is freed if the status table names it.
Evict(forbid) ==
  LET s == Victim(forbid) IN
  /\ Victims(forbid) # {}
  /\ cur' = s
  /\ IF \E i \in Index : status[i] = s
     THEN /\ status' = [i \in Index |-> IF status[i] = s THEN Unloaded ELSE status[i]]
          /\ slots' = [slots EXCEPT ![s].handle = None]
          /\ FreeEntries({s})
     ELSE UNCHANGED <<status, slots, pool, ldt>>

-----------------------------------------------------------------------------
(* Requests: get_loaded_das_block_for_index, and the resolver of faces,     *)
(* whose indices are at least 0x1000.                                       *)

Answered == pc' = "idle" /\ req' = NoRequest /\ cur' = None /\ main' = None

Ask ==
  /\ pc = "idle"
  /\ \E i \in Index, face \in BOOLEAN :
       /\ face => i \in High
       /\ req' = [index |-> i, face |-> face]
  /\ pc' = "look"
  /\ UNCHANGED <<cache, tick, pool, locked, ldt, trust, locals>>

\* The slot is stamped with this frame.
Hit ==
  /\ pc = "look" /\ status[req.index] \in Slot
  /\ slots' = [slots EXCEPT ![status[req.index]].tick = tick]
  /\ Answered
  /\ UNCHANGED <<status, given, tick, pool, locked, ldt, trust, pin, room>>

AnswerFlat ==
  /\ pc = "look" /\ status[req.index] = Flat /\ ~req.face
  /\ Answered
  /\ UNCHANGED <<cache, tick, pool, locked, ldt, trust, pin, room>>

Miss ==
  /\ pc = "look"
  /\ status[req.index] = Unloaded \/ (status[req.index] = Flat /\ req.face)
  /\ pc' = "load"
  /\ UNCHANGED <<cache, tick, pool, locked, ldt, trust, req, locals>>

-----------------------------------------------------------------------------
(* load_das_block_for_fat_index.                                            *)

GivenUp(i) == i \in Low /\ i \in given

LoadFlat ==
  /\ pc = "load" /\ GivenUp(req.index)
  /\ status' = [status EXCEPT ![req.index] = Flat]
  /\ pc' = "look"
  /\ UNCHANGED <<slots, given, tick, pool, locked, ldt, trust, req, locals>>

LoadAbsent ==
  /\ pc = "load" /\ ~GivenUp(req.index) /\ Kind[req.index] = "absent"
  /\ Answered
  /\ UNCHANGED <<cache, tick, pool, locked, ldt, trust, pin, room>>

LoadBegins ==
  /\ pc = "load" /\ ~GivenUp(req.index) /\ Kind[req.index] # "absent"
  /\ pc' = "reserve"
  /\ UNCHANGED <<cache, tick, pool, locked, ldt, trust, req, locals>>

\* reserve_das_cache_slot.  Nothing is pinned here, so it never gives up.
FreeSlots == {s \in Slot : slots[s].handle = None}

Reserve ==
  /\ pc = "reserve" /\ FreeSlots # {}
  /\ cur' = Min(FreeSlots)
  /\ pc' = "alloc"
  /\ UNCHANGED <<cache, tick, pool, locked, ldt, trust, req, main, pin, room>>

ReserveEvicts ==
  /\ pc = "reserve" /\ FreeSlots = {}
  /\ Evict(FALSE)
  /\ UNCHANGED <<given, tick, locked, trust, pc, req, main, pin, room>>

\* The sized allocation, or when nothing is left to evict the compacting one.
AllocBlock ==
  /\ pc = "alloc" /\ MayFit(Size[req.index])
  /\ main' = NewHandle
  /\ pool' = With(NewHandle, Block(req.index, Size[req.index], {}, None))
  /\ slots' = [slots EXCEPT ![cur] = [handle |-> NewHandle, tick |-> tick]]
  /\ pc' = "read"
  /\ UNCHANGED <<status, given, tick, locked, ldt, trust, req, cur, pin, room>>

AllocEvicts ==
  /\ pc = "alloc" /\ MayNotFit(Size[req.index])
  /\ Evict(TRUE)
  /\ UNCHANGED <<given, tick, locked, trust, pc, req, main, pin, room>>

\* An index below 0x1000 gets its flat colour for good; another one fails.
AllocGivesUp ==
  /\ pc = "alloc" /\ MayNotFit(Size[req.index]) /\ Victims(TRUE) = {}
  /\ MayBeRefused(Size[req.index])
  /\ IF req.index \in Low
     THEN /\ given' = given \cup {req.index}
          /\ status' = [status EXCEPT ![req.index] = Flat]
          /\ pc' = "look" /\ cur' = None /\ UNCHANGED <<req, main>>
     ELSE Answered /\ UNCHANGED <<given, status>>
  /\ UNCHANGED <<slots, tick, pool, locked, ldt, trust, pin, room>>

\* fail_free: the block only; selectors its children already have are lost.
FailFree(s) ==
  /\ slots' = [slots EXCEPT ![s].handle = None]
  /\ pool' = Without({slots[s].handle})
  /\ Answered

\* The status table names the slot; the request is looked up again.
Publish(s) ==
  /\ status' = [status EXCEPT ![req.index] = s]
  /\ pc' = "look" /\ cur' = None /\ main' = None

ReadBlock ==
  /\ pc = "read" /\ pc' = "post"
  /\ UNCHANGED <<cache, tick, pool, locked, ldt, trust, req, locals>>

ReadFails ==
  /\ pc = "read"
  /\ FailFree(cur)
  /\ UNCHANGED <<status, given, tick, locked, ldt, trust, pin, room>>

-----------------------------------------------------------------------------
(* postprocess_loaded_das_block.                                            *)

SelsNeeded(i) == IF Kind[i] = "grouped" THEN Children ELSE 1

PostMints ==
  /\ pc = "post" /\ Kind[req.index] # "rle"
  /\ Cardinality(Spare) >= SelsNeeded(req.index)
  /\ LET new == Minted(SelsNeeded(req.index)) IN
       /\ ldt' = ldt \cup new
       /\ pool' = [pool EXCEPT ![main].sels = new]
  /\ Publish(cur)
  /\ UNCHANGED <<slots, given, tick, locked, trust, req, pin, room>>

\* A child that gets no selector fails the block: the others keep theirs.
PostMintFails ==
  /\ pc = "post" /\ Kind[req.index] # "rle"
  /\ Cardinality(Spare) < SelsNeeded(req.index)
  /\ ldt' = Sels
  /\ trust' = IF Spare # {} /\ trust = "exact" THEN "leaky" ELSE trust
  /\ FailFree(cur)
  /\ UNCHANGED <<status, given, tick, locked, pin, room>>

\* The decode block is bound to its main block; a selector it does not get is
\* not missed.
Decode(s) ==
  LET new == IF Spare = {} THEN {} ELSE Minted(1) IN
  /\ pool' = [With(NewHandle, Block(req.index, Size[req.index], new, None))
                EXCEPT ![main].second = NewHandle]
  /\ ldt' = ldt \cup new
  /\ trust' = IF new = {} THEN "stray" ELSE trust
  /\ Publish(s)

PostDecodes ==
  /\ pc = "post" /\ Kind[req.index] = "rle" /\ MayFit(Size[req.index])
  /\ Decode(cur)
  /\ UNCHANGED <<slots, given, tick, locked, req, pin, room>>

\* Mutant: the block being loaded is not protected.
PostNeedsRoomUnpinned ==
  /\ pc = "post" /\ Kind[req.index] = "rle" /\ MayNotFit(Size[req.index])
  /\ room' = [need |-> Size[req.index], largest |-> FALSE, saved |-> cur]
  /\ pc' = "room"
  /\ UNCHANGED <<cache, tick, pool, locked, ldt, trust, req, cur, main, pin>>

\* The block being loaded is protected, its slot remembered.
PostNeedsRoom ==
  /\ pc = "post" /\ Kind[req.index] = "rle" /\ MayNotFit(Size[req.index])
  /\ pin' = main
  /\ room' = [need |-> Size[req.index], largest |-> FALSE, saved |-> cur]
  /\ pc' = "room"
  /\ UNCHANGED <<cache, tick, pool, locked, ldt, trust, req, cur, main>>

-----------------------------------------------------------------------------
(* Making room: ensure_das_cache_heap_space, which turns into the loop of   *)
(* das_cache_make_room when the pool is locked.                             *)

ByLargest == room.largest \/ locked

RoomFound ==
  /\ pc = "room" /\ MayFit(room.need)
  /\ pc' = "take"
  /\ UNCHANGED <<cache, tick, pool, locked, ldt, trust, req, locals>>

NoRoomYet == IF ByLargest THEN MayNotFit(room.need) ELSE room.need > FreeBytes

RoomEvicts ==
  /\ pc = "room" /\ NoRoomYet
  /\ Evict(FALSE)
  /\ UNCHANGED <<given, tick, locked, trust, pc, req, main, pin, room>>

RoomFails ==
  /\ pc = "room" /\ NoRoomYet /\ Victims(FALSE) = {}
  /\ pc' = "take"
  /\ UNCHANGED <<cache, tick, pool, locked, ldt, trust, req, locals>>

\* Mutant: the evictions' slot stays the current one.
TakeDecodesLost ==
  /\ pc = "take" /\ main # None /\ MayFit(room.need)
  /\ Decode(cur)
  /\ pin' = None /\ room' = NoRoom
  /\ UNCHANGED <<slots, given, tick, locked, req>>

\* The load goes on with the slot it had before the evictions.
TakeDecodes ==
  /\ pc = "take" /\ main # None /\ MayFit(room.need)
  /\ Decode(room.saved)
  /\ pin' = None /\ room' = NoRoom
  /\ UNCHANGED <<slots, given, tick, locked, req>>

TakeFails ==
  /\ pc = "take" /\ main # None /\ MayBeRefused(room.need)
  /\ FailFree(room.saved)
  /\ pin' = None /\ room' = NoRoom
  /\ UNCHANGED <<status, given, tick, locked, ldt, trust>>

\* Another client of the pool makes room for its own block.
ClientAsks ==
  /\ pc = "idle" /\ \A h \in DOMAIN pool : pool[h].of # Client
  /\ \E n \in Needs, largest \in BOOLEAN :
       room' = [need |-> n, largest |-> largest, saved |-> None]
  /\ pc' = "room"
  /\ UNCHANGED <<cache, tick, pool, locked, ldt, trust, req, cur, main, pin>>

ClientTakes ==
  /\ pc = "take" /\ main = None
  /\ \/ /\ MayFit(room.need)
        /\ pool' = With(NewHandle, Block(Client, room.need, {}, None))
     \/ MayBeRefused(room.need) /\ UNCHANGED pool
  /\ Answered
  /\ room' = NoRoom
  /\ UNCHANGED <<cache, tick, locked, ldt, trust, pin>>

-----------------------------------------------------------------------------
(* Between requests.                                                        *)

ClientFrees ==
  /\ pc = "idle"
  /\ \E h \in DOMAIN pool : pool[h].of = Client /\ pool' = Without({h})
  /\ UNCHANGED <<cache, tick, locked, ldt, trust, pc, req, locals>>

Frame ==
  /\ pc = "idle"
  /\ tick' = (tick + 1) % Wrap
  /\ UNCHANGED <<cache, pool, locked, ldt, trust, pc, req, locals>>

\* obj_counter12_inc and obj_counter12_dec
ToggleLock ==
  /\ pc = "idle"
  /\ locked' = ~locked
  /\ UNCHANGED <<cache, tick, pool, ldt, trust, pc, req, locals>>

\* switch_map_das_resources: reset_das_entry_status_table frees what the table
\* names, then reset_renderer_tables clears the slots and half of the bits.
SwitchMap ==
  /\ pc = "idle"
  /\ FreeEntries({s \in Slot : \E i \in Index : status[i] = s})
  /\ status' = [i \in Index |-> Unloaded]
  /\ slots' = [s \in Slot |-> [handle |-> None, tick |-> 0]]
  /\ given' = given \ Forgiven
  /\ UNCHANGED <<tick, locked, trust, pc, req, locals>>

Loading ==
  \/ Hit \/ AnswerFlat \/ Miss
  \/ LoadFlat \/ LoadAbsent \/ LoadBegins
  \/ Reserve \/ ReserveEvicts
  \/ AllocBlock \/ AllocEvicts \/ AllocGivesUp
  \/ ReadBlock \/ ReadFails
  \/ PostMints \/ PostMintFails \/ PostDecodes \/ PostNeedsRoom
  \/ RoomFound \/ RoomEvicts \/ RoomFails
  \/ TakeDecodes \/ TakeFails \/ ClientTakes

Next == \/ Ask \/ ClientAsks \/ ClientFrees \/ Frame \/ ToggleLock \/ SwitchMap
        \/ Loading

\* The game thread runs its loops; what asks is not obliged to.
Spec == Init /\ [][Next]_vars /\ WF_vars(Loading)

-----------------------------------------------------------------------------
(* Every slot the table names holds a live block of that very index; every  *)
(* taken slot is named, or is that of the block being loaded; every live    *)
(* block of the pool belongs to one slot, to one main block, or to another  *)
(* client.                                                                  *)
TableSlotsAndPoolAgree ==
  /\ \A i \in Index : status[i] \in Slot =>
       /\ slots[status[i]].handle \in DOMAIN pool
       /\ pool[slots[status[i]].handle].of = i
  /\ \A s \in Slot : slots[s].handle # None =>
       \/ \E i \in Index : status[i] = s
       \/ main # None /\ slots[s].handle = main
  /\ \A h \in DOMAIN pool :
       Cardinality({s \in Slot : slots[s].handle = h})
         + Cardinality({k \in DOMAIN pool : pool[k].second = h})
         = IF pool[h].of = Client THEN 0 ELSE 1

(* The descriptors in use are those of the live blocks, each of one block,  *)
(* unless a grouped block failed halfway (then some are lost) or a decode   *)
(* block was left without one (then anything may have been freed).          *)
SelectorsAgree ==
  LET held == UNION {pool[h].sels : h \in DOMAIN pool} IN
  trust # "stray" =>
    /\ held \subseteq ldt /\ (trust = "exact" => held = ldt)
    /\ \A h, k \in DOMAIN pool : h # k => pool[h].sels \cap pool[k].sels = {}

(* The cache's three tables, the pool and the descriptors agree in every    *)
(* step of every loop, whatever evictions, failed reads, refused selectors  *)
(* and changes of map came before.                                          *)
CacheIsConsistent == TableSlotsAndPoolAgree /\ SelectorsAgree

(* A load makes room for its block without taking one of this frame, whose  *)
(* address the renderer may still hold, and an index gets its flat colour   *)
(* for good only when the rest of the cache is of this frame and the free   *)
(* bytes do not suffice, or the pool may not be compacted.                  *)
EvictionIsTheLastResort ==
  [][/\ \A i \in Index :
          pc = "alloc" /\ status[i] \in Slot /\ status'[i] = Unloaded
            => Age(status[i]) # 0
     /\ \A i \in given' \ given :
          /\ \A s \in Slot : slots[s].handle = None \/ Age(s) = 0
          /\ locked \/ Size[i] > FreeBytes]_vars

(* No loop of the cache turns for ever: reserving, retrying the allocation, *)
(* making room in the middle of a load, looking up again after a load; every*)
(* request ends with a block, a flat colour or a failure.                   *)
RequestsAreAnswered == pc # "idle" ~> pc = "idle"
=============================================================================
