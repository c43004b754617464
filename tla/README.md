# Verification of ROTH.C

ROTH.C is a reimplementation in C of the engine of *Realms of the Haunting* with
a host layer (SDL 3, signals or threads, DPMI and DOS emulation).  This directory
holds TLA+ models of the parts of it whose correctness depends on order,
interleaving, partial failure or long sequences of calls, the TLC configurations
that check them on small instances, and proofs, for every instance, of every safety
and action property that a run checks.

All paths below are relative to `src/roth_c/src/`.

## 1. Inventory

The program is one process with up to four threads of control:

| actor | where it runs | code |
|---|---|---|
| game thread | the engine: main loop, world, menus, cutscenes | `engine/*.c` |
| timer tick | a signal handler (or, without signals, a suspended-thread callback) that preempts the game thread at any instruction and runs to its end | `platform/traps.c` `shm_tick`, `roth_tick_isr`, `alarm_handler` |
| SDL main thread | another processor: events and the present loop | `platform/sdl/sdl_host.c` |
| SDL audio thread | another processor: pulls samples | `platform/sdl/sdl_audio.c` |

They share memory (`platform/shared_fb.h`, `shared_audio.h`, `shared_midi.h`) and
hold no lock.

### Components

The state, the operations and what makes each component correct; the hazards at
their lines are in `PROJECT.json`.  A hazard without a property is mostly one
whose bad outcome the code does produce, so that the property nearest to it has to leave
that case out; its note says which.

**Frame publishing and present loop** (`traps.c`, `sdl_host.c`, `shared_fb.h`).
State: back buffer, snapshot `g_clean_frame`, stage `g_pub_stage`, shared pixels
and `frame`.  Operations: draw, flip (snapshot), the tick's five publish branches,
`gdv_publish_frame`, the guarded read of the present loop.  Correct when the window
never shows a scene that is still being drawn, never loses the overlay of an open
plugin panel, mixes few publications, and is presented for ever.  *Hard:* three
actors, no lock, one sequence counter that moves only after the copy.

**Keyboard path** (`sdl_host.c`, `traps.c`, `input.c`, `renderer.c`,
`plugin_loader.c`).  State: shared key ring, emulated 8042 queue, held-key bitmap,
four-slot input ring.  Operations: push, tick drain (interactive or not), reclaim,
interrupt injection, the int 9 handler, dequeue.  Correct when events are applied in
the order typed, the bitmap ends up saying what the last event said, no key sticks,
and the input ring conserves.  *Hard:* two consumers of the same events, the switch
between them, three buffers that can be full, a plugin that swallows keys.

**Mouse path** (`sdl_host.c`, `dpmi.c`, `input.c`).  State: motion counters, button
level, previous level, swap flag.  Correct when motion is delivered exactly once
and a press makes one click.  *Hard:* unsynchronised `+=` and `-=` on two
processors, 16-bit register, polling.

**Game heap** (`renderer.c` 10324-10660, `memory_pool.c`).  State: pool header
(count, total free, largest free), chunk list with back links.  Operations: carve
from the low or the high end, free with merging.  Correct when chunks tile the
arena, counters are exact, blocks are private and freeing merges fully.  *Hard:*
any order of calls; flags set in one place and repaired in another.

**Handle pool of the DAS cache** (`renderer.c`, `das_assets.c`).  The same list plus
a handle table, a cursor, a lock count and a moved flag per block.  Operations:
allocation with or without compaction, retry, free, lock, refresh.  Correct when
table and chunks agree at every step of a compaction, locked blocks stay put, a
stale address is always flagged, and an allocation that may compact fails only for lack
of space.

**Override registry** (`override_registry.c`).  State: pending registrations, entry
bytes, chain slots, list of patched entries.  Operations: register, apply, unwind.
Correct when every jump has its chain, chains are in priority order, a failed write
takes everything back, and `--strict-mods` is all or nothing.  *Hard:* partial
failure, an unwinding that itself can fail.

**Sound effects** (`engine/audio.c`, `audio.c`, `os_audio.c`).  State: 16 handle
records and 32 sample descriptors of the game, 32 voice structs of the driver, the
mixer's own cursor and generation per voice, a queue of 15 `done` callbacks.
Operations: claim a record, resolve or load (and evict), start, stop, flush, fade, mix
tick, delivery.  Correct when every sound is heard from its first to its last sample
unless it is stopped, record and voice of a sound belong together, a playing sample
stays loaded, and every sound ends.  *Hard:* the mixer learns of a restart only by
comparing two cursors; a callback can be delivered after its sound was stopped and its
voice, its record and its buffer re-used; a load evicts while a record is half filled.

**Audio and MIDI rings** (`shared_audio.h`, `shared_midi.h`, `sdl_audio.c`,
`audio.c`).  Single-producer rings; a consumer clock paces movies.

**Command interpreter** (`raw_commands.c`; the frame loop and the renderer call it).
State: the records of the map, linked into chains, with four modifier bits and a count
each; a pool of active effects, a queue of timers, a deferred queue of follow-up chains
for each level of drain; and a dozen globals that the handlers share: interrupt, saved
chain, next active, pending message, acted.  Operations: triggers (contact, click,
sector, hook), the loop over a chain and its handlers, messages, the tick.  Correct when
a record that is armed is listed once, a failed condition runs the chain it names,
follow-ups run once they were earned, and a delay that counts expires.  *Hard:* handlers
call the loop again, and the inner chain leaves its traces in the globals of the outer
one; a retired record is known by a bit that seven places write.

**Maps and saved games** (`map_load.c`, `savegame.c`).  Journeys to another map and back
save the modifier bytes, counts and active effects of the map that is left; the return
reads the map afresh and dispatches saved effects again, on top of those that the map
lists by itself.

**Cutscenes** (`gdv_cutscene.c`).  State: a ring of chunks read ahead, with cursors of the
reader, the decoder and the sound; counters of the frames and blocks left and of pending
frames; flags.  Operations: open and preload, read a chunk, go back to the base of the
ring, decode a frame, ship a block of sound, start another lap, skip, close.  The tick
decodes a silent movie and ships the sound of a sounding one.  Correct when frames come
in order, sound and picture agree, a movie ends and a loop comes round.
*Hard:* the tick interrupts the reader between two looks at the decoder's cursor, and a
load and a store of a counter; reader and decoder wait for each other.

**DAS asset cache** (`das_assets.c`, `renderer.c` 340-420).  State: a status byte per
FAT index (a slot, a flat colour, not loaded), the slots with their handles and last
uses, the bitset of indices that were given up, the handles and selectors behind them,
and a few globals: current slot, current handle, protected allocation, tick.
Operations: a request of the renderer, loading, reservation of a slot, eviction of the
oldest block, making room in the middle of a load or for another client, postprocessing
by kind of block, change of map.  Correct when the tables, the pool and the descriptors
agree in every pass of every loop, no block of this frame is taken for a load, nothing
is given up that could have been loaded, and every request ends.  *Hard:* loops within
loops share the globals; a block can fail when half of it is there; the client's address
is good for one frame only.

**Plugin loader and host API** (`plugin_loader.c`, `os_api.c`,
`standalone_hooks.c`).  Scan, version gate, dispatch order.

**Start and shutdown** (`main.c`, `boot.c`, `sdl_host.c`).  `quit`, `viewer_alive`
and `_exit` between two threads.

**DPMI and LDT emulation, DOS files, system layer** (`dpmi.c`, `dos.c`,
`dpmi_dos_os.c`, `sys/*`).  Descriptor and DOS memory allocation; wrappers.

**Other game logic** (`doors.c`, `entity_ai.c`, `dbase100.c`, `inventory.c`,
`weapon_combat.c`, `player.c`, `collision_physics.c`, `game_core.c`, menus and
dialogue).  Slot pools and small state machines over map data.

**Renderer, blitters, text, the movies' codec, generated data.**  Pixel and bit
processing without control worth a state machine.

## 2. Modules and the code

| module | models | composed with |
|---|---|---|
| `FramePublish` | the three actors of the picture | |
| `Keyboard`, `MCKeyboard` | the whole key path, both programs | |
| `Mouse`, `MCMouse` | motion and buttons | |
| `PoolChunks` | the chunk list: carve, split, release, recomputation | |
| `RawPool` | the game heap and its clients | extends `PoolChunks` |
| `HandlePool`, `MCHandlePool` | handle table, compaction, locks | extends `PoolChunks`, implements `HandleStore` |
| `HandleStore` | the abstract promise of the handle pool | |
| `OverrideRegistry` | registration, apply, unwind | |
| `Sound`, `MCSound` | records, descriptors, voices, mixer, callbacks | |
| `DasCache`, `MCDasCache` | the cache of blocks: requests, loads, evictions, selectors | stands on what `HandlePool` shows of the pool |
| `CommandChains` | the command interpreter: chains, handlers, effects, timers, deferred queue | |
| `CommandWorld`, `MCCommands` | triggers, ticks and journeys around it | extends `CommandChains` |
| `Movie`, `MCMovie` | reader, decoder and sound in the ring of a movie | |
| `PoolChunks_proofs` | lemmas about the chunk list | used by the next |
| `Pools_proofs` | theorems about `RawPool` and `HandlePool`, the refinement of `HandleStore` | both models in one module |
| `Host_proofs` | theorems about `FramePublish` and `OverrideRegistry` | both models in one module |
| `Input_proofs` | theorems about `Keyboard` and `Mouse` | both models in one module |
| `Commands_proofs` | theorems about `CommandWorld` | |
| `Movie_proofs`, `DasCache_proofs`, `Sound_proofs` | theorems about these | |

**FramePublish.**  A pixel is not a colour but a record of where it came from:
`[scene, over, pub]`.  `game`, `tick` and `reader` are the program counters of the
three actors; the tick preempts (`Preempted` disables every game action), the reader
interleaves freely.  Copies are one cell per step where another actor can cut them
(`SnapshotCell`, `TickBlit`, `TickLiveCell`, `EmitRow`, `ReadCell`); what the tick
does to memory that only the tick and the preempted thread see is one step
(`TickStage`).  `path` stands for the globals that select a branch of `shm_tick`.
Palettes, dimensions and pacing are left out.

**Keyboard.**  `standalone` is chosen in `Init`: the image-free program, in which
every tick is interactive, or the trap host, in which `Dispatch` moves the game
thread between game code, a handler and an interactive dispatch.  `PushStore` and
`PushBump` are the two stores of `push_key`; one byte per step is drained, since the
SDL thread can push in between.  `Apply` is common to the tick
(`iso_apply_scancode`, behind the plugins' filter) and to the interrupt
(`keyboard_int9_isr`).  `spoiled` records the codes of which an event was lost, and
is the only way out of the two ordering properties.

**Mouse.**  `ViewLoad`/`ViewStore` and `GameRead`/`GameLoad`/`GameStore` are the
memory accesses of `mouse_dx += idx` and of `dx = mouse_dx; mouse_dx -= dx`.  One
axis stands for two; the register is `2 * Half` wide.  Its specification is called
`MouseSpec`, so that one module of proofs can extend it together with `Keyboard`.

**PoolChunks, RawPool, HandlePool.**  `heap` maps the address of every chunk to its
header; "the next chunk" is computed from the size, as in the code.  `Carve*` and
`Release` are whole functions, including the recomputation of the largest free
chunk that also restores the mark of the last chunk.  The compaction of the handle
pool is one chunk per step, which costs nothing and lets the invariants speak of
its loop.  Contents are model values behind the header.  The actions of the game heap
have its names (`HeapAlloc`, `HeapFree`: `game_heap_alloc`, `game_heap_free`) and its
specification is `HeapSpec`, so that one module of proofs can extend both pools.

**OverrideRegistry.**  One action per iteration of the loop in `overrides_apply`
and in `unwind_all`; a page that cannot be made writable is a nondeterministic
outcome both of the patch and of the unpatch.  Its specification is called
`RegistrySpec`, for the same reason as `MouseSpec`: its proofs stand in a module with
those of `FramePublish`.

**Sound.**  The tick is a signal on the game's own thread, so a tick is atomic for the
game and no game action is enabled while `tick # "idle"`; `MixVoices` or `Cushioned` is
its first half, `Delivery` the second.  A play call is `Claim`, `Resolve`, `Load` and
`Start`, with a tick possible between any two; each stop, eviction or flush is one
action.  A sample is a model value with a length in ticks; a descriptor's slot also
names its buffer, so that loading into a slot again is loading at an address that
recurs, the case the mixer's restart test must survive.  Ages of descriptors are
abstracted to "any": an eviction may choose any descriptor of its pass.  Fields that
are dead are given fixed values.  `id`, `heard` and `lost` are history: `lost` collects
the sounds that lost their record or voice to another, to a full queue or for want of a
voice, and those that a stale callback released to end twice.  It is the only way out of
`RecordsAndVoicesPair`, and for a sound that a delivery turns off of `SoundsAreHeardInFull`.

**CommandChains, CommandWorld.**  The interpreter is one thread of nested calls, so its
state is the stack: `agenda` holds what the innermost call does next and what its callers
have left to do.  An action is one record dispatched, or the return of a handler that had
called.  `exec` and `inner` are the two copies of the loop, which differ in when they
shift the chains that `saved` and `nextActive` name.  A record keeps the fields that steer
control: kind, successor, argument, length, the flags that retire it or let it act more
than once.  What a record does to the map is left out; what it returns is a choice where
it depends on the map (`if`, `give`).  A level is data, so that the instance lists a few
small levels instead of one large one.  `promise` remembers a chain that a failed
condition has still to run.  Left out: the bit 0x02 that a toggle switches in a target of
base 0x06 or 0x2c, the brightness that a light's refresh computes, and the limit of 32
timers, which no level reaches.  `CommandWorld` adds `Travel`, one action for leaving and
coming back: no record is run in between, and another map has a table of its own.
What it saves and lists again is given position by position (`SavedEffects`,
`Dispatched`), not by recursion over the list, so that the proofs can speak of it.

**Movie.**  The ring is a function from addresses to the chunk that starts there; reading
a chunk spoils what it overlaps.  `game.pc` is the place in the game thread's loop, with
the reader's two looks at the decoder's cursor (`LookAbove`, `LookBelow`), the header and
the payload of a chunk, and the load and the store of each counter as steps of their own,
because the tick comes between any two of them.  A tick is one action, since it is not
interrupted by the game.  Chunk sizes, lengths and rings are chosen in `Init`.
`seen` is the last frame and the newest block, so `FramesInOrder` says that nothing but
the next one follows; it does not see the same one twice running, and it exempts the block
that is shipped while playback starts.  `lost` and `drift` are history: the pending frames
and the decrements that an interrupted load and store wiped.

**DasCache.**  A step is one pass of a loop: a look at the table, one eviction, one
attempt to allocate, one block read, one way to finish it.  The pool is the set of its
live handles with their sizes; where the blocks lie is left to chance (`MayNotFit`), as
an allocation that may not compact can meet gaps.  `HandlePool` shows that one that may
compact meets none (`CompactionDefeatsFragmentation`), so the two models meet at
`MayBeRefused`.  `given` is the bitset of indices given up.  `trust` is history: "leaky"
or "stray" once the code has lost track of descriptors in one of the two ways listed
below.

## 3. Runs

| run | question | instance |
|---|---|---|
| `frame` | is what gets shown whole enough? | 2 cells, panel over one, all five paths, with and without linear frame buffer, 3 scenes, 2 publications |
| `frame_live` | is the window presented for ever? | 1 cell, counters that wrap, producer that never stops |
| `keys` | order, bitmap, input ring, stuck keys | both programs, a modifier, a prefixed cursor key and a plain key, 3 slots of shared ring, 2 of queue, 3 of input ring, 5 bytes |
| `pool_raw` | the game heap under every sequence of calls | arena 28, header 2, three sizes, two contents |
| `pool_handles` | handles, compaction, locks, refinement | arena 15, 3 slots, three sizes, one lock |
| `mouse` | motion and clicks | 3 events of -1, 1 or 3 in a register of 8 values, 3 presses, 2 swap toggles |
| `overrides` | chains, order, unwinding, strict mode | 3 targets, 2 plugins, 2 priorities, chains of 2, 4 registrations |
| `sound` | are sounds heard in full, paired, loaded? | 4 records, 2 voices, 1 descriptor, samples of 1 and 2 ticks, both also as loops, 3 callbacks, 4 plays |
| `sound_ends` | does every sound end? | as `sound`, 3 plays |
| `commands` | chains, conditions, follow-ups, effects and journeys | 9 levels of 6 to 13 records; deferred queue of 2, 3 effects, timers that retry after 1 |
| `movie` | order, accounts and ends of movies | stride 2, rings of 2, 3 and 3½ strides, 1, 2 or 5 chunks of size 1 or 2, one drift |
| `das_cache` | tables, pool and descriptors; evictions; answers | one index of each kind, 2 slots, pool of 6, 2 descriptors, another client of 4, ticks modulo 3 |

**Why the bounds are enough.**  *Frames:* a tear needs two cells, and telling the
panel from the rest needs two; two publications and three scenes are the fewest in
which a read spans more than one publication and a snapshot is cut between scenes
that are not the first; the retry bound is the code's.  *Keys:* five bytes lap a
three-slot ring (a prefixed key is two bytes), overflow a queue of two, and make three
entries of two different codes in an input ring that holds two: the tick enqueues while
the game thread is between reading a code and advancing, the ring wraps, and it is found
full.  They still allow a press, a release and a second press.  *Pools:* the arenas hold three to seven blocks, sizes that leave
remainders both above and below the split limit, and sizes that are not aligned.
*Overrides:* three targets are needed for a failing write after two patches, so that
one failed unpatch has a successor; three registrations of one function exceed the
chain limit of two.  *Mouse:* three events of 3 exceed the half range of 4, so sign
extension wraps.  *Sound:* a
callback waits for a later tick only behind another, so two sounds must end together;
one of them, a loop, keeps its voice while the other is stopped and its voice goes to a
fourth sound that claimed a record a third had left.  Four is the fewest plays in which
a queued callback meets a voice that was started again for *another* record: with three
the `retagged` guard could be dropped unnoticed.  One descriptor makes loads evict and
buffers recur.  Three callbacks can wait: that of a sound which was stopped, behind it
that of another voice, and that of the sound which took the first one's voice and has
ended too.  This last one is released by the first when it is dropped, and ends again; as
a loop it then has a second round coming that it did not earn, so both samples loop.
A two-tick sample can be cut, a one-tick sample ends in the tick that first sees it.  As
in the code, the queue holds one callback less than there are records.  A lock modulo 8 cannot wrap with four plays.
*Commands:* each level is about one mechanism and is explored under every order of
triggers, ticks and journeys: a condition with a jump, with and without a message that
runs a chain (one inside an ordinary chain, one inside base 0x40's copy of the loop); a
count stepped up and down by a trigger, a timer, an expired delay and a hook, and with a message;
delays and effects in more numbers than the pool has room for, one of them authored; two
delays that run each other for ever; and three delays for a queue of two, two of which
run themselves again.  A queue of two and a pool of three do get full, so that a saved
effect finds no room, and a delay that has expired waits for room while others fill the
queue, in every other tick (and then has its turn) or in every tick.  *Movie:* a ring of two strides is the least the code takes, one of three the
least that works, and half a stride more makes the end of the ring and the end of the
last slot differ; five chunks of mixed sizes go round each ring, one and two end
before the ring is full, also as loops.  *DAS cache:* with two slots and a pool that holds
two blocks and a part, a load must evict, and so must making room in the middle of a
load.  Two descriptors do not suffice for a grouped block beside another, so that it
fails halfway; what it has leaked then leaves a decode block without one.  A counter
modulo three ages a block by one frame, by two, and makes a block that was left alone
look new.

`CHECK_DEADLOCK FALSE` is set for the registry, which ends (the boot goes on
or the process exits), and for the movie, which is over when it is closed.  In the other
runs the system never stops: the reader, the
tick or the clients always have a step.

**What was met while modelling.**  Most of the claims of the comments hold.  Where the
code does less than a comment says, or less than one might think, a property states what
does hold, or names the exception.

*Picture and input.*

- `sdl_host.c:120` says that the guard excludes torn uploads; `frame` moves only after
  the copy, so a read in the middle sees it unchanged.
  `StableUploadSpansTwoPublications` is what the guard does give.
- `shm_tick` bumps `frame` on every tick, also between the rows of a cutscene frame,
  whereas `shared_fb.h:30` has it "bumped after each full publish".
- `traps.c:1694-1696` says that the snapshot is never caught mid-frame.  That is so of
  scenes being drawn, but the tick can interrupt the copy of the snapshot itself; then two
  finished scenes are mixed, never more.  `PublishesFinishedFlips` states both.
- The SDL thread's `+=` and the game's `-=` on the motion counters overwrite each other
  when they overlap, although `dpmi.c:504` says "consume only what we read (viewer may
  add)"; `UncontendedMotionIsExact` is what holds.

*Sound.*

- `audio.c:2267` says that the reclaim of a stale callback touches "neither the live voice
  nor its record".  When it runs, the record it names is dead or another sound's, because
  a stop frees the record of its sound; in the second case a playing sound loses its record.
  Such a sound is one of `lost`.
- `audio.c:1698` says that the callback is delivered with the voice active "so its lookup +
  handle-count decrement work"; a one-shot gets action 2, and that arm frees the record and
  leaves the descriptor's lock as it is.
- A callback that is stale clears `g_vended` of the voice (`audio.c:2748`; the other copy
  of the code calls it "already 0 in the reuse paths; be safe", 2291).  It is not always 0:
  the new sound in the voice may have ended itself and be waiting for its own callback.
  It is then mixed again, ends again and gets a second callback, although 1698 has the
  callback fired "ONCE" and 1717 says "don't mix or re-queue until resolved".  The first of the
  two may ask for another round, which the second one cuts or frees the record of.  Such a
  sound is one of `lost`.
- The lock is a byte.  With that leak, 256 one-shots of one sample wrap it to zero, and the
  sample can be released under a voice: TLC violates `LiveRecordsKeepTheirSample` with
  `LockMod = 2`, and `RecordsAndVoicesPair` too, because a loop whose descriptor was emptied
  is turned off while its record stays.  Even then no sound that is not lost is cut.
- A voice that ends with the queue full is freed without a callback, and its record
  stays taken (`audio.c:1731`).
- An eviction in the middle of a load stops every record with the evicted slot; the
  record being filled still has the slot and voice of its previous user, and can be
  stopped with them (`engine/audio.c:554`).

*Registry.*

- After an unwinding `overrides_apply` returns the number of entries that were patched
  before it (`override_registry.c:222`), not of those patched now.

*Commands.*

- A jump names the chain of the very next record only: anything between it and its
  condition shifts the name away.
- A message that runs a chain resets the interrupt, the saved chain and the flag of the
  chain that fired it, which then goes on as if nothing had failed;
  `FailedConditionsRunTheirElse` and `FollowUpsAreEarned` except that case.
- A message whose own chain fails a condition fires itself again, without end
  (`raw_commands.c:4653`): the message is unlatched only after it was fired.  No level
  contains one.
- A message stays latched over a sector trigger, a hook and a drain, and may be stale after
  a change of map.
- Follow-ups pushed by a hook, or while the queue is drained, wait for nobody: the next tick
  or click clears them.  `ServedFollowUpsAreNotDropped` is about the others.
- Delays that are listed anew in every tick are listed in front, and may fill the queue
  before an older delay gets its turn, which then waits for ever (`raw_commands.c:5337`).
  It takes as many delays of one tick as the queue has entries, each of which runs itself
  again (or is triggered again by the player), or fewer with modifier 0x04.
  `DelaysExpire` therefore has a premise: again and again a tick begins in which those
  ahead of the delay leave it an entry.  Without the premise TLC violates it in the level
  `Crowd(1)`.
- An effect that the map lists itself and that has ended starts again on the return to the
  map, unarmed (`map_load.c:652`-659).
- A saved effect that finds no room on the return leaves its record armed for ever, and
  its countdown is copied into the effect listed last (`savegame.c:527`); `misplaced` is
  the exception in two properties.

*Movies.*

- The pending frames are taken down by a load and a store (`gdv_cutscene.c:1745`; the
  comment at 1737 and `traps.c:1952` know that the tick writes them).  A tick in between
  queues a frame that the store wipes, and the movie does not end by itself:
  `MovieEnds` excepts it (`lost`).  The counter of a loop has the same gap, which only
  shifts the counter (`drift`).
- The tick finds the decoder active (1480) before the first frame is shown (1772).  Blocks
  shipped in between come from a stale cursor, and their frames are lost; a block may also
  get in ahead of the first one.
- A ring of two strides is accepted (925).  Reader and decoder can then wait for each other
  for ever; `MovieEnds` assumes three.
- A loop that is all in the ring and whose chunks before the last fill no more than a
  stride stops at its last frame (2947).  `LoopKeepsTurning` assumes more.
- A movie of no frames would count 65535 (the end is a comparison with 0xffff); the
  result of the rewind is not looked at; the pacing budget 0x91880 is always zero;
  no caller asks for the timer-paced or the streamed mode.

*DAS cache.*

- A grouped block that fails at a child keeps the selectors of the children before it, and
  is tried again at every request (`das_assets.c:837`): `trust = "leaky"`.
- The selector of a decode block may fail without notice (`das_assets.c:818`); the stale word
  is freed with the block: `trust = "stray"`, after which any descriptor may be freed.
- `evict_das_cache_slot` reports success when no status entry names the slot
  (`renderer.c:386`), so a loop over such a slot would not end.  `CacheIsConsistent` and
  `RequestsAreAnswered` show that it does not come to that.
- An index of 0x800 or more that was given up stays flat as long as the process lives:
  `reset_renderer_tables` clears 0x80 of the 0x200 bytes of the bitset
  (`renderer.c:1477`).  `Forgiven` models this.
- `emit_world_face_spans` repeats a request that was answered by a flat colour
  (`renderer.c:5818`); the indices it asks for are above 0x1000, which are not given one.
- A block that was left alone for exactly 65536 frames looks as if it were of this frame,
  for one frame.
- Reserving a slot, and making room for another client, may evict blocks of this frame;
  `EvictionIsTheLastResort` is about a load's own allocation.

**Fairness.**  `FramePublish` assumes weak fairness of the SDL main thread: it is an
ordinary thread that never blocks on the producer.  Nothing is assumed of the tick
or of the game thread; the liveness must hold however fast they produce.  `Keyboard`
assumes weak fairness of the tick (an interval timer) and of the second half of
`push_key`, which the SDL thread finishes once it began; nothing is assumed of the
user or of the game thread.  `Sound` assumes weak fairness of the delivery (the end of a
tick) and strong fairness of `MixVoices`: the timer runs for ever and not every tick
finds the cushion full, since the device drains it, or, when it does not, the mixer
stops waiting for it after 70 ticks.  Nothing is assumed of the game.  `CommandWorld`
assumes weak fairness of the calls that have begun (the interpreter is one thread that
runs) and strong fairness of the tick: it is a step of the frame loop, possible whenever
no call is under way, however often the player triggers something in between.  `Movie`
assumes weak fairness of the game thread's loop and of the two ticks, that is, that a chunk
which may be decoded falls due some day; nothing is assumed of the player, who may skip or
not.  `DasCache` assumes weak fairness of the loops of a load, which the game
thread runs without waiting for anybody; nobody is obliged to ask.

## 4. Proofs

The theorems hold for every value of the constants that satisfies the named
assumptions of the modules, and the hypothesis that some of them state.  These say what the code guarantees of sizes and limits:
natural numbers, not zero where the code divides or indexes by them, sets that are
finite where they stand for arrays.  Five say more.  `MovieAssumption` has chunks that
fit in a stride and rings of two strides, as `gdv_open` demands; `KeyboardAssumption`
says that the prefix 0xe0 is no code of its own; `CommandAssumption` that the links of a
level's records name records of that level or none; `DasCacheAssumption` that every index
that is forgiven is a low one, as the bitset's layout has it; `PoolAssumption` that
header and granularity are not zero.

| theorem | states |
|---|---|
| `RawPoolInvariant` | the inductive invariant of the game heap |
| `RawPoolIsWellFormed` | `HeapSpec => []ChunkListIsWellFormed` |
| `RawPoolAccounts` | `HeapSpec => []AccountsAreExact` |
| `RawPoolPrivacy` | `HeapSpec => []BlocksArePrivate` |
| `RawPoolDefragments` | `HeapSpec => []EmptyHeapIsOneChunk` |
| `HandlePoolInvariant` | the inductive invariant of the handle pool |
| `HandlePoolIsWellFormed` | `Spec => []PoolInvariant` |
| `HandlePoolFlagsStaleAddresses` | `Spec => []StaleAddressIsFlagged` |
| `HandlePoolDefeatsFragmentation` | `Spec => []CompactionDefeatsFragmentation` |
| `HandlePoolIsAHandleStore` | `Spec => ImplementsHandleStore` (refinement) |
| `OverrideRegistryInvariant` | the inductive invariant of the registry |
| `OverrideJumpsHaveChains` | `RegistrySpec => []JumpsHaveChains` |
| `OverrideChainsKeepTheOutermost` | `RegistrySpec => []ChainsKeepTheOutermost` |
| `OverrideWriteFailureTakesAllBack` | `RegistrySpec => []WriteFailureTakesAllBack` |
| `OverrideStrictIsAllOrExit` | `RegistrySpec => []StrictIsAllOrExit` |
| `FramePublishTypes` | type correctness, bounds of all copy loops |
| `StagedTicksKeepTheOverlay` | `Spec => PanelKeepsOverlay` (action property) |
| `TicksPublishFinishedFlips` | `Spec => []PublishesFinishedFlips` |
| `StableUploadsAreRecent` | `Spec => []StableUploadSpansTwoPublications`, if `~Endless` |
| `EveryFrameIsAccountedFor` | `Spec => []FramesAreAccounted` |
| `RingIsAWindow` | the inductive invariant of a movie's ring |
| `FramesComeInOrder` | `Spec => FramesInOrder` (action property) |
| `KeyframesStartTheLap` | `Spec => []KeyframesOnlyAtTheStart` |
| `KeyboardInvariant` | the inductive invariant of the key path |
| `KeyEventsStayInOrder` | `Spec => []EventsStayInOrder` |
| `DrainedKeysAreTheLastOnes` | `Spec => []DrainedBitmapIsCurrent` |
| `InputRingLosesNothing` | `Spec => []InputRingConserves` |
| `UncontendedMotionArrives` | `MouseSpec => []UncontendedMotionIsExact` |
| `NoClickWithoutAPress` | `MouseSpec => []ClicksComeFromPresses` |
| `DasCacheInvariant` | the inductive invariant of the DAS cache |
| `CacheAgrees` | `Spec => []CacheIsConsistent` |
| `EvictionComesLast` | `Spec => EvictionIsTheLastResort` (action property) |
| `SoundInvariant` | the inductive invariant of the sound effects |
| `SoundPairs` | `Spec => []RecordsAndVoicesPair`, if `MaxPlays < LockMod` |
| `SoundSamples` | `Spec => []LiveRecordsKeepTheirSample`, if `MaxPlays < LockMod` |
| `SoundHeardInFull` | `Spec => SoundsAreHeardInFull` (action property) |
| `CommandInvariant` | the inductive invariant of the command interpreter |
| `OneEffectEach` | `WSpec => []ArmedRecordsHaveOneEffect` |
| `ElseChainsAreRun` | `WSpec => []FailedConditionsRunTheirElse` |
| `ServedFollowUpsStay` | `WSpec => ServedFollowUpsAreNotDropped` (action property) |
| `FollowUpsOfCountsAreEarned` | `WSpec => FollowUpsAreEarned` (action property) |
| `JourneysKeepEffects` | `WSpec => TravelKeepsEffects` (action property) |

**Game heap.**  `WellFormed` as the run states it speaks of neighbours (`Gapless`:
the end of a chunk is a chunk or the end of the arena).  It is true but awkward to
preserve: splitting and merging change who is whose neighbour.  The inductive
invariant therefore says that the chunks *tile* the arena (`Tiled`): they are
bounded, disjoint and cover every byte.  From that, a lemma derives that the end of a
chunk is the start of the next one, and hence `Gapless`.  Each operation is then
one of two changes of a tiled list, a chunk that is cut in two or two or three chunks
that become one, and a lemma for each says that the result is tiled, that back links
and the last mark are right, and that no two free chunks became neighbours (a carve
makes no free neighbour, since the free chunk it cuts had none; a release merges with
both).  The counters need one fact more: the bytes of blocks in use, counted as the
cardinality of a set, grow and shrink by the size of the block (`Cardinality` of a
disjoint union, from the library's finite-set theorems).  `EmptyHeapIsOneChunk`
follows from `Coalesced` and privacy: with no block in use, two chunks would be two
free neighbours.

**Handle pool.**  The lemmas of the chunk list serve here too as long as no compaction
is under way (`Settled`).  During one the list is not tiled: `Gathered` describes it as
two halves.  Below the write cursor lie blocks without gaps, from the read cursor on the
chunks that are still to be visited, and what lies between is what was squeezed out,
`squeezed = rd - wr`; back links are right but for the chunk at the read cursor.  A pass
moves a block from one half to the other, or takes a free chunk from the second and
widens the gap; the last pass makes one free chunk of the gap, and the list is tiled
again.  That a compaction meets a gap at all (`CompactionDefeatsFragmentation`) is
because it was begun by a request that fits in the total but in no chunk; that the
retry fits is because then the largest chunk is the total.  The refinement needs the
invariant in one place: a moved block keeps its contents only because source and
destination of the copy belong to no other block.

**Registry.**  An entry jumps if and only if it is on the undo list or could not be
taken back, targets still to be visited have not been patched, and an entry that jumps
has one of the chains of its own registrations.  With this each of the four properties
is read off; only the order of a chain needs reasoning of its own (two registrations of
a function are ordered by priority, then by place, which is a total order, so the rank
of a registration in its chain is unique).

**Picture.**  `FlipInv` relates the back buffer, the snapshot and what is shown: while a
scene is drawn the back buffer is that scene up to the cell being drawn and one older
scene from there on (`BackIsSplit`); the snapshot is whole but for the copy and the popup,
and in the copy it is split at the cell being copied (`CleanIsAFlip`); which phases a
branch knows is `PathOfPhase`.  `UploadInv` speaks of the guarded read: `frame` has room
for the publications that are left (`FrameHasRoom`), the shared pixels belong to the
publication that began last, those its copy has not reached to the one before
(`PixelsAreRecent`), and while `frame` is what the first look found, so do the cells that
were read (`ReadIsRecent`).  The theorem assumes
`~Endless`, which is to say that `frame`, a 32-bit counter in the code, does not come
round to the same value between the two looks of one upload.  The instance in which it
does (`frame_live`) is about liveness only.

**Movies.**  A movie's ring holds chunks of any sizes, and the reader overwrites what it
meets.  `RingInv` says that there is a *window*: a row of chunks with consecutive numbers
that begins at the decoder's cursor, each where the one before ends or at the base of the
ring, and that ends where the reader will write.  The sound's cursor is on a chunk of
that row, and nothing in the row is spoilt.  The difficult steps are the reader's: it
compares the decoder's cursor twice, a tick may come in between and move it, and it only
moves ahead, away from the reader (`LookAbove`, `LookBelow`).  A lap that is found in
the ring whole is a case of its own (`LapInRing`).  `CountInv` is independent of the
ring: the frames left to show are the blocks left to ship, those that are pending and
those that a store wiped, with the value the game thread has loaded in place of the
pending ones while it has not stored it.

**Keys.**  `KeyInv` says what lies between the cursors of the shared ring, at most its
capacity, and what the drain of a tick has in hand; the bytes applied, queued and
shared, in this order, are a prefix of those sent, unless a byte was lost.
`BitmapInv` follows the *level* of each code, the last event about it among those
applied: the held bit is that level, in both programs, because both apply an event in
the same way.  `RingInv` is about the four-slot ring: its contents are the slots from
head to tail, modulo their number, also between a dequeue's read and its advance.

**Mouse.**  The register holds what was stored and not delivered, up to whole turns of
its range (`Turns`), with a term for the event and the poll that are between load and
store; a store that overwrites another's ends the claim.  For clicks, each click that was
reported is paid for by a press or a toggle, and a level that a poll has not yet seen
holds one in advance (`Edge`).

**DAS cache.**  The loops of a load share five globals, so the invariant has two parts.
The shapes say who owns what: every block of the pool has one slot, or is the client's or
the load's own (`PoolShape`); every descriptor that is taken belongs to one block, unless
the code has lost track of them (`SelShape`); the table names every taken slot but that of
the load (`TableShape`); the block being loaded has no name and no descriptors, and its
slot was used in this frame (`LoadShape`).  `Phases` says what each step has in hand.  The
victim of an eviction is then never the load's own slot, which is of this frame and
pinned, and its block has a name in the table; so each eviction frees exactly one slot,
one block and that block's descriptors.  That a fresh handle exists for every allocation
is a pigeonhole argument over the slots (`FreshHandle`).  `EvictionIsTheLastResort` follows
from the invariant at the step that evicts.

**Sound effects.**  What the mixer has of a voice that is on is one of two things: a cursor
that will be recognised as another sound's (`Fresh`), or the very place of the sound in it
(`Tracked`), with no tick heard in the first case and as many as the cursor in the second
(`CursorsAgree`).  The restart test is right because a voice is started at cursor zero, and
an old cursor at zero on the same buffer is as good as a new one, provided that voice does not
still count as ended.  An id was given to a sound that was played and names at most one live record
(`SoundsAreCounted`); the sound that is between claim and start has its record and is in
no voice and no callback (`StartIsAhead`).  A callback whose sound still has its voice is
the only one of that sound, and the voice waits for it at the end of its sample
(`CallbacksWait`): so a delivery that is not stale turns off a sound that was heard in
full, and frees the record of that sound.  This is where the doubled callback was met: without
`lost` the invariant is not inductive, and TLC shows the sound.  A descriptor's lock is at least the number
of live records that name it and at most the plays that were started (`LocksSuffice`).
That, and with it the first half of the pairing (a live record has its voice), holds only if
`MaxPlays < LockMod`, and the invariant states it as an implication: one-shots leave their
lock behind, so a lock that comes round empties a descriptor in use.  In the code `LockMod`
is 256, and `SoundPairs` and `SoundSamples` speak of the first 255 plays of a run of the
program, with any number of records, voices, descriptors and samples.  `SoundInvariant` and
`SoundHeardInFull` have no such hypothesis.  Of the pairing they need the second half (a voice
that is on has its record) and, of the first, only what `CallbacksFindTheirVoice` keeps:
a record whose sound waits for a callback still has the voice of that callback.  That is
stable without any lock, because the delivery that turns off a loop whose sample is gone
takes the sound's only callback with it.  TLC checked this conjunct and the weakened
invariant with `LockMod = 2` (7,068,013 states) before the proof.

**Commands.**  The levels are arbitrary: any tables of any length whose links stay in the
table, so that a chain may be circular, call itself or trigger itself through the queue.
The stack is therefore unbounded, and `CommandInv` says what is true of any stack.
`Nested`: a chain that is run as a handler, or by a failure, stands right above the loop
that waits for it, and only the tick of the world stands at the bottom as such.
`DebtIsDue`: while a failed condition's chain is owed, the register `saved` still names
it, and the call on top is the loop that was interrupted, waiting or about to end, or
the message of that very failure.  Every other action either needs a different call on
top or ends the debt, and the trigger's loop cannot return to an empty stack with the
interrupt set without running what it owes; so nothing is owed when the stack is empty.
The message that resets the registers is the one action that forgives a debt (`Reset`).
`ServedAreAwaited`: while the queue holds a follow-up that a drain is to reach, a drain is
on the stack; so the tick and the click, which come to an empty stack, drop none.
`CountingIsKnown`: when messages run no chains, nothing stands above the question
whether a Count is still counting but that Count's message, so the interrupt is still
its own.  The list of effects is the part about data.  The places of a record in it are
counted as a set (`Places`), and each of the three changes of the list comes with a
bijection of places: an effect that is prepended, one that is unlinked from anywhere, and
a journey, which puts the saved places, last first, in front of those that the map lists
itself.  `InOrder`, the scan of a table or a list,
names each member of a finite set exactly once; that is where the theorems need
cardinalities.  `JourneysKeepEffects` then follows without an induction over the list:
for each record the places before and after the journey are in bijection, with the same
countdowns.

**Only model-checked.**

- Liveness (`PresentsForever`, `ReleasedKeyClears`, `SoundsEnd`, `DelaysExpire`,
  `MovieEnds`, `LoopKeepsTurning`, `RequestsAreAnswered`): out of the prover's reach, as
  is everything with `ENABLED`.
- What `Reach` computes, the recursive function that collects the records a chain leads
  to: it takes induction over data, which the prover cannot instantiate.  It decides only
  whether a trigger is blocked, and no theorem depends on it.

Every other property of a run is stated by one of the theorems above.

## 5. Plan

Written so far: the picture, the keyboard, the mouse, both pools, the registry, the
sound effects, the commands with their journeys, the movies, the DAS cache, and the
proofs of all of them.  Next, in this order:

1. `AudioRings`: two single-producer rings, the drop of MIDI events, truncation of
   movie audio, the drain clock that paces a movie.
2. `Doors`, `Inventory`: slot pools and life cycles of game objects, which the commands
   start.
3. `PluginHost`, `Shutdown`, `Ldt`: boot, dispatch and exit.

## 6. Not modelled

`PROJECT.json` lists every component with the reason.  In short: pixel, sample and
fixed-point arithmetic (renderer, mixer, collision), file formats and decoders,
wrappers over the operating system, generated tables, and the game logic that is
still planned.  Within the modelled components:

- *sound:* speech and movie voices, volume and pan;
- *input:* key remapping and hooks, cursor clipping and acceleration;
- *pools:* selector tables and resizing of handle blocks;
- *picture:* palettes and dimensions;
- *commands:* what the records do to the map (light, textures, movement, sound), the items
  that conditions test, dialogue records beyond the chain they run, the limit flag 0x08
  and the xor step of counts;
- *journeys:* geometry, objects and the save slots of a map;
- *movies:* the bit-level codec, the timer-paced and the streamed mode, the video mode,
  a movie whose reader cannot be opened;
- *DAS cache:* the placeholders 0xfc and 0xfe, which stand for another index, the special
  index, flat shading, and what is in a block.
