------------------------------- MODULE Sound -------------------------------
(***************************************************************************)
(* Sound effects: the game's records, the driver's voices and the mixer.   *)
(*                                                                         *)
(* To play a sample the game claims a record, finds or loads the sample    *)
(* into a descriptor (evicting others when it must), counts a lock on the  *)
(* descriptor and submits the record to the first voice that is off.  The  *)
(* mixer advances the voices once per timer tick.  It keeps its own cursor *)
(* per voice and learns of a restart only by comparing that cursor with    *)
(* the voice.  A voice that reaches its end stays on until its `done`      *)
(* callback, which waits in a queue of which a tick delivers one; until    *)
(* then the game may stop the sound and start another in the same voice.   *)
(*                                                                         *)
(* A tick is a signal on the game's own thread: the game does not move     *)
(* while tick # "idle", and a tick may fall between any two game actions.  *)
(* A descriptor is named by its buffer, so that reusing a slot is reusing  *)
(* an address.  Ages are abstracted: an eviction may choose any descriptor *)
(* of its pass.  Speech and movie voices are left out.                     *)
(***************************************************************************)
EXTENDS Integers, Sequences, FiniteSets

CONSTANTS
  Records,   (* number of handle records: 16                               *)
  Voices,    (* number of voices: 32                                       *)
  Slots,     (* number of sample descriptors: 32                           *)
  Samples,   (* the samples of the bank ...                                *)
  Ticks,     (* ... and how many mixing ticks each lasts                   *)
  Looping,   (* the samples that looping nodes play                        *)
  NoSample,  (* an empty descriptor                                        *)
  QueueCap,  (* callbacks the queue holds: 15                              *)
  LockMod,   (* range of a descriptor's lock, a byte: 256                  *)
  MaxPlays   (* bound on the sounds played                                 *)

ASSUME SoundAssumption ==
  /\ {Records, Voices, Slots, QueueCap, LockMod, MaxPlays} \subseteq Nat \ {0}
  /\ Ticks \in [Samples -> Nat \ {0}] /\ NoSample \notin Samples
  /\ Looping \subseteq Samples

Record == 0..Records - 1
Voice  == 0..Voices - 1
Slot   == 0..Slots - 1
NoVoice == Voices

VARIABLES
  rec,    \* g_active_sound_handles: [live, loop, loud, slot, voice, len, id]
  desc,   \* g_sound_voice_descriptors: [sample, lock]
  voice,  \* voice structs: [on, tag, start, pos, len, heard, id]
  mix,    \* the mixer's g_vact, g_vstart, g_vcur, g_vended, g_vgen
  queue,  \* g_cbq: [voice, gen, start, tag, frees, id]
  game,   \* game thread inside a play call: [pc, rec, sample, slot]
  tick,   \* "idle", or "deliver" after the mixing half of a tick
  plays,  \* history: sounds played; the number is the `id` of a sound
  lost    \* history: sounds that lost their record, voice or callback to another
          \* sound, to a full queue or for want of a voice

\* rec, voice and queue carry the id of their sound, and voice the ticks that
\* were heard of it, as history.
vars == <<rec, desc, voice, mix, queue, game, tick, plays, lost>>

NotPlaying == [pc |-> "idle", rec |-> 0, sample |-> NoSample, slot |-> 0]

\* Of a voice that is off, nothing is read until it is filled again.
Off == [on |-> FALSE, tag |-> 0, start |-> 0, pos |-> 0, len |-> 0,
        heard |-> 0, id |-> 0]

\* Of a voice that is not mixed, only the generation is read again.
NotMixed == [act |-> FALSE, start |-> 0, cur |-> 0, ended |-> FALSE, gen |-> 0]

Init ==
  /\ rec = [r \in Record |-> [live |-> FALSE, loop |-> FALSE, loud |-> FALSE,
                              slot |-> 0, voice |-> 0, len |-> 0, id |-> 0]]
  /\ desc = [s \in Slot |-> [sample |-> NoSample, lock |-> 0]]
  /\ voice = [v \in Voice |-> Off]
  /\ mix = [v \in Voice |-> NotMixed]
  /\ queue = <<>> /\ tick = "idle" /\ plays = 0 /\ lost = {}
  /\ game = NotPlaying

-----------------------------------------------------------------------------
(* Stopping.                                                                *)

Silenced(V) ==
  [v \in Voice |-> IF v \in V THEN Off ELSE voice[v]]

Dropped(R) ==
  [r \in Record |-> IF r \in R
                   THEN [rec[r] EXCEPT !.live = FALSE, !.loop = FALSE, !.id = 0]
                   ELSE rec[r]]

\* What is left of lock n after k stops: it never goes below zero.
Unlocked(n, k) == IF n > k THEN n - k ELSE 0

On(s) == {r \in Record : rec[r].live /\ rec[r].slot = s}
VoicesOf(R) == {rec[r].voice : r \in R}

\* Whom else stopping the records R hits: the sound that is being started, and
\* sounds in a voice that a record wrongly takes for its own.
Hit(R) ==
  {rec[r].id : r \in {q \in R : game.pc # "idle" /\ game.rec = q}}
    \cup {voice[rec[r].voice].id :
            r \in {q \in R : /\ rec[q].voice # NoVoice
                             /\ voice[rec[q].voice].on
                             /\ voice[rec[q].voice].id # rec[q].id}}

\* stop_sound_handle_voice, stop_sound_by_id: stop a record's voice.
Stop(r) ==
  /\ tick = "idle" /\ game.pc = "idle" /\ rec[r].live
  /\ voice' = Silenced({rec[r].voice})
  /\ desc' = [desc EXCEPT ![rec[r].slot].lock = Unlocked(@, 1)]
  /\ rec' = Dropped({r})
  /\ lost' = lost \cup Hit({r})
  /\ UNCHANGED <<mix, queue, game, tick, plays>>

\* flush_object_das_handles: empty every descriptor, stopping those in use.
Flush ==
  LET used == UNION {On(s) : s \in {x \in Slot : /\ desc[x].sample # NoSample
                                                 /\ desc[x].lock # 0}}
  IN
  /\ tick = "idle" /\ game.pc = "idle"
  /\ voice' = Silenced(VoicesOf(used))
  /\ rec' = Dropped(used)
  /\ desc' = [s \in Slot |-> [sample |-> NoSample, lock |-> 0]]
  /\ lost' = lost \cup Hit(used)
  /\ UNCHANGED <<mix, queue, game, tick, plays>>

\* update_active_sounds and the node commands: a looping node fades out or
\* is switched off, or comes back.
Fade(r) ==
  /\ tick = "idle" /\ game.pc = "idle" /\ rec[r].live /\ rec[r].loop
  /\ rec' = [rec EXCEPT ![r].loud = ~@]
  /\ UNCHANGED <<desc, voice, mix, queue, game, tick, plays, lost>>

-----------------------------------------------------------------------------
(* Playing.                                                                 *)

\* The play_* calls: claim the first free record.  A sound that is out of
\* hearing gives it back at once, which changes nothing.
Claim(x, loop) ==
  LET r == CHOOSE i \in Record : /\ ~rec[i].live
                                 /\ \A j \in 0..i - 1 : rec[j].live
  IN
  /\ tick = "idle" /\ game.pc = "idle" /\ plays < MaxPlays
  /\ \E i \in Record : ~rec[i].live
  /\ plays' = plays + 1
  /\ rec' = [rec EXCEPT ![r].live = TRUE, ![r].loop = loop, ![r].id = plays + 1]
  /\ game' = [pc |-> "resolve", rec |-> r, sample |-> x, slot |-> 0]
  /\ UNCHANGED <<desc, voice, mix, queue, tick, lost>>

\* resolve_sound_sample: the descriptor that holds the sample, if any.
Resolve ==
  /\ tick = "idle" /\ game.pc = "resolve"
  /\ game' = IF \E s \in Slot : desc[s].sample = game.sample
             THEN [game EXCEPT !.pc = "start",
                     !.slot = CHOOSE s \in Slot : desc[s].sample = game.sample]
             ELSE [game EXCEPT !.pc = "load"]
  /\ UNCHANGED <<rec, desc, voice, mix, queue, tick, plays, lost>>

\* load_sound_sample: fill an empty descriptor ...
Load(s) ==
  /\ tick = "idle" /\ game.pc = "load" /\ desc[s].sample = NoSample
  /\ desc' = [desc EXCEPT ![s] = [sample |-> game.sample, lock |-> 0]]
  /\ game' = [game EXCEPT !.pc = "start", !.slot = s]
  /\ UNCHANGED <<rec, voice, mix, queue, tick, plays, lost>>

\* ... or give up: nothing to evict, or the read fails.
LoadFails ==
  /\ tick = "idle" /\ game.pc = "load"
  /\ rec' = Dropped({game.rec})
  /\ game' = NotPlaying
  /\ UNCHANGED <<desc, voice, mix, queue, tick, plays, lost>>

\* evict_oldest_voice_descriptor, first pass: release one that is not locked.
EvictUnlocked(s) ==
  /\ tick = "idle" /\ game.pc = "load"
  /\ desc[s].sample # NoSample /\ desc[s].lock = 0
  /\ desc' = [desc EXCEPT ![s].sample = NoSample]
  /\ UNCHANGED <<rec, voice, mix, queue, game, tick, plays, lost>>

\* Second pass: stop the sounds of any, then release it if that unlocks it.
EvictLocked(s) ==
  LET left == Unlocked(desc[s].lock, Cardinality(On(s))) IN
  /\ tick = "idle" /\ game.pc = "load" /\ desc[s].sample # NoSample
  /\ voice' = Silenced(VoicesOf(On(s)))
  /\ IF left = 0
     THEN /\ desc' = [desc EXCEPT ![s] = [sample |-> NoSample, lock |-> 0]]
          /\ rec' = Dropped(On(s))
          /\ UNCHANGED game
     ELSE /\ desc' = [desc EXCEPT ![s].lock = left]
          /\ rec' = Dropped(On(s) \cup {game.rec})
          /\ game' = NotPlaying
  /\ lost' = lost \cup Hit(On(s))
  /\ UNCHANGED <<mix, queue, tick, plays>>

\* Mutant: a playing sample is not locked.
LockedNever(n) == n

Locked(n) == (n + 1) % LockMod

\* start_sound_voice and start_sound_voice_vol: lock the descriptor and take
\* the first voice that is off.
FirstOff == IF \E v \in Voice : ~voice[v].on
            THEN CHOOSE v \in Voice : ~voice[v].on /\ \A u \in 0..v - 1 : voice[u].on
            ELSE NoVoice

Start ==
  LET r == game.rec
      s == game.slot
      n == Ticks[game.sample]
  IN
  /\ tick = "idle" /\ game.pc = "start"
  /\ desc' = [desc EXCEPT ![s].lock = Locked(@)]
  /\ rec' = [rec EXCEPT ![r] = [@ EXCEPT !.loud = TRUE, !.slot = s,
                                         !.len = n, !.voice = FirstOff]]
  /\ voice' = [v \in Voice |->
                IF v = FirstOff
                THEN [on |-> TRUE, tag |-> r, start |-> s, pos |-> 0,
                      len |-> n, heard |-> 0, id |-> plays]
                ELSE voice[v]]
  /\ game' = NotPlaying
  /\ lost' = IF FirstOff = NoVoice THEN lost \cup {plays} ELSE lost
  /\ UNCHANGED <<mix, queue, tick, plays>>

-----------------------------------------------------------------------------
(* The tick, first half: audio_mix_sfx.                                     *)

\* Mutant: a restart in the same buffer goes unnoticed.
RestartedByAddress(v) == ~mix[v].act \/ mix[v].start # voice[v].start

\* A voice was started, or started again, since the mixer last saw it.
Restarted(v) ==
  \/ ~mix[v].act
  \/ mix[v].start # voice[v].start
  \/ voice[v].pos < mix[v].cur

Seen(v) == IF Restarted(v)
           THEN [act |-> TRUE, start |-> voice[v].start, cur |-> 0,
                 ended |-> FALSE, gen |-> mix[v].gen + 1]
           ELSE mix[v]

Mixes(v) == voice[v].on /\ ~Seen(v).ended
Cursor(v) == IF Seen(v).cur < voice[v].len THEN Seen(v).cur + 1 ELSE Seen(v).cur

\* Voices that reach their end, and those of them the queue has room for.
Ending == {v \in Voice : Mixes(v) /\ Cursor(v) = voice[v].len}
Queued == {v \in Ending :
             Len(queue) + Cardinality({u \in Ending : u <= v}) <= QueueCap}

\* The callback's own test: this record's sound is to be played again.
Again(r) == rec[r].live /\ rec[r].loop /\ rec[r].loud

Entry(v) == [voice |-> v, gen |-> Seen(v).gen, start |-> voice[v].start,
             tag |-> voice[v].tag, frees |-> ~Again(voice[v].tag),
             id |-> voice[v].id]

\* The mixer looks at the voices in order, and so queues their callbacks.
InOrder(i) == CHOOSE v \in Queued : Cardinality({u \in Queued : u <= v}) = i

Heard(v) == voice[v].heard + Cursor(v) - Seen(v).cur

MixVoices ==
  /\ tick = "idle"
  /\ mix' = [v \in Voice |->
              IF ~voice[v].on THEN [NotMixed EXCEPT !.gen = mix[v].gen]
              ELSE IF ~Mixes(v) THEN Seen(v)
              ELSE [Seen(v) EXCEPT !.cur = Cursor(v), !.ended = v \in Queued,
                                   !.act = v \notin Ending \ Queued]]
  /\ voice' = [v \in Voice |->
                IF ~Mixes(v) THEN voice[v]
                ELSE IF v \in Ending \ Queued THEN Off
                ELSE [voice[v] EXCEPT !.pos = Cursor(v), !.heard = Heard(v)]]
  /\ queue' = queue \o [i \in 1..Cardinality(Queued) |-> Entry(InOrder(i))]
  /\ tick' = "deliver"
  /\ lost' = lost \cup {voice[v].id : v \in Ending \ Queued}
  /\ UNCHANGED <<rec, desc, game, plays>>

\* Enough is buffered: the tick does not mix, but it delivers.
Cushioned ==
  /\ tick = "idle" /\ tick' = "deliver"
  /\ UNCHANGED <<rec, desc, voice, mix, queue, game, plays, lost>>

-----------------------------------------------------------------------------
(* The tick, second half: audio_if_deliver_cbs.                             *)

\* Mutant: the record the voice plays for is not compared.
StaleByAddress(e) == \/ ~voice[e.voice].on
                     \/ mix[e.voice].gen # e.gen
                     \/ voice[e.voice].start # e.start

\* The voice is off or was started again: the callback has lost its sound.
Stale(e) == \/ ~voice[e.voice].on
            \/ mix[e.voice].gen # e.gen
            \/ voice[e.voice].start # e.start
            \/ voice[e.voice].tag # e.tag

\* The sound that has the record now, if it is not the one that ended.
Foreign(e) == {rec[r].id : r \in {e.tag} \cap {q \in Record : rec[q].live}}
                \ {e.id}

\* The sound that has the voice now, if it has ended and waits for a callback of
\* its own: it is taken for one that still plays, ends again and gets a second.
Unended(e) ==
  {voice[v].id : v \in {e.voice} \cap {u \in Voice : voice[u].on /\ mix[u].ended}}

\* Its record is freed all the same, and the next entry is tried.
DropStale ==
  /\ tick = "deliver" /\ queue # <<>> /\ Stale(Head(queue))
  /\ rec' = IF Head(queue).frees THEN Dropped({Head(queue).tag}) ELSE rec
  /\ mix' = [mix EXCEPT ![Head(queue).voice].ended = FALSE]
  /\ queue' = Tail(queue)
  /\ lost' = lost \cup Unended(Head(queue))
                  \cup IF Head(queue).frees THEN Foreign(Head(queue)) ELSE {}
  /\ UNCHANGED <<desc, voice, game, tick, plays>>

\* Mutant: the voice goes on waiting for the callback that it has had.
StillEnded(m, first) == [m EXCEPT !.cur = IF first THEN 0 ELSE @,
                                  !.act = first /\ @]

\* What the mixer makes of a callback: a voice at its first sample goes on.
Resolved(m, first) == [m EXCEPT !.ended = FALSE,
                                !.cur = IF first THEN 0 ELSE @,
                                !.act = first /\ @]

\* sos_user_callback_trampoline: a loop is loaded again from its record, any
\* other record is freed.
Deliver ==
  LET e == Head(queue)
      v == e.voice
      r == voice[v].tag
      again == Again(r) /\ desc[rec[r].slot].sample # NoSample
      now == IF again
             THEN [voice[v] EXCEPT !.start = rec[r].slot, !.pos = 0,
                     !.len = rec[r].len, !.heard = 0, !.id = rec[r].id]
             ELSE voice[v]
  IN
  /\ tick = "deliver" /\ queue # <<>> /\ ~Stale(e)
  /\ rec' = IF Again(r) THEN rec ELSE Dropped({r})
  /\ voice' = [voice EXCEPT ![v] = IF now.pos = 0 THEN now ELSE Off]
  /\ mix' = [mix EXCEPT ![v] = Resolved(@, now.pos = 0)]
  /\ queue' = Tail(queue)
  /\ tick' = "idle"
  /\ lost' = lost \cup Foreign(e)
  /\ UNCHANGED <<desc, game, plays>>

DeliverNone ==
  /\ tick = "deliver" /\ queue = <<>> /\ tick' = "idle"
  /\ UNCHANGED <<rec, desc, voice, mix, queue, game, plays, lost>>

Delivery == DropStale \/ Deliver \/ DeliverNone

-----------------------------------------------------------------------------

Next ==
  \/ \E x \in Samples : Claim(x, FALSE)
  \/ \E x \in Looping : Claim(x, TRUE)
  \/ Resolve
  \/ \E s \in Slot : Load(s) \/ EvictUnlocked(s) \/ EvictLocked(s)
  \/ LoadFails
  \/ Start
  \/ \E r \in Record : Stop(r) \/ Fade(r)
  \/ Flush
  \/ MixVoices \/ Cushioned
  \/ Delivery

\* The timer ticks for ever, and the device drains: not every tick finds the
\* cushion full.  Nothing is assumed of the game.
Spec == Init /\ [][Next]_vars /\ WF_vars(Delivery) /\ SF_vars(MixVoices)

-----------------------------------------------------------------------------
(* Properties.                                                              *)

Starting(r) == game.pc # "idle" /\ game.rec = r

\* The tick never cuts a sound: when it turns a voice off it has mixed the
\* sound in it from its first sample to its last, whatever was stopped and
\* started in that voice since the mixer last looked.  A callback that is not
\* the sound's own may still cut it, but then the sound is one of `lost`.
SoundsAreHeardInFull ==
  [][\A v \in Voice : voice[v].on /\ ~voice'[v].on /\ tick' # tick
        => IF tick = "idle" THEN Heard(v) = voice[v].len
           ELSE voice[v].heard = voice[v].len \/ voice[v].id \in lost']_vars

\* A voice does not stay on for ever, unless its record asks again and again
\* for another round.
SoundsEnd ==
  \A v \in Voice : voice[v].on ~> (~voice[v].on \/ Again(voice[v].tag))

\* A live record and a voice that is on are two halves of one sound; only the
\* sounds in `lost` come apart.
RecordsAndVoicesPair ==
  /\ \A r \in Record : rec[r].live /\ ~Starting(r) /\ rec[r].id \notin lost
       => /\ rec[r].voice # NoVoice
          /\ voice[rec[r].voice].on /\ voice[rec[r].voice].id = rec[r].id
  /\ \A v \in Voice : voice[v].on /\ voice[v].id \notin lost
       => LET r == voice[v].tag IN
          rec[r].live /\ rec[r].id = voice[v].id /\ rec[r].voice = v

\* The buffer of a live record holds a sample of the record's length: neither
\* an eviction nor a flush frees it under a sound that the game can still
\* stop, and stopping never unlocks an empty descriptor.
LiveRecordsKeepTheirSample ==
  \A r \in Record : rec[r].live /\ ~Starting(r)
    => LET x == desc[rec[r].slot].sample IN
       x # NoSample /\ Ticks[x] = rec[r].len

=============================================================================
