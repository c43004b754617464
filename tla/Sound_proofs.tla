---------------------------- MODULE Sound_proofs ----------------------------
(***************************************************************************)
(* Proofs about Sound: records, voices and samples stay together, and no   *)
(* tick cuts a sound, for every number of records, voices, descriptors and *)
(* samples, every queue and every length.  That a record keeps its voice   *)
(* and its sample is proved for as long as a lock can count the plays.     *)
(***************************************************************************)
EXTENDS Sound, FiniteSetTheorems, WellFoundedInduction, TLAPS

-----------------------------------------------------------------------------
(* The types.                                                               *)

RecordType == [live : BOOLEAN, loop : BOOLEAN, loud : BOOLEAN, slot : Slot,
               voice : 0..Voices, len : Nat, id : Nat]
DescType   == [sample : Samples \cup {NoSample}, lock : Nat]
VoiceType  == [on : BOOLEAN, tag : Record, start : Slot, pos : Nat, len : Nat,
               heard : Nat, id : Nat]
MixType    == [act : BOOLEAN, start : Slot, cur : Nat, ended : BOOLEAN, gen : Nat]
EntryType  == [voice : Voice, gen : Nat, start : Slot, tag : Record, frees : BOOLEAN,
               id : Nat]
GameType   == [pc : {"idle", "resolve", "load", "start"}, rec : Record,
               sample : Samples \cup {NoSample}, slot : Slot]

RecordTypes == rec \in [Record -> RecordType] /\ desc \in [Slot -> DescType]
VoiceTypes  == voice \in [Voice -> VoiceType] /\ mix \in [Voice -> MixType]
CallTypes   == /\ queue \in Seq(EntryType) /\ game \in GameType
               /\ tick \in {"idle", "deliver"} /\ plays \in 0..MaxPlays /\ lost \subseteq Nat

TypeOK == RecordTypes /\ VoiceTypes /\ CallTypes

-----------------------------------------------------------------------------
(* The inductive invariant.                                                 *)

\* The sound in voice v has not been mixed since it began; should the mixer
\* not notice its beginning, it does no harm.
Fresh(v) == /\ voice[v].pos = 0
            /\ mix[v].act /\ mix[v].start = voice[v].start /\ mix[v].cur = 0 => ~mix[v].ended

\* The mixer's cursor is on the sound in voice v.
Tracked(v) == /\ mix[v].act /\ mix[v].start = voice[v].start
              /\ mix[v].cur = voice[v].pos /\ voice[v].pos <= voice[v].len
              /\ mix[v].ended => voice[v].pos = voice[v].len

\* (A record that was started has a length.)
CursorsAgree ==
  /\ \A r \in Record : rec[r].loud \/ (rec[r].live /\ ~Starting(r)) => rec[r].len > 0
  /\ \A v \in Voice : mix[v].ended => mix[v].act /\ mix[v].cur > 0
  /\ \A v \in Voice : voice[v].on =>
       /\ voice[v].len > 0 /\ voice[v].heard = voice[v].pos
       /\ Fresh(v) \/ Tracked(v)

\* An id is that of a sound which was played, and names one live record.
SoundsAreCounted ==
  /\ \A r \in Record : rec[r].live => rec[r].id \in 1..plays
  /\ \A r, q \in Record : rec[r].live /\ rec[q].live /\ rec[r].id = rec[q].id => r = q
  /\ \A v \in Voice : voice[v].on => voice[v].id \in 1..plays
  /\ \A i \in DOMAIN queue : queue[i].id \in 1..plays
  /\ lost \subseteq 1..plays

\* The sound that is being started has its record, and no voice yet.
StartIsAhead ==
  game.pc # "idle" =>
    /\ plays > 0 /\ game.sample \in Samples
    /\ game.pc = "start" => desc[game.slot].sample = game.sample
    /\ rec[game.rec].live => rec[game.rec].id = plays
    /\ plays \notin lost =>
         /\ rec[game.rec].live
         /\ \A v \in Voice : voice[v].on => voice[v].id # plays
         /\ \A i \in DOMAIN queue : queue[i].id # plays

\* The voice of callback e holds the sound that e announces the end of.
Ended(e) ==
  LET v == e.voice IN
  /\ mix[v].ended /\ mix[v].act /\ mix[v].start = voice[v].start
  /\ mix[v].cur = voice[v].pos /\ voice[v].pos = voice[v].len
  /\ mix[v].gen = e.gen /\ voice[v].start = e.start /\ voice[v].tag = e.tag

\* A callback that its sound waits for is the only one of that sound.
CallbacksWait ==
  /\ \A i \in DOMAIN queue, v \in Voice :
       voice[v].on /\ voice[v].id = queue[i].id /\ queue[i].id \notin lost =>
         v = queue[i].voice /\ Ended(queue[i])
  /\ \A i, j \in DOMAIN queue : queue[i].id = queue[j].id /\ queue[i].id \notin lost => i = j

\* A descriptor is locked at least once for each live record that names it.
Users(s) == {r \in Record : rec[r].live /\ ~Starting(r) /\ rec[r].slot = s}
Begun == IF game.pc = "idle" THEN plays ELSE plays - 1
LocksSuffice ==
  MaxPlays < LockMod => \A s \in Slot :
    /\ Cardinality(Users(s)) <= desc[s].lock /\ desc[s].lock <= Begun
    /\ \A r \in Users(s) : desc[s].sample \in Samples /\ Ticks[desc[s].sample] = rec[r].len

\* A record whose sound waits for a callback has the voice of that callback.
CallbacksFindTheirVoice ==
  \A i \in DOMAIN queue, r \in Record :
    rec[r].live /\ rec[r].id = queue[i].id /\ queue[i].id \notin lost =>
      LET v == queue[i].voice IN
      rec[r].voice = v /\ voice[v].on /\ voice[v].id = queue[i].id

\* A voice that is on has its record; a live record has its voice as long as no
\* lock overflows, and in any case while a callback waits.
HalvesMatch ==
  /\ \A v \in Voice : voice[v].on /\ voice[v].id \notin lost
       => LET r == voice[v].tag IN
          rec[r].live /\ rec[r].id = voice[v].id /\ rec[r].voice = v
  /\ CallbacksFindTheirVoice
  /\ MaxPlays < LockMod => RecordsAndVoicesPair

SoundInv == /\ TypeOK /\ CursorsAgree /\ SoundsAreCounted /\ StartIsAhead
            /\ CallbacksWait /\ LocksSuffice /\ HalvesMatch

-----------------------------------------------------------------------------
(* Fields.                                                                  *)

(* The numbers of the constants.                                            *)
LEMMA ConstantsAreNumbers ==
  /\ Records \in Nat \ {0} /\ Voices \in Nat \ {0} /\ Slots \in Nat \ {0}
  /\ QueueCap \in Nat \ {0} /\ LockMod \in Nat \ {0} /\ MaxPlays \in Nat \ {0}
  /\ 0 \in Record /\ 0 \in Slot /\ 0 \in Voice /\ NoVoice \notin Voice
  /\ Voice \subseteq 0..Voices /\ NoVoice \in 0..Voices
<1>1. /\ Records \in Nat \ {0} /\ Voices \in Nat \ {0} /\ Slots \in Nat \ {0}
      /\ QueueCap \in Nat \ {0} /\ LockMod \in Nat \ {0} /\ MaxPlays \in Nat \ {0}
  BY SoundAssumption
<1> QED
  BY <1>1 DEF Record, Slot, Voice, NoVoice

(* The fields of a record, of a voice and of a callback.                    *)
LEMMA RecordFields ==
  ASSUME RecordTypes, NEW r \in Record
  PROVE  /\ rec[r] \in RecordType /\ rec[r].live \in BOOLEAN /\ rec[r].loop \in BOOLEAN
         /\ rec[r].loud \in BOOLEAN /\ rec[r].slot \in Slot /\ rec[r].voice \in 0..Voices
         /\ rec[r].len \in Nat /\ rec[r].id \in Nat
<1>1. rec[r] \in RecordType
  BY DEF RecordTypes
<1> QED
  BY <1>1 DEF RecordType

(* The fields of a voice and of what the mixer keeps of it.                 *)
LEMMA VoiceFields ==
  ASSUME VoiceTypes, NEW v \in Voice
  PROVE  /\ voice[v] \in VoiceType /\ voice[v].on \in BOOLEAN /\ voice[v].tag \in Record
         /\ voice[v].start \in Slot /\ voice[v].pos \in Nat /\ voice[v].len \in Nat
         /\ voice[v].heard \in Nat /\ voice[v].id \in Nat
         /\ mix[v] \in MixType /\ mix[v].act \in BOOLEAN /\ mix[v].start \in Slot
         /\ mix[v].cur \in Nat /\ mix[v].ended \in BOOLEAN /\ mix[v].gen \in Nat
<1>1. voice[v] \in VoiceType /\ mix[v] \in MixType
  BY DEF VoiceTypes
<1> QED
  BY <1>1 DEF VoiceType, MixType

(* The fields of a callback.                                                *)
LEMMA EntryFields ==
  ASSUME CallTypes, NEW i \in DOMAIN queue
  PROVE  /\ queue[i] \in EntryType /\ queue[i].voice \in Voice /\ queue[i].gen \in Nat
         /\ queue[i].start \in Slot /\ queue[i].tag \in Record
         /\ queue[i].frees \in BOOLEAN /\ queue[i].id \in Nat
<1>1. queue[i] \in EntryType
  BY DEF CallTypes
<1> QED
  BY <1>1 DEF EntryType

(* The fields of a descriptor.                                              *)
LEMMA DescFields ==
  ASSUME RecordTypes, NEW s \in Slot
  PROVE  desc[s] \in DescType /\ desc[s].sample \in Samples \cup {NoSample} /\ desc[s].lock \in Nat
<1>1. desc[s] \in DescType
  BY DEF RecordTypes
<1> QED
  BY <1>1 DEF DescType

(* The fields of a call.                                                    *)
LEMMA GameFields ==
  ASSUME CallTypes
  PROVE  /\ game.pc \in {"idle", "resolve", "load", "start"} /\ game.rec \in Record
         /\ game.sample \in Samples \cup {NoSample} /\ game.slot \in Slot
         /\ plays \in Nat /\ plays <= MaxPlays
<1>1. plays \in Nat /\ plays <= MaxPlays
  BY ConstantsAreNumbers DEF CallTypes
<1> QED
  BY <1>1 DEF CallTypes, GameType

(* Dropping records leaves their slots, voices and lengths, and the others. *)
LEMMA DroppedFields ==
  ASSUME RecordTypes, NEW R, rec' = Dropped(R)
  PROVE  /\ rec' \in [Record -> RecordType]
         /\ \A r \in Record : /\ rec'[r].slot = rec[r].slot /\ rec'[r].voice = rec[r].voice
                              /\ rec'[r].len = rec[r].len /\ rec'[r].loud = rec[r].loud
         /\ \A r \in Record : r \in R => ~rec'[r].live /\ rec'[r].id = 0
         /\ \A r \in Record : r \notin R => rec'[r] = rec[r]
<1>1. ASSUME NEW r \in Record, r \in R
      PROVE  /\ rec'[r] \in RecordType /\ rec'[r].slot = rec[r].slot
             /\ rec'[r].voice = rec[r].voice /\ rec'[r].len = rec[r].len
             /\ rec'[r].loud = rec[r].loud /\ ~rec'[r].live /\ rec'[r].id = 0
  <2>1. rec[r] \in RecordType
    BY RecordFields
  <2>2. rec'[r] = [rec[r] EXCEPT !.live = FALSE, !.loop = FALSE, !.id = 0]
    BY <1>1 DEF Dropped
  <2>3. rec'[r] = [live |-> FALSE, loop |-> FALSE, loud |-> rec[r].loud,
                   slot |-> rec[r].slot, voice |-> rec[r].voice, len |-> rec[r].len, id |-> 0]
    BY <2>1, <2>2 DEF RecordType
  <2>4. rec'[r] \in RecordType
    BY <2>3, RecordFields DEF RecordType
  <2> QED
    BY <2>3, <2>4
<1>2. ASSUME NEW r \in Record, r \notin R PROVE rec'[r] = rec[r]
  BY <1>2 DEF Dropped
<1>3. \A r \in Record : rec'[r] \in RecordType
  BY <1>1, <1>2, RecordFields
<1>4. rec' \in [Record -> RecordType]
  BY <1>3 DEF Dropped
<1> QED
  BY <1>1, <1>2, <1>4

(* Silencing voices leaves the others.                                      *)
LEMMA SilencedFields ==
  ASSUME VoiceTypes, NEW V, voice' = Silenced(V)
  PROVE  /\ voice' \in [Voice -> VoiceType]
         /\ \A v \in Voice : v \in V => ~voice'[v].on
         /\ \A v \in Voice : v \notin V => voice'[v] = voice[v]
<1>1. Off \in VoiceType
  BY ConstantsAreNumbers DEF Off, VoiceType
<1>2. \A v \in Voice : voice[v] \in VoiceType
  BY VoiceFields
<1>3. voice' \in [Voice -> VoiceType]
  BY <1>1, <1>2 DEF Silenced
<1> QED
  BY <1>3 DEF Silenced, Off

-----------------------------------------------------------------------------
(* Finite sets, and least elements.                                         *)

(* Records are finitely many, and one record more or less counts.           *)
LEMMA RecordSets ==
  ASSUME NEW S, S \subseteq Record
  PROVE  /\ IsFiniteSet(S) /\ Cardinality(S) \in Nat /\ (S # {} <=> Cardinality(S) > 0)
         /\ \A T : T \subseteq S => Cardinality(T) <= Cardinality(S)
         /\ \A r \in S : Cardinality(S \ {r}) = Cardinality(S) - 1
<1>1. IsFiniteSet(Record)
  BY ConstantsAreNumbers, FS_Interval DEF Record
<1>2. IsFiniteSet(S)
  BY <1>1, FS_Subset
<1>3. Cardinality(S) \in Nat /\ (Cardinality(S) = 0 <=> S = {})
  BY <1>2, FS_CardinalityType, FS_EmptySet
<1>4. \A T : T \subseteq S => Cardinality(T) <= Cardinality(S)
  BY <1>2, FS_Subset
<1>5. \A r \in S : Cardinality(S \ {r}) = Cardinality(S) - 1
  BY <1>2, FS_RemoveElement
<1> QED
  BY <1>2, <1>3, <1>4, <1>5

(* A non-empty set of numbers has a least one.                              *)
LEMMA LeastExists ==
  ASSUME NEW S \in SUBSET Nat, S # {}
  PROVE  \E x \in S : \A y \in 0..x - 1 : y \notin S
<1> DEFINE R == OpToRel(<, Nat)
<1>1. IsWellFoundedOn(R, Nat)
  BY NatLessThanWellFounded
<1>2. PICK x \in S : \A y \in S : ~(<<y, x>> \in R)
  BY <1>1, WFMin
<1>3. ASSUME NEW y \in 0..x - 1 PROVE y \notin S
  <2>1. y \in Nat /\ x \in Nat /\ y < x
    OBVIOUS
  <2>2. <<y, x>> \in R
    BY <2>1 DEF OpToRel
  <2> QED
    BY <1>2, <2>2
<1> QED
  BY <1>2, <1>3

(* FirstOff is a voice that is off, or no voice.                            *)
LEMMA FirstOffIsOff ==
  FirstOff = NoVoice \/ (FirstOff \in Voice /\ ~voice[FirstOff].on)
<1>1. CASE \E v \in Voice : ~voice[v].on
  <2> DEFINE S == {v \in Voice : ~voice[v].on}
  <2>1. S \in SUBSET Nat /\ S # {}
    BY <1>1 DEF Voice
  <2>2. PICK v \in S : \A y \in 0..v - 1 : y \notin S
    BY <2>1, LeastExists
  <2>3. 0..v - 1 \subseteq Voice
    BY <2>2, ConstantsAreNumbers DEF Voice
  <2>4. \E u \in Voice : ~voice[u].on /\ \A y \in 0..u - 1 : voice[y].on
    BY <2>2, <2>3
  <2> QED
    BY <1>1, <2>4 DEF FirstOff
<1>2. CASE ~\E v \in Voice : ~voice[v].on
  BY <1>2 DEF FirstOff
<1> QED
  BY <1>1, <1>2

(* If a record is free, a call claims one that is.                          *)
LEMMA FreeRecordExists ==
  ASSUME \E i \in Record : ~rec[i].live
  PROVE  LET r == CHOOSE i \in Record : ~rec[i].live /\ \A j \in 0..i - 1 : rec[j].live IN
         r \in Record /\ ~rec[r].live
<1> DEFINE S == {i \in Record : ~rec[i].live}
<1>1. S \in SUBSET Nat /\ S # {}
  BY DEF Record
<1>2. PICK i \in S : \A j \in 0..i - 1 : j \notin S
  BY <1>1, LeastExists
<1>3. 0..i - 1 \subseteq Record
  BY <1>2, ConstantsAreNumbers DEF Record
<1>4. \E k \in Record : ~rec[k].live /\ \A j \in 0..k - 1 : rec[j].live
  BY <1>2, <1>3
<1> QED
  BY <1>4

(* The queued voices in order: each of them once.                           *)
LEMMA QueuedInOrder ==
  /\ Cardinality(Queued) \in Nat
  /\ \A i \in 1..Cardinality(Queued) :
       InOrder(i) \in Queued /\ Cardinality({u \in Queued : u <= InOrder(i)}) = i
<1> DEFINE S == Queued
           Rank(v) == Cardinality({u \in S : u <= v})
           n == Cardinality(S)
           f == [v \in S |-> Rank(v)]
<1>1. S \subseteq Voice /\ S \subseteq Nat
  BY DEF Queued, Ending, Voice
<1>2. IsFiniteSet(S) /\ n \in Nat
  <2>1. IsFiniteSet(Voice)
    BY ConstantsAreNumbers, FS_Interval DEF Voice
  <2> QED
    BY <1>1, <2>1, FS_Subset, FS_CardinalityType
<1> HIDE DEF S
<1>3. ASSUME NEW v \in S
      PROVE  Rank(v) \in 1..n /\ IsFiniteSet({u \in S : u <= v})
  <2>1. IsFiniteSet({u \in S : u <= v}) /\ Rank(v) <= n
    BY <1>2, FS_Subset
  <2>2. Rank(v) \in Nat /\ (Rank(v) = 0 <=> {u \in S : u <= v} = {})
    BY <2>1, FS_CardinalityType, FS_EmptySet
  <2>3. v \in {u \in S : u <= v}
    BY <1>1
  <2> QED
    BY <1>2, <2>1, <2>2, <2>3
<1>4. ASSUME NEW v \in S, NEW w \in S, v < w
      PROVE  Rank(v) # Rank(w)
  <2> SUFFICES Rank(v) # Rank(w)
    OBVIOUS
  <2>0. \A u \in S : u \in Nat
    BY <1>1
  <2>1. {u \in S : u <= v} \subseteq {u \in S : u <= w}
    <3>1. \A u \in S : u <= v => u <= w
      BY <2>0, <1>4
    <3> QED
      BY <3>1
  <2>2. w \in {u \in S : u <= w} /\ w \notin {u \in S : u <= v}
    BY <1>1, <1>4
  <2> QED
    BY <1>3, <2>1, <2>2, FS_Subset
<1>5. f \in Injection(S, 1..n)
  <2>1. f \in [S -> 1..n]
    BY <1>3
  <2>2. ASSUME NEW v \in S, NEW w \in S, f[v] = f[w] PROVE v = w
    <3>1. Rank(v) = Rank(w)
      BY <2>2
    <3> QED
      BY <1>1, <1>4, <3>1
  <2> QED
    BY <2>1, <2>2 DEF Injection, IsInjective
<1>6. f \in Surjection(S, 1..n)
  <2>1. IsFiniteSet(1..n) /\ Cardinality(1..n) = n
    BY <1>2, FS_Interval
  <2> QED
    BY <1>5, <2>1, FS_Injection
<1>7. ASSUME NEW i \in 1..n PROVE \E v \in S : Rank(v) = i
  <2>1. PICK v \in S : f[v] = i
    BY <1>6 DEF Surjection
  <2> QED
    BY <2>1
<1>8. ASSUME NEW i \in 1..n PROVE InOrder(i) \in S /\ Rank(InOrder(i)) = i
  BY <1>7 DEF InOrder, S
<1> QED
  BY <1>2, <1>8 DEF S

-----------------------------------------------------------------------------
(* The initial states.                                                      *)

(* Nothing is played, and the invariant holds.                              *)
LEMMA InitSound ==
  ASSUME Init
  PROVE  SoundInv
<1> USE DEF Init
<1>1. \A r \in Record : ~rec[r].live /\ ~rec[r].loud
  OBVIOUS
<1>2. \A v \in Voice : ~voice[v].on /\ ~mix[v].ended
  BY DEF Off, NotMixed
<1>3. game.pc = "idle" /\ queue = <<>> /\ plays = 0 /\ lost = {}
  BY DEF NotPlaying
<1>4. TypeOK
  <2>1. [live |-> FALSE, loop |-> FALSE, loud |-> FALSE, slot |-> 0, voice |-> 0,
         len |-> 0, id |-> 0] \in RecordType
    BY ConstantsAreNumbers DEF RecordType
  <2>2. [sample |-> NoSample, lock |-> 0] \in DescType
    BY DEF DescType
  <2>3. Off \in VoiceType
    BY ConstantsAreNumbers DEF Off, VoiceType
  <2>4. NotMixed \in MixType
    BY ConstantsAreNumbers DEF NotMixed, MixType
  <2>5. NotPlaying \in GameType
    BY ConstantsAreNumbers DEF NotPlaying, GameType
  <2>6. RecordTypes
    BY <2>1, <2>2 DEF RecordTypes
  <2>7. VoiceTypes
    BY <2>3, <2>4 DEF VoiceTypes
  <2>8. CallTypes
    BY <2>5, ConstantsAreNumbers DEF CallTypes
  <2> QED
    BY <2>6, <2>7, <2>8 DEF TypeOK
<1>5. CursorsAgree
  BY <1>1, <1>2 DEF CursorsAgree
<1>6. SoundsAreCounted
  BY <1>1, <1>2, <1>3 DEF SoundsAreCounted
<1>7. StartIsAhead
  BY <1>3 DEF StartIsAhead
<1>8. CallbacksWait
  BY <1>2, <1>3 DEF CallbacksWait
<1>9. LocksSuffice
  <2> SUFFICES ASSUME NEW s \in Slot
               PROVE  /\ Cardinality(Users(s)) <= desc[s].lock /\ desc[s].lock <= Begun
                      /\ Users(s) = {}
    BY DEF LocksSuffice
  <2>1. Users(s) = {}
    BY <1>1 DEF Users
  <2>2. desc[s].lock = 0 /\ Begun = 0
    BY <1>3 DEF Begun
  <2> QED
    BY <2>1, <2>2, FS_EmptySet
<1>10. HalvesMatch
  BY <1>1, <1>2 DEF HalvesMatch, RecordsAndVoicesPair, CallbacksFindTheirVoice
<1> QED
  BY <1>4, <1>5, <1>6, <1>7, <1>8, <1>9, <1>10 DEF SoundInv

-----------------------------------------------------------------------------
(* Stopping.                                                                *)

(* What stopping the records Q leaves: all but the descriptors and locks.   *)
StoppedAndPaired(Q) ==
  /\ rec' \in [Record -> RecordType] /\ VoiceTypes' /\ CallTypes'
  /\ CursorsAgree' /\ SoundsAreCounted' /\ StartIsAhead' /\ CallbacksWait'
  /\ HalvesMatch'
  /\ Begun <= Begun' /\ Begun \in Nat /\ Begun' \in Nat
  /\ \A s \in Slot : Users(s)' \subseteq Users(s) \ Q
  /\ \A r \in Record : rec'[r].slot = rec[r].slot /\ rec'[r].len = rec[r].len

(* Stop the live records Q, and with them perhaps the call that is loading: *)
(* everything but the descriptors and the locks is as it should be.         *)
LEMMA StoppingKeepsPairs ==
  ASSUME SoundInv,
         NEW Q \in SUBSET Record, \A q \in Q : rec[q].live,
         NEW R, R \subseteq Record, Q \subseteq R,
         voice' = Silenced(VoicesOf(Q)), rec' = Dropped(R), lost' = lost \cup Hit(Q),
         \/ game' = game /\ R = Q /\ game.pc \in {"idle", "load"}
         \/ game' = NotPlaying /\ R = Q \cup {game.rec} /\ game.pc = "load",
         UNCHANGED <<mix, queue, tick, plays>>
  PROVE  StoppedAndPaired(Q)
<1> DEFINE x(r) == rec[r].id
<1>0. RecordTypes /\ VoiceTypes /\ CallTypes
  BY DEF SoundInv, TypeOK
<1>1. /\ rec' \in [Record -> RecordType]
      /\ \A r \in Record : /\ rec'[r].slot = rec[r].slot /\ rec'[r].voice = rec[r].voice
                           /\ rec'[r].len = rec[r].len /\ rec'[r].loud = rec[r].loud
      /\ \A r \in Record : r \in R => ~rec'[r].live /\ rec'[r].id = 0
      /\ \A r \in Record : r \notin R => rec'[r] = rec[r]
  BY <1>0, DroppedFields
<1>2. /\ voice' \in [Voice -> VoiceType]
      /\ \A v \in Voice : v \in VoicesOf(Q) => ~voice'[v].on
      /\ \A v \in Voice : v \notin VoicesOf(Q) => voice'[v] = voice[v]
  BY <1>0, SilencedFields
<1>3. game.pc \in {"idle", "resolve", "load", "start"} /\ game.rec \in Record /\ plays \in Nat
  BY <1>0, GameFields
<1>4. game'.pc = "idle" \/ game' = game
  BY DEF NotPlaying
<1>5. ASSUME NEW q \in Q, game.pc # "idle", game.rec = q PROVE rec[q].id \in lost'
  BY <1>5 DEF Hit
<1>6. ASSUME NEW q \in Q, rec[q].voice \in Voice, voice[rec[q].voice].on,
             voice[rec[q].voice].id # rec[q].id
      PROVE  voice[rec[q].voice].id \in lost'
  <2>1. rec[q].voice # NoVoice
    BY <1>6, ConstantsAreNumbers
  <2> QED
    BY <1>6, <2>1 DEF Hit
<1>7. lost \subseteq lost'
  OBVIOUS
<1>8. lost' \subseteq 1..plays
  <2>1. ASSUME NEW q \in Q PROVE rec[q].id \in 1..plays
    BY DEF SoundInv, SoundsAreCounted
  <2>2. ASSUME NEW q \in Q, rec[q].voice # NoVoice, voice[rec[q].voice].on
        PROVE  voice[rec[q].voice].id \in 1..plays
    <3>1. rec[q].voice \in Voice
      BY <1>0, <2>2, RecordFields, ConstantsAreNumbers DEF Voice, NoVoice
    <3> QED
      BY <2>2, <3>1 DEF SoundInv, SoundsAreCounted
  <2>3. Hit(Q) \subseteq 1..plays
    BY <2>1, <2>2 DEF Hit
  <2> QED
    BY <2>3 DEF SoundInv, SoundsAreCounted
<1>9. VoiceTypes' /\ CallTypes'
  <2>1. game' \in GameType
    BY <1>0, ConstantsAreNumbers DEF CallTypes, NotPlaying, GameType
  <2>2. lost' \subseteq Nat
    BY <1>8, <1>3
  <2> QED
    BY <1>0, <1>2, <2>1, <2>2 DEF VoiceTypes, CallTypes
<1>10. CursorsAgree'
  <2>1. ASSUME NEW r \in Record, rec'[r].loud \/ (rec'[r].live /\ ~Starting(r)')
        PROVE  rec'[r].len > 0
    <3>1. rec[r].loud \/ (rec[r].live /\ ~Starting(r))
      BY <2>1, <1>1, <1>4 DEF Starting
    <3> QED
      BY <3>1, <1>1 DEF SoundInv, CursorsAgree
  <2>2. ASSUME NEW v \in Voice, mix'[v].ended PROVE mix'[v].act /\ mix'[v].cur > 0
    BY <2>2 DEF SoundInv, CursorsAgree
  <2>3. ASSUME NEW v \in Voice, voice'[v].on
        PROVE  voice'[v].len > 0 /\ voice'[v].heard = voice'[v].pos /\ (Fresh(v)' \/ Tracked(v)')
    <3>1. voice'[v] = voice[v] /\ mix'[v] = mix[v]
      BY <2>3, <1>2
    <3>2. voice[v].len > 0 /\ voice[v].heard = voice[v].pos /\ (Fresh(v) \/ Tracked(v))
      BY <2>3, <3>1 DEF SoundInv, CursorsAgree
    <3> QED
      BY <3>1, <3>2 DEF Fresh, Tracked
  <2> QED
    BY <2>1, <2>2, <2>3 DEF CursorsAgree
<1>11. SoundsAreCounted'
  <2>1. ASSUME NEW r \in Record, rec'[r].live PROVE rec'[r] = rec[r]
    BY <2>1, <1>1
  <2>2. ASSUME NEW v \in Voice, voice'[v].on PROVE voice'[v] = voice[v]
    BY <2>2, <1>2
  <2> QED
    BY <1>8, <2>1, <2>2 DEF SoundInv, SoundsAreCounted
<1>12. StartIsAhead'
  <2> SUFFICES ASSUME game'.pc # "idle" PROVE StartIsAhead'
    BY DEF StartIsAhead
  <2>1. game' = game /\ R = Q /\ game.pc = "load"
    BY DEF NotPlaying
  <2>2. plays > 0 /\ game.sample \in Samples /\ (rec[game.rec].live => rec[game.rec].id = plays)
    BY <2>1 DEF SoundInv, StartIsAhead
  <2>3. rec'[game.rec].live => rec'[game.rec].id = plays
    BY <2>2, <1>1, <1>3
  <2>4. ASSUME plays \notin lost'
        PROVE  /\ rec'[game.rec].live
               /\ \A v \in Voice : voice'[v].on => voice'[v].id # plays
               /\ \A i \in DOMAIN queue : queue[i].id # plays
    <3>1. /\ rec[game.rec].live /\ rec[game.rec].id = plays
          /\ \A v \in Voice : voice[v].on => voice[v].id # plays
          /\ \A i \in DOMAIN queue : queue[i].id # plays
      BY <2>1, <2>2, <2>4, <1>7 DEF SoundInv, StartIsAhead
    <3>2. game.rec \notin R
      BY <2>1, <2>4, <3>1, <1>5
    <3> QED
      BY <3>1, <3>2, <1>1, <1>2, <1>3
  <2> QED
    BY <2>1, <2>2, <2>3, <2>4 DEF StartIsAhead
<1>13. CallbacksWait'
  <2>1. ASSUME NEW i \in DOMAIN queue, NEW v \in Voice,
               voice'[v].on, voice'[v].id = queue[i].id, queue[i].id \notin lost'
        PROVE  v = queue[i].voice /\ Ended(queue[i])'
    <3>1. voice'[v] = voice[v] /\ mix'[v] = mix[v] /\ queue' = queue
      BY <2>1, <1>2
    <3>2. v = queue[i].voice /\ Ended(queue[i])
      BY <2>1, <3>1, <1>7 DEF SoundInv, CallbacksWait
    <3>3. /\ voice'[queue[i].voice] = voice[queue[i].voice]
          /\ mix'[queue[i].voice] = mix[queue[i].voice]
      BY <3>1, <3>2
    <3> QED
      BY <3>1, <3>2, <3>3 DEF Ended
  <2>2. \A i, j \in DOMAIN queue : queue[i].id = queue[j].id /\ queue[i].id \notin lost' => i = j
    BY <1>7 DEF SoundInv, CallbacksWait
  <2> QED
    BY <2>1, <2>2 DEF CallbacksWait
<1>14. ASSUME NEW r \in Record, rec'[r].live, ~Starting(r)'
       PROVE  rec'[r] = rec[r] /\ ~Starting(r) /\ r \notin R
  <2>1. r \notin R /\ rec'[r] = rec[r]
    BY <1>14, <1>1
  <2>2. ~Starting(r)
    BY <1>14, <2>1 DEF Starting
  <2> QED
    BY <2>1, <2>2
<1>15. HalvesMatch'
  <2>1. ASSUME MaxPlays < LockMod,
               NEW r \in Record, rec'[r].live, ~Starting(r)', rec'[r].id \notin lost'
        PROVE  /\ rec'[r].voice # NoVoice
               /\ voice'[rec'[r].voice].on /\ voice'[rec'[r].voice].id = rec'[r].id
    <3>1. rec'[r] = rec[r] /\ ~Starting(r) /\ r \notin R
      BY <2>1, <1>14
    <3>2. rec[r].voice # NoVoice /\ voice[rec[r].voice].on /\ voice[rec[r].voice].id = rec[r].id
      BY <2>1, <3>1, <1>7 DEF SoundInv, HalvesMatch, RecordsAndVoicesPair
    <3>3. rec[r].voice \in Voice
      BY <1>0, <3>2, RecordFields, ConstantsAreNumbers DEF Voice, NoVoice
    <3>4. rec[r].voice \notin VoicesOf(Q)
      <4> SUFFICES ASSUME NEW q \in Q, rec[q].voice = rec[r].voice PROVE FALSE
        BY DEF VoicesOf
      <4>1. rec[q].id = rec[r].id
        BY <2>1, <3>1, <3>2, <3>3, <1>6
      <4>2. q = r
        BY <2>1, <3>1, <4>1 DEF SoundInv, SoundsAreCounted
      <4> QED
        BY <3>1, <4>2
    <3> QED
      BY <3>1, <3>2, <3>3, <3>4, <1>2
  <2>2. ASSUME NEW v \in Voice, voice'[v].on, voice'[v].id \notin lost'
        PROVE  LET r == voice'[v].tag IN
               rec'[r].live /\ rec'[r].id = voice'[v].id /\ rec'[r].voice = v
    <3>1. voice'[v] = voice[v] /\ v \notin VoicesOf(Q)
      BY <2>2, <1>2
    <3>2. PICK r \in Record : r = voice[v].tag
      BY <1>0, VoiceFields
    <3>3. rec[r].live /\ rec[r].id = voice[v].id /\ rec[r].voice = v
      BY <2>2, <3>1, <3>2, <1>7 DEF SoundInv, HalvesMatch, RecordsAndVoicesPair
    <3>4. r \notin Q
      BY <3>1, <3>3 DEF VoicesOf
    <3>5. r \notin R
      <4>1. ASSUME game.pc = "load", r = game.rec PROVE FALSE
        <5>1. rec[game.rec].id = plays /\ plays \notin lost
          BY <4>1, <2>2, <3>1, <3>3, <1>7 DEF SoundInv, StartIsAhead
        <5> QED
          BY <4>1, <5>1, <2>2, <3>1, <3>3 DEF SoundInv, StartIsAhead
      <4> QED
        BY <3>4, <4>1
    <3> QED
      BY <3>1, <3>2, <3>3, <3>5, <1>1
  <2>3. CallbacksFindTheirVoice'
    <3> SUFFICES ASSUME NEW i \in DOMAIN queue', NEW q \in Record, rec'[q].live,
                        rec'[q].id = queue'[i].id, queue'[i].id \notin lost'
                 PROVE  LET u == queue'[i].voice IN
                        rec'[q].voice = u /\ voice'[u].on /\ voice'[u].id = queue'[i].id
      BY DEF CallbacksFindTheirVoice
    <3>1. queue' = queue /\ queue[i].id \notin lost
      BY <1>7
    <3>2. PICK w \in Voice : w = queue[i].voice
      BY <1>0, <3>1, EntryFields
    <3>3. rec'[q] = rec[q] /\ q \notin R
      BY <1>1
    <3>4. rec[q].voice = w /\ voice[w].on /\ voice[w].id = queue[i].id
      BY <3>1, <3>2, <3>3 DEF SoundInv, HalvesMatch, CallbacksFindTheirVoice
    <3>5. w \notin VoicesOf(Q)
      <4> SUFFICES ASSUME NEW p \in Q, rec[p].voice = w PROVE FALSE
        BY DEF VoicesOf
      <4>1. rec[p].id = rec[q].id
        BY <3>1, <3>3, <3>4, <1>6
      <4>2. p = q
        BY <3>3, <4>1 DEF SoundInv, SoundsAreCounted
      <4> QED
        BY <3>3, <4>2
    <3> QED
      BY <3>1, <3>2, <3>3, <3>4, <3>5, <1>2
  <2> QED
    BY <2>1, <2>2, <2>3 DEF HalvesMatch, RecordsAndVoicesPair
<1>16. Begun <= Begun' /\ Begun \in Nat /\ Begun' \in Nat
  <2>1. game.pc # "idle" => plays > 0
    BY DEF SoundInv, StartIsAhead
  <2> QED
    BY <2>1, <1>3, <1>4 DEF Begun
<1>17. ASSUME NEW s \in Slot PROVE Users(s)' \subseteq Users(s) \ Q
  BY <1>14, <1>1 DEF Users
<1>18. \A r \in Record : rec'[r].slot = rec[r].slot /\ rec'[r].len = rec[r].len
  BY <1>1
<1> QED
  BY <1>1, <1>9, <1>10, <1>11, <1>12, <1>13, <1>15, <1>16, <1>17, <1>18 DEF StoppedAndPaired

(* A descriptor keeps enough locks when it loses k of its k users, or more  *)
(* locks than users only when it has none left.                             *)
LEMMA UnlockedSuffices ==
  ASSUME NEW n \in Nat, NEW k \in Nat
  PROVE  Unlocked(n, k) \in Nat /\ Unlocked(n, k) <= n
         /\ \A m \in Nat : m + k <= n => m <= Unlocked(n, k)
  BY DEF Unlocked

(* The locks after a step that empties no descriptor in use and takes no    *)
(* lock without its user.                                                   *)
LEMMA LocksKept ==
  ASSUME SoundInv,
         rec' \in [Record -> RecordType], desc' \in [Slot -> DescType],
         \A s \in Slot : Users(s)' \subseteq Users(s),
         \A r \in Record : rec'[r].slot = rec[r].slot /\ rec'[r].len = rec[r].len,
         Begun <= Begun', Begun \in Nat, Begun' \in Nat,
         MaxPlays < LockMod =>
           \A s \in Slot : /\ desc'[s].lock <= desc[s].lock
                           /\ Users(s)' # {} => desc'[s].sample = desc[s].sample
                           /\ Cardinality(Users(s)') <= desc'[s].lock
  PROVE  LocksSuffice'
<1> SUFFICES ASSUME MaxPlays < LockMod, NEW s \in Slot
             PROVE  /\ Cardinality(Users(s)') <= desc'[s].lock /\ desc'[s].lock <= Begun'
                    /\ \A r \in Users(s)' : /\ desc'[s].sample \in Samples
                                            /\ Ticks[desc'[s].sample] = rec'[r].len
  BY DEF LocksSuffice
<1>1. desc[s].lock \in Nat /\ desc[s].lock <= Begun
  BY DescFields DEF SoundInv, TypeOK, LocksSuffice
<1>2. desc'[s].lock \in Nat
  BY DEF DescType
<1>3. desc'[s].lock <= Begun'
  BY <1>1, <1>2
<1>4. ASSUME NEW r \in Users(s)'
      PROVE  desc'[s].sample \in Samples /\ Ticks[desc'[s].sample] = rec'[r].len
  <2>1. r \in Record /\ r \in Users(s) /\ desc'[s].sample = desc[s].sample
    BY <1>4 DEF Users
  <2> QED
    BY <2>1 DEF SoundInv, LocksSuffice
<1> QED
  BY <1>3, <1>4

(* Stopping a record takes one lock from its descriptor and keeps the rest. *)
LEMMA StopKeeps ==
  ASSUME SoundInv, NEW r \in Record, Stop(r)
  PROVE  SoundInv'
<1> USE DEF Stop
<1>0. RecordTypes /\ VoiceTypes /\ CallTypes
  BY DEF SoundInv, TypeOK
<1>1. VoicesOf({r}) = {rec[r].voice}
  BY DEF VoicesOf
<1>2. /\ rec' \in [Record -> RecordType] /\ VoiceTypes' /\ CallTypes'
      /\ CursorsAgree' /\ SoundsAreCounted' /\ StartIsAhead' /\ CallbacksWait'
      /\ HalvesMatch'
      /\ Begun <= Begun' /\ Begun \in Nat /\ Begun' \in Nat
      /\ \A s \in Slot : Users(s)' \subseteq Users(s) \ {r}
      /\ \A q \in Record : rec'[q].slot = rec[q].slot /\ rec'[q].len = rec[q].len
  <2>1. StoppedAndPaired({r})
    BY <1>1, StoppingKeepsPairs
  <2> QED
    BY <2>1 DEF StoppedAndPaired
<1>3. rec[r].slot \in Slot
  BY <1>0, RecordFields
<1>4. ASSUME NEW s \in Slot
      PROVE  /\ desc'[s] \in DescType /\ desc'[s].lock <= desc[s].lock
             /\ desc'[s].sample = desc[s].sample
             /\ MaxPlays < LockMod => Cardinality(Users(s)') <= desc'[s].lock
  <2>0. desc[s] \in DescType /\ desc[s].lock \in Nat
    BY <1>0, DescFields
  <2>1. Users(s) \subseteq Record /\ Users(s)' \subseteq Record
    BY DEF Users
  <2>2. MaxPlays < LockMod => Cardinality(Users(s)) <= desc[s].lock
    BY DEF SoundInv, LocksSuffice
  <2>3. CASE s = rec[r].slot
    <3>1. r \in Users(s)
      BY <2>3 DEF Users, Starting
    <3>2. Cardinality(Users(s) \ {r}) = Cardinality(Users(s)) - 1 /\ Cardinality(Users(s)) \in Nat
      BY <2>1, <3>1, RecordSets
    <3>3. Cardinality(Users(s)') <= Cardinality(Users(s) \ {r}) /\ Cardinality(Users(s)') \in Nat
      <4>1. Users(s) \ {r} \subseteq Record
        BY <2>1
      <4> QED
        BY <1>2, <2>1, <4>1, RecordSets
    <3>4. desc'[s] = [desc[s] EXCEPT !.lock = Unlocked(desc[s].lock, 1)]
      BY <1>0, <2>3 DEF RecordTypes
    <3>5. desc'[s] = [sample |-> desc[s].sample, lock |-> Unlocked(desc[s].lock, 1)]
      BY <3>4, <2>0 DEF DescType
    <3>6. /\ Unlocked(desc[s].lock, 1) \in Nat /\ Unlocked(desc[s].lock, 1) <= desc[s].lock
          /\ MaxPlays < LockMod => Cardinality(Users(s)') <= Unlocked(desc[s].lock, 1)
      BY <2>0, <2>2, <3>2, <3>3 DEF Unlocked
    <3>7. desc'[s] \in DescType
      BY <1>0, <3>5, <3>6, DescFields DEF DescType
    <3> QED
      BY <3>5, <3>6, <3>7
  <2>4. CASE s # rec[r].slot
    <3>1. desc'[s] = desc[s]
      BY <1>0, <2>4 DEF RecordTypes
    <3>2. Cardinality(Users(s)') <= Cardinality(Users(s)) /\ Cardinality(Users(s)) \in Nat
          /\ Cardinality(Users(s)') \in Nat
      BY <1>2, <2>1, RecordSets
    <3>3. /\ MaxPlays < LockMod => Cardinality(Users(s)') <= desc[s].lock
          /\ desc[s].lock <= desc[s].lock
      BY <2>0, <2>2, <3>2
    <3> QED
      BY <2>0, <3>1, <3>3
  <2> QED
    BY <2>3, <2>4
<1>5. desc' \in [Slot -> DescType]
  BY <1>0, <1>4 DEF RecordTypes
<1>6. LocksSuffice'
  BY <1>2, <1>4, <1>5, LocksKept
<1> QED
  BY <1>2, <1>5, <1>6 DEF SoundInv, TypeOK, RecordTypes

(* Nothing is left playing when every descriptor is emptied.                *)
LEMMA FlushKeeps ==
  ASSUME SoundInv, Flush
  PROVE  SoundInv'
<1>0. RecordTypes /\ VoiceTypes /\ CallTypes
  BY DEF SoundInv, TypeOK
<1> DEFINE U == UNION {On(s) : s \in {x \in Slot : desc[x].sample # NoSample /\ desc[x].lock # 0}}
<1>1. PICK Q : Q = U
  OBVIOUS
<1>2. Q \subseteq Record /\ \A q \in Q : rec[q].live
  BY <1>1 DEF On
<1>3. voice' = Silenced(VoicesOf(Q)) /\ rec' = Dropped(Q) /\ lost' = lost \cup Hit(Q)
  BY <1>1 DEF Flush
<1>4. game' = game /\ game.pc = "idle" /\ UNCHANGED <<mix, queue, tick, plays>>
      /\ desc' = [s \in Slot |-> [sample |-> NoSample, lock |-> 0]]
  BY DEF Flush
<1>5. /\ rec' \in [Record -> RecordType] /\ VoiceTypes' /\ CallTypes'
      /\ CursorsAgree' /\ SoundsAreCounted' /\ StartIsAhead' /\ CallbacksWait'
      /\ HalvesMatch'
      /\ Begun <= Begun' /\ Begun \in Nat /\ Begun' \in Nat
      /\ \A s \in Slot : Users(s)' \subseteq Users(s) \ Q
      /\ \A q \in Record : rec'[q].slot = rec[q].slot /\ rec'[q].len = rec[q].len
  <2>1. StoppedAndPaired(Q)
    BY <1>2, <1>3, <1>4, StoppingKeepsPairs
  <2> QED
    BY <2>1 DEF StoppedAndPaired
<1>6. desc' \in [Slot -> DescType] /\ \A s \in Slot : desc'[s].lock = 0
  <2>1. [sample |-> NoSample, lock |-> 0] \in DescType
    BY DEF DescType
  <2> QED
    BY <2>1, <1>4
<1>7. ASSUME MaxPlays < LockMod, NEW s \in Slot PROVE Users(s) \subseteq Q
  <2> SUFFICES ASSUME NEW r \in Users(s) PROVE r \in Q
    OBVIOUS
  <2>1. r \in Record /\ r \in On(s)
    BY DEF Users, On
  <2>2. desc[s].sample \in Samples /\ Cardinality(Users(s)) <= desc[s].lock
    BY <1>7 DEF SoundInv, LocksSuffice
  <2>3. Cardinality(Users(s)) > 0
    <3>1. Users(s) \subseteq Record /\ Users(s) # {}
      BY DEF Users
    <3> QED
      BY <3>1, RecordSets
  <2>4. desc[s].lock # 0 /\ desc[s].sample # NoSample
    <3>1. Cardinality(Users(s)) \in Nat
      BY RecordSets DEF Users
    <3> QED
      BY <2>2, <2>3, <3>1, SoundAssumption
  <2> QED
    BY <1>1, <2>1, <2>4
<1>8. MaxPlays < LockMod => \A s \in Slot : Users(s)' = {}
  BY <1>5, <1>7
<1>9. LocksSuffice'
  <2>1. \A s \in Slot : desc'[s].lock <= desc[s].lock /\ desc[s].lock \in Nat
    BY <1>0, <1>6, DescFields
  <2>2. ASSUME MaxPlays < LockMod, NEW s \in Slot
        PROVE  Cardinality(Users(s)') <= desc'[s].lock
    BY <1>6, <1>8, <2>2, FS_EmptySet
  <2> QED
    BY <1>5, <1>6, <1>8, <2>1, <2>2, LocksKept
<1> QED
  BY <1>5, <1>6, <1>9 DEF SoundInv, TypeOK, RecordTypes

(* A load that fails gives the record back.                                 *)
LEMMA LoadFailsKeeps ==
  ASSUME SoundInv, LoadFails
  PROVE  SoundInv'
<1>0. RecordTypes /\ VoiceTypes /\ CallTypes
  BY DEF SoundInv, TypeOK
<1>1. PICK g \in Record : g = game.rec
  BY <1>0, GameFields
<1>2. rec' = Dropped({} \cup {g}) /\ game' = NotPlaying /\ game.pc = "load"
      /\ UNCHANGED <<desc, voice, mix, queue, tick, plays, lost>>
  BY <1>1 DEF LoadFails
<1>3. voice' = Silenced(VoicesOf({}))
  <2>1. VoicesOf({}) = {}
    BY DEF VoicesOf
  <2> QED
    BY <1>0, <1>2, <2>1 DEF Silenced, VoiceTypes
<1>4. lost' = lost \cup Hit({})
  BY <1>2 DEF Hit
<1>5. /\ rec' \in [Record -> RecordType] /\ VoiceTypes' /\ CallTypes'
      /\ CursorsAgree' /\ SoundsAreCounted' /\ StartIsAhead' /\ CallbacksWait'
      /\ HalvesMatch'
      /\ Begun <= Begun' /\ Begun \in Nat /\ Begun' \in Nat
      /\ \A s \in Slot : Users(s)' \subseteq Users(s) \ {}
      /\ \A q \in Record : rec'[q].slot = rec[q].slot /\ rec'[q].len = rec[q].len
  <2>1. StoppedAndPaired({})
    BY <1>1, <1>2, <1>3, <1>4, StoppingKeepsPairs
  <2> QED
    BY <2>1 DEF StoppedAndPaired
<1>6. desc' \in [Slot -> DescType]
  BY <1>0, <1>2 DEF RecordTypes
<1>7. ASSUME NEW s \in Slot
      PROVE  /\ desc[s].lock \in Nat
             /\ MaxPlays < LockMod => Cardinality(Users(s)') <= desc[s].lock
  <2>1. Users(s) \subseteq Record /\ Users(s)' \subseteq Users(s)
    BY <1>5 DEF Users
  <2>2. Cardinality(Users(s)') <= Cardinality(Users(s)) /\ Cardinality(Users(s)) \in Nat
        /\ Cardinality(Users(s)') \in Nat
    BY <2>1, RecordSets
  <2>3. (MaxPlays < LockMod => Cardinality(Users(s)) <= desc[s].lock) /\ desc[s].lock \in Nat
    BY <1>0, DescFields DEF SoundInv, LocksSuffice
  <2> QED
    BY <2>2, <2>3
<1>8. LocksSuffice'
  <2>1. \A s \in Slot : desc'[s] = desc[s] /\ desc[s].lock <= desc[s].lock
    BY <1>2, <1>7
  <2> QED
    BY <1>5, <1>6, <1>7, <2>1, LocksKept
<1> QED
  BY <1>5, <1>6, <1>8 DEF SoundInv, TypeOK, RecordTypes

(* The second pass of an eviction: every user of the descriptor is stopped, *)
(* and the call too if that does not unlock it.                             *)
LEMMA EvictLockedKeeps ==
  ASSUME SoundInv, NEW s \in Slot, EvictLocked(s)
  PROVE  SoundInv'
<1>0. RecordTypes /\ VoiceTypes /\ CallTypes
  BY DEF SoundInv, TypeOK
<1>1. PICK g \in Record : g = game.rec
  BY <1>0, GameFields
<1>2. PICK Q : Q = On(s)
  OBVIOUS
<1>3. Q \subseteq Record /\ \A q \in Q : rec[q].live
  BY <1>2 DEF On
<1>4. PICK left : left = Unlocked(desc[s].lock, Cardinality(On(s)))
  OBVIOUS
<1>5. left \in Nat /\ left <= desc[s].lock /\ desc[s] \in DescType /\ desc[s].lock \in Nat
  <2>1. Cardinality(On(s)) \in Nat
    BY <1>2, <1>3, RecordSets
  <2> QED
    BY <1>0, <1>4, <2>1, DescFields, UnlockedSuffices
<1>6. PICK R : R = IF left = 0 THEN Q ELSE Q \cup {g}
  OBVIOUS
<1>7. /\ voice' = Silenced(VoicesOf(Q)) /\ rec' = Dropped(R) /\ lost' = lost \cup Hit(Q)
      /\ game.pc = "load" /\ UNCHANGED <<mix, queue, tick, plays>>
      /\ (game' = game /\ R = Q) \/ (game' = NotPlaying /\ R = Q \cup {game.rec})
  BY <1>1, <1>2, <1>4, <1>6 DEF EvictLocked
<1>8. R \subseteq Record /\ Q \subseteq R
  BY <1>1, <1>3, <1>6
<1>9. /\ rec' \in [Record -> RecordType] /\ VoiceTypes' /\ CallTypes'
      /\ CursorsAgree' /\ SoundsAreCounted' /\ StartIsAhead' /\ CallbacksWait'
      /\ HalvesMatch'
      /\ Begun <= Begun' /\ Begun \in Nat /\ Begun' \in Nat
      /\ \A t \in Slot : Users(t)' \subseteq Users(t) \ Q
      /\ \A q \in Record : rec'[q].slot = rec[q].slot /\ rec'[q].len = rec[q].len
  <2>1. StoppedAndPaired(Q)
    BY <1>3, <1>7, <1>8, StoppingKeepsPairs
  <2> QED
    BY <2>1 DEF StoppedAndPaired
<1>10. Users(s)' = {}
  <2>1. Users(s) \subseteq Q
    BY <1>2 DEF Users, On
  <2> QED
    BY <1>9, <2>1
<1>11. /\ desc'[s] \in DescType /\ desc'[s].lock = left
       /\ \A t \in Slot : t # s => desc'[t] = desc[t]
       /\ desc' \in [Slot -> DescType]
  <2>1. CASE left = 0
    <3>1. desc' = [desc EXCEPT ![s] = [sample |-> NoSample, lock |-> 0]]
      BY <2>1, <1>4 DEF EvictLocked
    <3>2. [sample |-> NoSample, lock |-> 0] \in DescType
      BY DEF DescType
    <3> QED
      BY <1>0, <2>1, <3>1, <3>2 DEF RecordTypes
  <2>2. CASE left # 0
    <3>1. desc' = [desc EXCEPT ![s].lock = left]
      BY <2>2, <1>4 DEF EvictLocked
    <3>2. desc'[s] = [desc[s] EXCEPT !.lock = left]
      BY <1>0, <3>1 DEF RecordTypes
    <3>3. desc'[s] = [sample |-> desc[s].sample, lock |-> left]
      BY <1>5, <3>2 DEF DescType
    <3>4. desc'[s] \in DescType
      BY <1>0, <1>5, <3>3, DescFields DEF DescType
    <3>5. \A t \in Slot : t # s => desc'[t] = desc[t]
      BY <1>0, <3>1 DEF RecordTypes
    <3> QED
      BY <1>0, <3>1, <3>3, <3>4, <3>5 DEF RecordTypes
  <2> QED
    BY <2>1, <2>2
<1>12. ASSUME MaxPlays < LockMod, NEW t \in Slot
       PROVE  /\ desc'[t].lock <= desc[t].lock
              /\ Users(t)' # {} => desc'[t].sample = desc[t].sample
              /\ Cardinality(Users(t)') <= desc'[t].lock
  <2>1. CASE t = s
    <3>1. Cardinality(Users(s)') = 0
      BY <1>10, FS_EmptySet
    <3> QED
      BY <2>1, <3>1, <1>5, <1>10, <1>11
  <2>2. CASE t # s
    <3>1. desc'[t] = desc[t] /\ desc[t].lock \in Nat
      BY <1>0, <2>2, <1>11, DescFields
    <3>2. Users(t) \subseteq Record /\ Users(t)' \subseteq Users(t)
      BY <1>9 DEF Users
    <3>3. Cardinality(Users(t)') <= Cardinality(Users(t)) /\ Cardinality(Users(t)) \in Nat
          /\ Cardinality(Users(t)') \in Nat
      BY <3>2, RecordSets
    <3>4. Cardinality(Users(t)) <= desc[t].lock
      BY <1>12 DEF SoundInv, LocksSuffice
    <3>5. Cardinality(Users(t)') <= desc[t].lock /\ desc[t].lock <= desc[t].lock
      BY <3>1, <3>3, <3>4
    <3> QED
      BY <3>1, <3>5
  <2> QED
    BY <2>1, <2>2
<1>13. LocksSuffice'
  BY <1>9, <1>11, <1>12, LocksKept
<1> QED
  BY <1>9, <1>11, <1>13 DEF SoundInv, TypeOK, RecordTypes

-----------------------------------------------------------------------------
(* Playing.                                                                 *)

(* What the steps of a call between Claim and Start leave as it is.         *)
LEMMA CallKeepsPairs ==
  ASSUME SoundInv, game.pc # "idle", game'.pc # "idle", game'.rec = game.rec, game' \in GameType,
         UNCHANGED <<rec, voice, mix, queue, tick, plays, lost>>
  PROVE  /\ VoiceTypes' /\ CallTypes' /\ CursorsAgree' /\ SoundsAreCounted' /\ CallbacksWait'
         /\ HalvesMatch' /\ Begun' = Begun /\ Begun \in Nat
         /\ \A s \in Slot : Users(s)' = Users(s)
<1>1. VoiceTypes' /\ CallTypes'
  BY DEF SoundInv, TypeOK, VoiceTypes, CallTypes
<1>2. CursorsAgree'
  BY DEF SoundInv, CursorsAgree, Starting, Fresh, Tracked
<1>3. SoundsAreCounted'
  BY DEF SoundInv, SoundsAreCounted
<1>4. CallbacksWait'
  BY DEF SoundInv, CallbacksWait, Ended
<1>5. \A r \in Record : Starting(r)' = Starting(r)
  BY DEF Starting
<1>6. HalvesMatch'
  BY <1>5 DEF SoundInv, HalvesMatch, RecordsAndVoicesPair, CallbacksFindTheirVoice
<1>7. \A s \in Slot : Users(s)' = Users(s)
  BY <1>5 DEF Users
<1>8. Begun' = Begun /\ Begun \in Nat
  <2>1. plays > 0 /\ plays \in Nat
    BY GameFields DEF SoundInv, TypeOK, StartIsAhead
  <2> QED
    BY <2>1 DEF Begun
<1> QED
  BY <1>1, <1>2, <1>3, <1>4, <1>6, <1>7, <1>8

(* The call finds its sample, or goes on to load it.                        *)
LEMMA ResolveKeeps ==
  ASSUME SoundInv, Resolve
  PROVE  SoundInv'
<1>0. RecordTypes /\ VoiceTypes /\ CallTypes /\ game \in GameType
  BY DEF SoundInv, TypeOK, CallTypes
<1>1. PICK y \in {"load", "start"} :
        \E s \in Slot :
          /\ game' = [pc |-> y, rec |-> game.rec, sample |-> game.sample, slot |-> s]
          /\ y = "start" => desc[s].sample = game.sample
  <2>1. CASE \E s \in Slot : desc[s].sample = game.sample
    <3>1. PICK s \in Slot : s = (CHOOSE t \in Slot : desc[t].sample = game.sample)
                            /\ desc[s].sample = game.sample
      BY <2>1
    <3>2. game' = [game EXCEPT !.pc = "start", !.slot = s]
      BY <2>1, <3>1 DEF Resolve
    <3>3. game' = [pc |-> "start", rec |-> game.rec, sample |-> game.sample, slot |-> s]
      BY <1>0, <3>2 DEF GameType
    <3> QED
      BY <3>1, <3>3
  <2>2. CASE ~\E s \in Slot : desc[s].sample = game.sample
    <3>1. game' = [game EXCEPT !.pc = "load"]
      BY <2>2 DEF Resolve
    <3>2. game' = [pc |-> "load", rec |-> game.rec, sample |-> game.sample, slot |-> game.slot]
      BY <1>0, <3>1 DEF GameType
    <3> QED
      BY <1>0, <3>2, GameFields
  <2> QED
    BY <2>1, <2>2
<1>2. PICK s \in Slot :
        /\ game' = [pc |-> y, rec |-> game.rec, sample |-> game.sample, slot |-> s]
        /\ y = "start" => desc[s].sample = game.sample
  BY <1>1
<1>3. game'.pc = y /\ game'.rec = game.rec /\ game'.sample = game.sample /\ game'.slot = s
  BY <1>2
<1>4. game' \in GameType
  BY <1>0, <1>2, GameFields DEF GameType
<1>5. UNCHANGED <<rec, desc, voice, mix, queue, tick, plays, lost>> /\ game.pc = "resolve"
  BY DEF Resolve
<1>6. /\ VoiceTypes' /\ CallTypes' /\ CursorsAgree' /\ SoundsAreCounted' /\ CallbacksWait'
      /\ HalvesMatch' /\ Begun' = Begun /\ Begun \in Nat
      /\ \A t \in Slot : Users(t)' = Users(t)
  BY <1>3, <1>4, <1>5, CallKeepsPairs
<1>7. StartIsAhead'
  BY <1>2, <1>3, <1>5 DEF SoundInv, StartIsAhead
<1>8. LocksSuffice'
  BY <1>5, <1>6 DEF SoundInv, LocksSuffice
<1> QED
  BY <1>0, <1>5, <1>6, <1>7, <1>8 DEF SoundInv, TypeOK, RecordTypes

(* A descriptor whose sample changes has no users.                          *)
LEMMA UnusedDescriptor ==
  ASSUME SoundInv, MaxPlays < LockMod, NEW s \in Slot,
         desc[s].sample = NoSample \/ desc[s].lock = 0
  PROVE  Users(s) = {}
<1>1. ASSUME NEW r \in Users(s) PROVE FALSE
  <2>1. Users(s) \subseteq Record /\ Users(s) # {}
    BY DEF Users
  <2>2. Cardinality(Users(s)) > 0 /\ Cardinality(Users(s)) \in Nat
    BY <2>1, RecordSets
  <2>3. desc[s].sample \in Samples /\ Cardinality(Users(s)) <= desc[s].lock
    BY DEF SoundInv, LocksSuffice
  <2> QED
    BY <2>2, <2>3, SoundAssumption
<1> QED
  BY <1>1

(* Changing the sample of such a descriptor leaves the locks sufficient.    *)
LEMMA UnusedChangeKeepsLocks ==
  ASSUME SoundInv, NEW s \in Slot, NEW d \in DescType,
         MaxPlays < LockMod => Users(s) = {}, d.lock = 0, desc' = [desc EXCEPT ![s] = d],
         UNCHANGED rec, Begun' = Begun, Begun \in Nat, \A t \in Slot : Users(t)' = Users(t)
  PROVE  LocksSuffice' /\ RecordTypes'
<1>0. RecordTypes
  BY DEF SoundInv, TypeOK
<1>1. desc'[s] = d /\ \A t \in Slot : t # s => desc'[t] = desc[t]
  BY <1>0 DEF RecordTypes
<1>2. RecordTypes'
  BY <1>0 DEF RecordTypes
<1>3. ASSUME MaxPlays < LockMod, NEW t \in Slot
      PROVE  /\ Cardinality(Users(t)') <= desc'[t].lock /\ desc'[t].lock <= Begun'
             /\ \A r \in Users(t)' : /\ desc'[t].sample \in Samples
                                     /\ Ticks[desc'[t].sample] = rec'[r].len
  <2>1. CASE t = s
    BY <2>1, <1>1, <1>3, FS_EmptySet
  <2>2. CASE t # s
    BY <2>2, <1>1, <1>3 DEF SoundInv, LocksSuffice
  <2> QED
    BY <2>1, <2>2
<1>4. LocksSuffice'
  BY <1>3 DEF LocksSuffice
<1> QED
  BY <1>2, <1>4

(* Loading fills an empty descriptor, which nothing uses.                   *)
LEMMA LoadKeeps ==
  ASSUME SoundInv, NEW s \in Slot, Load(s)
  PROVE  SoundInv'
<1>0. RecordTypes /\ VoiceTypes /\ CallTypes /\ game \in GameType
  BY DEF SoundInv, TypeOK, CallTypes
<1>1. UNCHANGED <<rec, voice, mix, queue, tick, plays, lost>> /\ game.pc = "load"
      /\ desc[s].sample = NoSample
      /\ desc' = [desc EXCEPT ![s] = [sample |-> game.sample, lock |-> 0]]
      /\ game' = [game EXCEPT !.pc = "start", !.slot = s]
  BY DEF Load
<1>2. game' = [pc |-> "start", rec |-> game.rec, sample |-> game.sample, slot |-> s]
  BY <1>0, <1>1 DEF GameType
<1>3. game'.pc = "start" /\ game'.rec = game.rec /\ game'.sample = game.sample /\ game'.slot = s
  BY <1>2
<1>4. game' \in GameType
  BY <1>0, <1>2, GameFields DEF GameType
<1>5. /\ VoiceTypes' /\ CallTypes' /\ CursorsAgree' /\ SoundsAreCounted' /\ CallbacksWait'
      /\ HalvesMatch' /\ Begun' = Begun /\ Begun \in Nat
      /\ \A t \in Slot : Users(t)' = Users(t)
  BY <1>1, <1>3, <1>4, CallKeepsPairs
<1>6. desc'[s].sample = game.sample
  BY <1>0, <1>1 DEF RecordTypes
<1>7. StartIsAhead'
  BY <1>1, <1>3, <1>6 DEF SoundInv, StartIsAhead
<1>8. LocksSuffice' /\ RecordTypes'
  <2>1. [sample |-> game.sample, lock |-> 0] \in DescType
    BY <1>0, GameFields DEF DescType
  <2>2. PICK d \in DescType : d = [sample |-> game.sample, lock |-> 0] /\ d.lock = 0
    BY <2>1
  <2>3. MaxPlays < LockMod => Users(s) = {}
    BY <1>1, UnusedDescriptor
  <2> QED
    BY <1>1, <1>5, <2>2, <2>3, UnusedChangeKeepsLocks
<1> QED
  BY <1>5, <1>7, <1>8 DEF SoundInv, TypeOK

(* The first pass of an eviction empties a descriptor without locks.        *)
LEMMA EvictUnlockedKeeps ==
  ASSUME SoundInv, NEW s \in Slot, EvictUnlocked(s)
  PROVE  SoundInv'
<1>0. RecordTypes /\ VoiceTypes /\ CallTypes /\ game \in GameType
  BY DEF SoundInv, TypeOK, CallTypes
<1>1. UNCHANGED <<rec, voice, mix, queue, game, tick, plays, lost>> /\ game.pc = "load"
      /\ desc[s].lock = 0 /\ desc' = [desc EXCEPT ![s].sample = NoSample]
  BY DEF EvictUnlocked
<1>2. /\ VoiceTypes' /\ CallTypes' /\ CursorsAgree' /\ SoundsAreCounted' /\ CallbacksWait'
      /\ HalvesMatch' /\ Begun' = Begun /\ Begun \in Nat
      /\ \A t \in Slot : Users(t)' = Users(t)
  BY <1>0, <1>1, CallKeepsPairs
<1>3. StartIsAhead'
  BY <1>1 DEF SoundInv, StartIsAhead
<1>4. LocksSuffice' /\ RecordTypes'
  <2>1. desc[s] \in DescType
    BY <1>0, DescFields
  <2>2. [desc[s] EXCEPT !.sample = NoSample] = [sample |-> NoSample, lock |-> 0]
    BY <1>1, <2>1 DEF DescType
  <2>3. [sample |-> NoSample, lock |-> 0] \in DescType
    BY DEF DescType
  <2>4. PICK d \in DescType : d = [sample |-> NoSample, lock |-> 0] /\ d.lock = 0
    BY <2>3
  <2>5. desc' = [desc EXCEPT ![s] = d]
    BY <1>1, <2>2, <2>4
  <2>6. MaxPlays < LockMod => Users(s) = {}
    BY <1>1, UnusedDescriptor
  <2> QED
    BY <1>1, <1>2, <2>4, <2>5, <2>6, UnusedChangeKeepsLocks
<1> QED
  BY <1>2, <1>3, <1>4 DEF SoundInv, TypeOK

(* The record of a sound that is not being started has its sample.          *)
LEMMA RecordHasSample ==
  ASSUME SoundInv, MaxPlays < LockMod, NEW r \in Record, rec[r].live, ~Starting(r)
  PROVE  /\ rec[r].slot \in Slot /\ desc[rec[r].slot].sample \in Samples
         /\ desc[rec[r].slot].sample # NoSample
         /\ Ticks[desc[rec[r].slot].sample] = rec[r].len /\ rec[r].len > 0
<1>1. rec[r].slot \in Slot
  BY RecordFields DEF SoundInv, TypeOK
<1>2. PICK s \in Slot : s = rec[r].slot
  BY <1>1
<1>3. r \in Users(s)
  BY <1>2 DEF Users
<1>4. desc[s].sample \in Samples /\ Ticks[desc[s].sample] = rec[r].len
  BY <1>3 DEF SoundInv, LocksSuffice
<1>5. desc[s].sample # NoSample /\ Ticks[desc[s].sample] \in Nat \ {0}
  BY <1>4, SoundAssumption
<1> QED
  BY <1>2, <1>4, <1>5

(* Fading changes only whether a loop will be played again.                 *)
LEMMA FadeKeeps ==
  ASSUME SoundInv, NEW r \in Record, Fade(r)
  PROVE  SoundInv'
<1>0. RecordTypes /\ VoiceTypes /\ CallTypes
  BY DEF SoundInv, TypeOK
<1>1. UNCHANGED <<desc, voice, mix, queue, game, tick, plays, lost>> /\ game.pc = "idle"
      /\ rec[r].live /\ rec' = [rec EXCEPT ![r].loud = ~rec[r].loud]
  BY DEF Fade
<1>2. rec[r].len > 0
  BY <1>1 DEF SoundInv, CursorsAgree, Starting
<1>3. rec[r] \in RecordType
  BY <1>0, RecordFields
<1>4. rec'[r] = [live |-> rec[r].live, loop |-> rec[r].loop, loud |-> ~rec[r].loud,
                 slot |-> rec[r].slot, voice |-> rec[r].voice, len |-> rec[r].len,
                 id |-> rec[r].id]
  <2>1. rec'[r] = [rec[r] EXCEPT !.loud = ~rec[r].loud]
    BY <1>0, <1>1 DEF RecordTypes
  <2> QED
    BY <2>1, <1>3 DEF RecordType
<1>5. \A q \in Record : q # r => rec'[q] = rec[q]
  BY <1>0, <1>1 DEF RecordTypes
<1>6. rec'[r] \in RecordType
  BY <1>0, <1>4, RecordFields DEF RecordType
<1>7. \A q \in Record : /\ rec'[q].live = rec[q].live /\ rec'[q].slot = rec[q].slot
                        /\ rec'[q].voice = rec[q].voice /\ rec'[q].len = rec[q].len
                        /\ rec'[q].id = rec[q].id
                        /\ rec'[q].loud => rec[q].loud \/ q = r
  BY <1>4, <1>5
<1> HIDE <1>4, <1>5
<1>8. TypeOK'
  <2>1. rec' \in [Record -> RecordType]
    BY <1>0, <1>1, <1>6 DEF RecordTypes
  <2> QED
    BY <1>0, <1>1, <2>1 DEF TypeOK, RecordTypes, VoiceTypes, CallTypes
<1>13. \A q \in Record : ~Starting(q) /\ ~Starting(q)'
  BY <1>1 DEF Starting
<1>9. CursorsAgree'
  <2>1. \A q \in Record : rec'[q].loud \/ (rec'[q].live /\ ~Starting(q)') => rec'[q].len > 0
    BY <1>2, <1>7, <1>13 DEF SoundInv, CursorsAgree
  <2> QED
    BY <1>1, <2>1 DEF SoundInv, CursorsAgree, Fresh, Tracked
<1>10. SoundsAreCounted'
  BY <1>1, <1>7 DEF SoundInv, SoundsAreCounted
<1>11. StartIsAhead'
  BY <1>1 DEF StartIsAhead
<1>12. CallbacksWait'
  BY <1>1 DEF SoundInv, CallbacksWait, Ended
<1>14. LocksSuffice'
  <2>1. ASSUME NEW s \in Slot PROVE Users(s)' = Users(s)
    BY <1>7, <1>13 DEF Users
  <2>2. Begun' = Begun
    BY <1>1 DEF Begun
  <2>3. \A s \in Slot : Users(s) \subseteq Record
    BY DEF Users
  <2> QED
    BY <1>1, <1>7, <2>1, <2>2, <2>3 DEF SoundInv, LocksSuffice
<1>15. HalvesMatch'
  <2>1. ASSUME MaxPlays < LockMod,
               NEW q \in Record, rec'[q].live, ~Starting(q)', rec'[q].id \notin lost'
        PROVE  /\ rec'[q].voice # NoVoice
               /\ voice'[rec'[q].voice].on /\ voice'[rec'[q].voice].id = rec'[q].id
    BY <2>1, <1>1, <1>7, <1>13 DEF SoundInv, HalvesMatch, RecordsAndVoicesPair
  <2>2. ASSUME NEW v \in Voice, voice'[v].on, voice'[v].id \notin lost'
        PROVE  LET t == voice'[v].tag IN
               rec'[t].live /\ rec'[t].id = voice'[v].id /\ rec'[t].voice = v
    <3>1. PICK t \in Record : t = voice[v].tag
      BY <1>0, VoiceFields
    <3>2. rec[t].live /\ rec[t].id = voice[v].id /\ rec[t].voice = v
      BY <2>2, <1>1, <3>1 DEF SoundInv, HalvesMatch, RecordsAndVoicesPair
    <3> QED
      BY <1>1, <1>7, <3>1, <3>2
  <2>3. CallbacksFindTheirVoice'
    <3> SUFFICES ASSUME NEW i \in DOMAIN queue', NEW q \in Record, rec'[q].live,
                        rec'[q].id = queue'[i].id, queue'[i].id \notin lost'
                 PROVE  LET u == queue'[i].voice IN
                        rec'[q].voice = u /\ voice'[u].on /\ voice'[u].id = queue'[i].id
      BY DEF CallbacksFindTheirVoice
    <3> QED
      BY <1>1, <1>7 DEF SoundInv, HalvesMatch, CallbacksFindTheirVoice
  <2> QED
    BY <2>1, <2>2, <2>3 DEF HalvesMatch, RecordsAndVoicesPair
<1> QED
  BY <1>8, <1>9, <1>10, <1>11, <1>12, <1>14, <1>15 DEF SoundInv

(* The record that is claimed was free, and the sound in it is new.         *)
LEMMA ClaimKeeps ==
  ASSUME SoundInv, NEW x \in Samples, NEW loop \in BOOLEAN, Claim(x, loop)
  PROVE  SoundInv'
<1>0. RecordTypes /\ VoiceTypes /\ CallTypes
  BY DEF SoundInv, TypeOK
<1>1. PICK r \in Record :
        /\ ~rec[r].live
        /\ rec' = [rec EXCEPT ![r].live = TRUE, ![r].loop = loop, ![r].id = plays + 1]
        /\ game' = [pc |-> "resolve", rec |-> r, sample |-> x, slot |-> 0]
  BY FreeRecordExists DEF Claim
<1>2. game.pc = "idle" /\ plays < MaxPlays /\ plays' = plays + 1
      /\ UNCHANGED <<desc, voice, mix, queue, tick, lost>>
  BY DEF Claim
<1>3. plays \in Nat /\ plays' \in Nat /\ plays' <= MaxPlays /\ plays' \notin 1..plays
      /\ 1..plays \subseteq 1..plays' /\ plays' \in 1..plays' /\ plays' > 0
  BY <1>0, <1>2, GameFields, ConstantsAreNumbers
<1>4. rec[r] \in RecordType
  BY <1>0, RecordFields
<1>5. rec'[r] = [live |-> TRUE, loop |-> loop, loud |-> rec[r].loud, slot |-> rec[r].slot,
                 voice |-> rec[r].voice, len |-> rec[r].len, id |-> plays']
  <2>1. rec'[r] = [rec[r] EXCEPT !.live = TRUE, !.loop = loop, !.id = plays + 1]
    BY <1>0, <1>1 DEF RecordTypes
  <2> QED
    BY <2>1, <1>2, <1>4 DEF RecordType
<1>6. \A q \in Record : q # r => rec'[q] = rec[q]
  BY <1>0, <1>1 DEF RecordTypes
<1>7. rec'[r] \in RecordType
  BY <1>0, <1>3, <1>5, RecordFields DEF RecordType
<1>8. game'.pc = "resolve" /\ game'.rec = r /\ game'.sample = x /\ game' \in GameType
  BY <1>1, ConstantsAreNumbers DEF GameType
<1>9. \A q \in Record : (Starting(q)' <=> q = r) /\ ~Starting(q)
  BY <1>2, <1>8 DEF Starting
<1>10. TypeOK'
  <2>1. rec' \in [Record -> RecordType]
    BY <1>0, <1>1, <1>7 DEF RecordTypes
  <2> QED
    BY <1>0, <1>2, <1>3, <1>8, <2>1, ConstantsAreNumbers
    DEF TypeOK, RecordTypes, VoiceTypes, CallTypes
<1>11. CursorsAgree'
  <2>1. \A q \in Record : rec'[q].loud \/ (rec'[q].live /\ ~Starting(q)') => rec'[q].len > 0
    BY <1>5, <1>6, <1>9 DEF SoundInv, CursorsAgree
  <2> QED
    BY <1>2, <2>1 DEF SoundInv, CursorsAgree, Fresh, Tracked
<1>12. /\ \A q \in Record : rec[q].live => rec[q].id # plays'
       /\ \A v \in Voice : voice[v].on => voice[v].id # plays'
       /\ \A i \in DOMAIN queue : queue[i].id # plays'
  BY <1>3 DEF SoundInv, SoundsAreCounted
<1>13. SoundsAreCounted'
  <2>1. \A q \in Record : rec'[q].live => rec'[q].id \in 1..plays'
    BY <1>3, <1>5, <1>6 DEF SoundInv, SoundsAreCounted
  <2>2. ASSUME NEW p \in Record, NEW q \in Record, rec'[p].live, rec'[q].live,
               rec'[p].id = rec'[q].id
        PROVE  p = q
    BY <2>2, <1>5, <1>6, <1>12 DEF SoundInv, SoundsAreCounted
  <2>3. /\ \A v \in Voice : voice[v].on => voice[v].id \in 1..plays'
        /\ \A i \in DOMAIN queue : queue[i].id \in 1..plays'
        /\ lost \subseteq 1..plays'
    BY <1>3 DEF SoundInv, SoundsAreCounted
  <2> QED
    BY <1>2, <2>1, <2>2, <2>3 DEF SoundsAreCounted
<1>14. StartIsAhead'
  BY <1>2, <1>3, <1>5, <1>8, <1>12 DEF StartIsAhead
<1>15. CallbacksWait'
  BY <1>2 DEF SoundInv, CallbacksWait, Ended
<1>16. LocksSuffice'
  <2>1. ASSUME NEW s \in Slot PROVE Users(s)' = Users(s) /\ r \notin Users(s)
    BY <1>1, <1>6, <1>9 DEF Users
  <2>2. Begun' = Begun
    BY <1>2, <1>3, <1>8 DEF Begun
  <2>3. \A s \in Slot : Users(s) \subseteq Record
    BY DEF Users
  <2> QED
    BY <1>2, <1>6, <2>1, <2>2, <2>3 DEF SoundInv, LocksSuffice
<1>17. HalvesMatch'
  <2>1. ASSUME MaxPlays < LockMod,
               NEW q \in Record, rec'[q].live, ~Starting(q)', rec'[q].id \notin lost'
        PROVE  /\ rec'[q].voice # NoVoice
               /\ voice'[rec'[q].voice].on /\ voice'[rec'[q].voice].id = rec'[q].id
    BY <2>1, <1>2, <1>6, <1>9 DEF SoundInv, HalvesMatch, RecordsAndVoicesPair
  <2>2. ASSUME NEW v \in Voice, voice'[v].on, voice'[v].id \notin lost'
        PROVE  LET t == voice'[v].tag IN
               rec'[t].live /\ rec'[t].id = voice'[v].id /\ rec'[t].voice = v
    <3>1. PICK t \in Record : t = voice[v].tag
      BY <1>0, VoiceFields
    <3>2. rec[t].live /\ rec[t].id = voice[v].id /\ rec[t].voice = v
      BY <2>2, <1>2, <3>1 DEF SoundInv, HalvesMatch, RecordsAndVoicesPair
    <3> QED
      BY <1>1, <1>2, <1>6, <3>1, <3>2
  <2>3. CallbacksFindTheirVoice'
    <3> SUFFICES ASSUME NEW i \in DOMAIN queue', NEW q \in Record, rec'[q].live,
                        rec'[q].id = queue'[i].id, queue'[i].id \notin lost'
                 PROVE  LET u == queue'[i].voice IN
                        rec'[q].voice = u /\ voice'[u].on /\ voice'[u].id = queue'[i].id
      BY DEF CallbacksFindTheirVoice
    <3>1. q # r
      BY <1>2, <1>5, <1>12
    <3> QED
      BY <3>1, <1>2, <1>6 DEF SoundInv, HalvesMatch, CallbacksFindTheirVoice
  <2> QED
    BY <2>1, <2>2, <2>3 DEF HalvesMatch, RecordsAndVoicesPair
<1> QED
  BY <1>10, <1>11, <1>13, <1>14, <1>15, <1>16, <1>17 DEF SoundInv

(* What Start does for record r, descriptor s, sample x and voice f.        *)
StartsWith(r, s, x, f) ==
  /\ r = game.rec /\ s = game.slot /\ x = game.sample /\ f = FirstOff
  /\ Ticks[x] \in Nat \ {0} /\ desc[s].sample = x
  /\ rec'[r] = [live |-> rec[r].live, loop |-> rec[r].loop, loud |-> TRUE,
                slot |-> s, voice |-> f, len |-> Ticks[x], id |-> rec[r].id]
  /\ \A q \in Record : q # r => rec'[q] = rec[q]
  /\ desc'[s] = [sample |-> x, lock |-> Locked(desc[s].lock)]
  /\ \A t \in Slot : t # s => desc'[t] = desc[t]
  /\ voice' = [v \in Voice |->
                IF v = f
                THEN [on |-> TRUE, tag |-> r, start |-> s, pos |-> 0,
                      len |-> Ticks[x], heard |-> 0, id |-> plays]
                ELSE voice[v]]
  /\ lost' = IF f = NoVoice THEN lost \cup {plays} ELSE lost
  /\ game' = NotPlaying /\ UNCHANGED <<mix, queue, tick, plays>>

(* Every start is one of these.                                             *)
LEMMA StartFacts ==
  ASSUME SoundInv, Start
  PROVE  \E r \in Record, s \in Slot, x \in Samples, f \in 0..Voices : StartsWith(r, s, x, f)
<1>0. RecordTypes /\ VoiceTypes /\ CallTypes
  BY DEF SoundInv, TypeOK
<1>1. game.pc = "start"
  BY DEF Start
<1>2. PICK r \in Record, s \in Slot, x \in Samples, f \in 0..Voices :
        r = game.rec /\ s = game.slot /\ x = game.sample /\ f = FirstOff
  <2>1. game.rec \in Record /\ game.slot \in Slot
    BY <1>0, GameFields
  <2>2. game.sample \in Samples
    BY <1>1 DEF SoundInv, StartIsAhead
  <2>3. FirstOff \in 0..Voices
    BY FirstOffIsOff, ConstantsAreNumbers
  <2> QED
    BY <2>1, <2>2, <2>3
<1>3. Ticks[x] \in Nat \ {0} /\ desc[s].sample = x
  BY <1>1, <1>2, SoundAssumption DEF SoundInv, StartIsAhead
<1>4. /\ desc' = [desc EXCEPT ![s].lock = Locked(desc[s].lock)]
      /\ rec' = [rec EXCEPT ![r] = [rec[r] EXCEPT !.loud = TRUE, !.slot = s,
                                                  !.len = Ticks[x], !.voice = f]]
      /\ voice' = [v \in Voice |->
                    IF v = f
                    THEN [on |-> TRUE, tag |-> r, start |-> s, pos |-> 0,
                          len |-> Ticks[x], heard |-> 0, id |-> plays]
                    ELSE voice[v]]
      /\ lost' = IF f = NoVoice THEN lost \cup {plays} ELSE lost
      /\ game' = NotPlaying /\ UNCHANGED <<mix, queue, tick, plays>>
  BY <1>2 DEF Start
<1>5. rec'[r] = [live |-> rec[r].live, loop |-> rec[r].loop, loud |-> TRUE,
                 slot |-> s, voice |-> f, len |-> Ticks[x], id |-> rec[r].id]
  <2>1. rec[r] \in RecordType
    BY <1>0, RecordFields
  <2>2. rec'[r] = [rec[r] EXCEPT !.loud = TRUE, !.slot = s, !.len = Ticks[x], !.voice = f]
    BY <1>0, <1>4 DEF RecordTypes
  <2> QED
    BY <2>1, <2>2 DEF RecordType
<1>6. \A q \in Record : q # r => rec'[q] = rec[q]
  BY <1>0, <1>4 DEF RecordTypes
<1>7. desc'[s] = [sample |-> x, lock |-> Locked(desc[s].lock)]
  <2>1. desc[s] \in DescType
    BY <1>0, DescFields
  <2>2. desc'[s] = [desc[s] EXCEPT !.lock = Locked(desc[s].lock)]
    BY <1>0, <1>4 DEF RecordTypes
  <2> QED
    BY <1>3, <2>1, <2>2 DEF DescType
<1>8. \A t \in Slot : t # s => desc'[t] = desc[t]
  BY <1>0, <1>4 DEF RecordTypes
<1>9. StartsWith(r, s, x, f)
  BY <1>2, <1>3, <1>4, <1>5, <1>6, <1>7, <1>8 DEF StartsWith
<1> QED
  BY <1>9

(* The sound gets a lock, and a voice if one is off.                        *)
LEMMA StartKeeps ==
  ASSUME SoundInv, Start
  PROVE  SoundInv'
<1>0. RecordTypes /\ VoiceTypes /\ CallTypes /\ game.pc = "start"
  BY DEF SoundInv, TypeOK, Start
<1>1. PICK r \in Record, s \in Slot, x \in Samples, f \in 0..Voices : StartsWith(r, s, x, f)
  BY StartFacts
<1>2. f = NoVoice \/ (f \in Voice /\ ~voice[f].on)
  BY <1>1, FirstOffIsOff DEF StartsWith
<1>3. /\ rec'[r].live = rec[r].live /\ rec'[r].slot = s /\ rec'[r].voice = f
      /\ rec'[r].len = Ticks[x] /\ rec'[r].id = rec[r].id
  BY <1>1 DEF StartsWith
<1>4. \A q \in Record : q # r => rec'[q] = rec[q]
  BY <1>1 DEF StartsWith
<1>5. f \in Voice => /\ voice'[f].on /\ voice'[f].tag = r /\ voice'[f].start = s
                     /\ voice'[f].pos = 0 /\ voice'[f].len = Ticks[x] /\ voice'[f].heard = 0
                     /\ voice'[f].id = plays
  BY <1>1 DEF StartsWith
<1>6. \A v \in Voice : v # f => voice'[v] = voice[v]
  BY <1>1 DEF StartsWith
<1>7. game'.pc = "idle" /\ UNCHANGED <<mix, queue, tick, plays>>
      /\ lost' = IF f = NoVoice THEN lost \cup {plays} ELSE lost
  BY <1>1 DEF NotPlaying, StartsWith
<1>8. /\ plays \in Nat /\ plays > 0 /\ plays <= MaxPlays /\ plays \in 1..plays
      /\ rec[r].live => rec[r].id = plays
      /\ plays \notin lost => /\ rec[r].live
                              /\ \A v \in Voice : voice[v].on => voice[v].id # plays
                              /\ \A i \in DOMAIN queue : queue[i].id # plays
  <2>1. plays \in Nat /\ plays <= MaxPlays
    BY <1>0, GameFields
  <2> QED
    BY <1>0, <1>1, <2>1 DEF SoundInv, StartIsAhead, StartsWith
<1>9. \A q \in Record : (Starting(q) <=> q = r) /\ ~Starting(q)'
  BY <1>0, <1>1, <1>7 DEF Starting, StartsWith
<1>10. /\ desc[s].lock \in Nat /\ Locked(desc[s].lock) \in Nat
       /\ MaxPlays < LockMod =>
            Locked(desc[s].lock) = desc[s].lock + 1 /\ desc[s].lock + 1 <= plays
  <2>1. desc[s].lock \in Nat /\ Locked(desc[s].lock) \in Nat
    BY <1>0, DescFields, ConstantsAreNumbers DEF Locked
  <2>2. ASSUME MaxPlays < LockMod
        PROVE  Locked(desc[s].lock) = desc[s].lock + 1 /\ desc[s].lock + 1 <= plays
    <3>1. desc[s].lock <= plays - 1
      BY <1>0, <2>2 DEF SoundInv, LocksSuffice, Begun
    <3>2. desc[s].lock + 1 \in 0..LockMod - 1 /\ desc[s].lock + 1 <= plays
      BY <2>1, <2>2, <3>1, <1>8, ConstantsAreNumbers
    <3>3. (desc[s].lock + 1) % LockMod = desc[s].lock + 1
      BY <3>2, ConstantsAreNumbers
    <3> QED
      BY <3>2, <3>3 DEF Locked
  <2> QED
    BY <2>1, <2>2
<1>11. TypeOK'
  <2>1. rec'[r] \in RecordType
    BY <1>0, <1>1, RecordFields DEF RecordType, StartsWith
  <2>2. rec' \in [Record -> RecordType]
    BY <1>0, <1>4, <2>1 DEF RecordTypes, Start
  <2>3. desc'[s] \in DescType
    BY <1>1, <1>10 DEF DescType, StartsWith
  <2>4. desc' \in [Slot -> DescType]
    BY <1>0, <1>1, <2>3 DEF RecordTypes, Start, StartsWith
  <2>5. ASSUME NEW v \in Voice PROVE voice'[v] \in VoiceType
    <3>1. CASE v = f
      <4>1. voice'[v] = [on |-> TRUE, tag |-> r, start |-> s, pos |-> 0,
                         len |-> Ticks[x], heard |-> 0, id |-> plays]
        BY <3>1, <1>1 DEF StartsWith
      <4> QED
        BY <4>1, <1>1, <1>8 DEF VoiceType, StartsWith
    <3>2. CASE v # f
      BY <3>2, <1>0, <1>6, VoiceFields
    <3> QED
      BY <3>1, <3>2
  <2>6. voice' \in [Voice -> VoiceType]
    BY <1>1, <2>5 DEF StartsWith
  <2>7. NotPlaying \in GameType
    BY ConstantsAreNumbers DEF NotPlaying, GameType
  <2>8. lost' \subseteq Nat
    BY <1>0, <1>7, <1>8 DEF CallTypes
  <2> QED
    BY <1>0, <1>1, <2>2, <2>4, <2>6, <2>7, <2>8
    DEF TypeOK, RecordTypes, VoiceTypes, CallTypes, StartsWith
<1>12. CursorsAgree'
  <2>1. \A q \in Record : rec'[q].loud \/ (rec'[q].live /\ ~Starting(q)') => rec'[q].len > 0
    BY <1>1, <1>3, <1>4, <1>9 DEF SoundInv, CursorsAgree, StartsWith
  <2>2. \A v \in Voice : mix'[v].ended => mix'[v].act /\ mix'[v].cur > 0
    BY <1>7 DEF SoundInv, CursorsAgree
  <2>3. ASSUME NEW v \in Voice, voice'[v].on
        PROVE  voice'[v].len > 0 /\ voice'[v].heard = voice'[v].pos /\ (Fresh(v)' \/ Tracked(v)')
    <3>1. CASE v = f
      <4>1. mix[v].cur = 0 => ~mix[v].ended
        <5>1. mix[v].ended => mix[v].cur > 0
          BY DEF SoundInv, CursorsAgree
        <5> QED
          BY <5>1, <1>0, VoiceFields
      <4>2. Fresh(v)'
        BY <3>1, <4>1, <1>5, <1>7 DEF Fresh
      <4> QED
        BY <3>1, <4>2, <1>1, <1>5 DEF StartsWith
    <3>2. CASE v # f
      BY <2>3, <3>2, <1>6, <1>7 DEF SoundInv, CursorsAgree, Fresh, Tracked
    <3> QED
      BY <3>1, <3>2
  <2> QED
    BY <2>1, <2>2, <2>3 DEF CursorsAgree
<1>13. SoundsAreCounted'
  <2>1. \A q \in Record : rec'[q].live = rec[q].live /\ rec'[q].id = rec[q].id
    BY <1>3, <1>4
  <2>2. \A v \in Voice : voice'[v].on => voice'[v].id \in 1..plays
    BY <1>5, <1>6, <1>8 DEF SoundInv, SoundsAreCounted
  <2>3. lost' \subseteq 1..plays
    BY <1>7, <1>8 DEF SoundInv, SoundsAreCounted
  <2> QED
    BY <1>7, <2>1, <2>2, <2>3 DEF SoundInv, SoundsAreCounted
<1>14. StartIsAhead'
  BY <1>7 DEF StartIsAhead
<1>15. CallbacksWait'
  <2>1. ASSUME NEW i \in DOMAIN queue, NEW v \in Voice,
               voice'[v].on, voice'[v].id = queue[i].id, queue[i].id \notin lost'
        PROVE  v = queue[i].voice /\ Ended(queue[i])'
    <3>1. v # f
      BY <2>1, <1>5, <1>7, <1>8
    <3>2. voice'[v] = voice[v] /\ mix'[v] = mix[v] /\ queue' = queue
      BY <3>1, <1>6, <1>7
    <3>3. v = queue[i].voice /\ Ended(queue[i])
      BY <2>1, <3>2, <1>7 DEF SoundInv, CallbacksWait
    <3> QED
      BY <3>2, <3>3 DEF Ended
  <2>2. \A i, j \in DOMAIN queue : queue[i].id = queue[j].id /\ queue[i].id \notin lost' => i = j
    BY <1>7 DEF SoundInv, CallbacksWait
  <2> QED
    BY <1>7, <2>1, <2>2 DEF CallbacksWait
<1>16. LocksSuffice'
  <2> SUFFICES ASSUME MaxPlays < LockMod, NEW t \in Slot
               PROVE  /\ Cardinality(Users(t)') <= desc'[t].lock /\ desc'[t].lock <= Begun'
                      /\ \A q \in Users(t)' : /\ desc'[t].sample \in Samples
                                              /\ Ticks[desc'[t].sample] = rec'[q].len
    BY DEF LocksSuffice
  <2>1. Begun' = plays
    BY <1>7 DEF Begun
  <2>2. /\ Cardinality(Users(t)) <= desc[t].lock /\ desc[t].lock <= plays - 1
        /\ \A q \in Users(t) : desc[t].sample \in Samples /\ Ticks[desc[t].sample] = rec[q].len
        /\ desc[t].lock \in Nat
    BY <1>0, DescFields DEF SoundInv, LocksSuffice, Begun
  <2>3. Users(t) \subseteq Record /\ Users(t)' \subseteq Record /\ r \notin Users(t)
    BY <1>9 DEF Users
  <2>4. \A q \in Users(t)' : q # r => q \in Users(t)
    BY <1>4, <1>9 DEF Users
  <2>5. ASSUME NEW q \in Users(t)', q # r
        PROVE  q \in Record /\ q \in Users(t) /\ rec'[q] = rec[q]
    BY <1>4, <2>3, <2>4, <2>5
  <2>6. CASE t = s
    <3>1. desc'[t].sample = x /\ desc'[t].lock = desc[t].lock + 1
      BY <2>6, <1>1, <1>10 DEF StartsWith
    <3>2. ASSUME NEW q \in Users(t)' PROVE Ticks[x] = rec'[q].len
      <4>1. CASE q = r
        BY <4>1, <1>3
      <4>2. CASE q # r
        BY <4>2, <2>2, <2>5, <2>6, <1>1 DEF StartsWith
      <4> QED
        BY <4>1, <4>2
    <3>3. IsFiniteSet(Users(t)) /\ Cardinality(Users(t)) \in Nat
      BY <2>3, RecordSets
    <3>4. Cardinality(Users(t) \cup {r}) = Cardinality(Users(t)) + 1
      BY <2>3, <3>3, FS_AddElement
    <3>5. Users(t) \cup {r} \subseteq Record /\ Users(t)' \subseteq Users(t) \cup {r}
      BY <2>3, <2>4
    <3>6. Cardinality(Users(t)') <= Cardinality(Users(t) \cup {r}) /\ Cardinality(Users(t)') \in Nat
      BY <2>3, <3>5, RecordSets
    <3>7. Cardinality(Users(t)') <= desc[t].lock + 1
      BY <2>2, <3>3, <3>4, <3>6
    <3>8. desc[t].lock + 1 <= plays
      BY <2>6, <1>10
    <3> QED
      BY <3>1, <3>2, <3>7, <3>8, <2>1, <1>1 DEF StartsWith
  <2>7. CASE t # s
    <3>1. desc'[t] = desc[t]
      BY <2>7, <1>1 DEF StartsWith
    <3>2. r \notin Users(t)'
      BY <2>7, <1>3 DEF Users
    <3>3. Users(t)' \subseteq Users(t)
      BY <3>2, <2>4
    <3>4. Cardinality(Users(t)') <= Cardinality(Users(t)) /\ Cardinality(Users(t)') \in Nat
          /\ Cardinality(Users(t)) \in Nat
      BY <2>3, <3>3, RecordSets
    <3>5. Cardinality(Users(t)') <= desc[t].lock /\ desc[t].lock <= plays
      BY <3>4, <2>2, <1>8
    <3> QED
      BY <3>1, <3>2, <3>5, <2>1, <2>2, <2>5
  <2> QED
    BY <2>6, <2>7
<1>17. HalvesMatch'
  <2>1. ASSUME MaxPlays < LockMod,
               NEW q \in Record, rec'[q].live, ~Starting(q)', rec'[q].id \notin lost'
        PROVE  /\ rec'[q].voice # NoVoice
               /\ voice'[rec'[q].voice].on /\ voice'[rec'[q].voice].id = rec'[q].id
    <3>1. CASE q = r
      <4>1. rec[r].id = plays /\ f # NoVoice
        BY <2>1, <3>1, <1>3, <1>7, <1>8
      <4> QED
        BY <3>1, <4>1, <1>2, <1>3, <1>5
    <3>2. CASE q # r
      <4>1. rec'[q] = rec[q] /\ rec[q].id \notin lost
        BY <2>1, <3>2, <1>4, <1>7
      <4>2. rec[q].voice # NoVoice /\ voice[rec[q].voice].on /\ voice[rec[q].voice].id = rec[q].id
        BY <2>1, <3>2, <4>1, <1>9 DEF SoundInv, HalvesMatch, RecordsAndVoicesPair
      <4>3. rec[q].voice \in Voice
        BY <1>0, <4>2, RecordFields, ConstantsAreNumbers DEF Voice, NoVoice
      <4>4. rec[q].voice # f
        BY <4>2, <1>2
      <4> QED
        BY <4>1, <4>2, <4>3, <4>4, <1>6
    <3> QED
      BY <3>1, <3>2
  <2>2. ASSUME NEW v \in Voice, voice'[v].on, voice'[v].id \notin lost'
        PROVE  LET t == voice'[v].tag IN
               rec'[t].live /\ rec'[t].id = voice'[v].id /\ rec'[t].voice = v
    <3>1. CASE v = f
      <4>1. voice'[v].tag = r /\ voice'[v].id = plays /\ plays \notin lost
        BY <2>2, <3>1, <1>5, <1>7
      <4> QED
        BY <3>1, <4>1, <1>3, <1>8
    <3>2. CASE v # f
      <4>1. voice'[v] = voice[v] /\ voice[v].id \notin lost
        BY <2>2, <3>2, <1>6, <1>7
      <4>2. PICK t \in Record : t = voice[v].tag
        BY <1>0, VoiceFields
      <4>3. rec[t].live /\ rec[t].id = voice[v].id /\ rec[t].voice = v
        BY <2>2, <4>1, <4>2 DEF SoundInv, HalvesMatch, RecordsAndVoicesPair
      <4>4. t # r
        BY <2>2, <4>1, <4>3, <1>8
      <4> QED
        BY <4>1, <4>2, <4>3, <4>4, <1>4
    <3> QED
      BY <3>1, <3>2
  <2>3. CallbacksFindTheirVoice'
    <3> SUFFICES ASSUME NEW i \in DOMAIN queue', NEW q \in Record, rec'[q].live,
                        rec'[q].id = queue'[i].id, queue'[i].id \notin lost'
                 PROVE  LET u == queue'[i].voice IN
                        rec'[q].voice = u /\ voice'[u].on /\ voice'[u].id = queue'[i].id
      BY DEF CallbacksFindTheirVoice
    <3>1. queue' = queue /\ queue[i].id \notin lost
      BY <1>7
    <3>2. PICK w \in Voice : w = queue[i].voice
      BY <1>0, <3>1, EntryFields
    <3>3. q # r
      BY <3>1, <1>3, <1>7, <1>8
    <3>4. rec'[q] = rec[q]
      BY <3>3, <1>4
    <3>5. rec[q].voice = w /\ voice[w].on /\ voice[w].id = queue[i].id
      BY <3>1, <3>2, <3>4 DEF SoundInv, HalvesMatch, CallbacksFindTheirVoice
    <3>6. voice'[w] = voice[w]
      <4>1. w # f
        BY <3>5, <1>2, ConstantsAreNumbers
      <4> QED
        BY <4>1, <1>6
    <3> QED
      BY <3>1, <3>2, <3>4, <3>5, <3>6
  <2> QED
    BY <2>1, <2>2, <2>3 DEF HalvesMatch, RecordsAndVoicesPair
<1> QED
  BY <1>11, <1>12, <1>13, <1>14, <1>15, <1>16, <1>17 DEF SoundInv

-----------------------------------------------------------------------------
(* The first half of a tick.                                                *)

(* Whether it notices a restart or not, the mixer goes on where the sound   *)
(* in the voice is, and has counted all of it that was heard.               *)
LEMMA SeenAgrees ==
  ASSUME SoundInv, NEW v \in Voice, voice[v].on
  PROVE  /\ Seen(v) \in MixType /\ Seen(v).act /\ Seen(v).start = voice[v].start
         /\ Seen(v).cur = voice[v].pos /\ Seen(v).gen \in Nat
         /\ Seen(v).ended => Seen(v) = mix[v] /\ mix[v].ended
         /\ mix[v].ended /\ mix[v].act /\ mix[v].start = voice[v].start /\ mix[v].cur = voice[v].pos
              => Seen(v) = mix[v]
         /\ Cursor(v) \in Nat /\ Cursor(v) <= voice[v].len /\ Heard(v) = Cursor(v)
         /\ voice[v].len > 0
<1>0. VoiceTypes
  BY DEF SoundInv, TypeOK
<1>1. /\ voice[v].pos \in Nat /\ voice[v].len \in Nat /\ voice[v].heard \in Nat
      /\ voice[v].start \in Slot /\ mix[v] \in MixType /\ mix[v].cur \in Nat /\ mix[v].gen \in Nat
      /\ mix[v].act \in BOOLEAN
  BY <1>0, VoiceFields
<1>2. voice[v].len > 0 /\ voice[v].heard = voice[v].pos /\ (Fresh(v) \/ Tracked(v))
  BY DEF SoundInv, CursorsAgree
<1>3. /\ Seen(v) \in MixType /\ Seen(v).act /\ Seen(v).start = voice[v].start
      /\ Seen(v).cur = voice[v].pos /\ Seen(v).gen \in Nat
      /\ Seen(v).ended => Seen(v) = mix[v] /\ mix[v].ended
  <2>1. CASE Restarted(v)
    <3>1. Seen(v) = [act |-> TRUE, start |-> voice[v].start, cur |-> 0,
                     ended |-> FALSE, gen |-> mix[v].gen + 1]
      BY <2>1 DEF Seen
    <3>2. voice[v].pos = 0
      <4>1. CASE Fresh(v)
        BY <4>1 DEF Fresh
      <4>2. CASE Tracked(v)
        BY <4>2, <2>1, <1>1 DEF Tracked, Restarted
      <4> QED
        BY <1>2, <4>1, <4>2
    <3> QED
      BY <3>1, <3>2, <1>1 DEF MixType
  <2>2. CASE ~Restarted(v)
    <3>1. Seen(v) = mix[v]
      BY <2>2 DEF Seen
    <3>2. mix[v].act /\ mix[v].start = voice[v].start /\ ~(voice[v].pos < mix[v].cur)
      BY <2>2, <1>1 DEF Restarted
    <3>3. mix[v].cur = voice[v].pos
      BY <1>1, <1>2, <3>2 DEF Fresh, Tracked
    <3> QED
      BY <3>1, <3>2, <3>3, <1>1
  <2> QED
    BY <2>1, <2>2
<1>4. voice[v].pos <= voice[v].len
  BY <1>1, <1>2 DEF Fresh, Tracked
<1>5. Cursor(v) \in Nat /\ Cursor(v) <= voice[v].len /\ Heard(v) = Cursor(v)
  <2>1. Cursor(v) \in Nat /\ Cursor(v) <= voice[v].len
    BY <1>1, <1>3, <1>4 DEF Cursor
  <2>2. Heard(v) = voice[v].pos + Cursor(v) - voice[v].pos
    BY <1>2, <1>3 DEF Heard
  <2> QED
    BY <1>1, <2>1, <2>2
<1>6. mix[v].ended /\ mix[v].act /\ mix[v].start = voice[v].start /\ mix[v].cur = voice[v].pos
        => Seen(v) = mix[v]
  BY <1>1 DEF Seen, Restarted
<1> QED
  BY <1>2, <1>3, <1>5, <1>6

(* What the mixer does to one voice.                                        *)
LEMMA MixedVoice ==
  ASSUME SoundInv, NEW v \in Voice, MixVoices
  PROVE  /\ ~voice[v].on =>
              voice'[v] = voice[v] /\ mix'[v] \in MixType /\ ~mix'[v].ended /\ v \notin Ending
         /\ voice[v].on /\ Seen(v).ended =>
              voice'[v] = voice[v] /\ mix'[v] = mix[v] /\ v \notin Ending
         /\ v \in Ending => Mixes(v) /\ Cursor(v) = voice[v].len
         /\ v \in Ending \ Queued => voice'[v] = Off /\ mix'[v] \in MixType /\ ~mix'[v].ended
         /\ Mixes(v) /\ v \notin Ending \ Queued =>
              /\ voice'[v] = [on |-> TRUE, tag |-> voice[v].tag, start |-> voice[v].start,
                              pos |-> Cursor(v), len |-> voice[v].len, heard |-> Cursor(v),
                              id |-> voice[v].id]
              /\ mix'[v] = [act |-> TRUE, start |-> voice[v].start, cur |-> Cursor(v),
                            ended |-> v \in Queued, gen |-> Seen(v).gen]
<1>0. VoiceTypes
  BY DEF SoundInv, TypeOK
<1>1. mix[v] \in MixType /\ mix[v].gen \in Nat /\ voice[v] \in VoiceType
  BY <1>0, VoiceFields
<1>2. /\ mix'[v] = IF ~voice[v].on THEN [NotMixed EXCEPT !.gen = mix[v].gen]
                   ELSE IF ~Mixes(v) THEN Seen(v)
                   ELSE [Seen(v) EXCEPT !.cur = Cursor(v), !.ended = v \in Queued,
                                        !.act = v \notin Ending \ Queued]
      /\ voice'[v] = IF ~Mixes(v) THEN voice[v]
                     ELSE IF v \in Ending \ Queued THEN Off
                     ELSE [voice[v] EXCEPT !.pos = Cursor(v), !.heard = Heard(v)]
  BY DEF MixVoices
<1>3. v \in Ending => Mixes(v) /\ Cursor(v) = voice[v].len
  BY DEF Ending
<1>4. CASE ~voice[v].on
  <2>1. ~Mixes(v)
    BY <1>4 DEF Mixes
  <2>2. mix'[v] = [act |-> FALSE, start |-> 0, cur |-> 0, ended |-> FALSE, gen |-> mix[v].gen]
    BY <1>2, <1>4 DEF NotMixed
  <2>3. mix'[v] \in MixType
    BY <2>2, <1>1, ConstantsAreNumbers DEF MixType
  <2> QED
    BY <1>2, <1>3, <1>4, <2>1, <2>2, <2>3
<1>5. CASE voice[v].on /\ Seen(v).ended
  <2>1. ~Mixes(v) /\ Seen(v) = mix[v]
    BY <1>5, SeenAgrees DEF Mixes
  <2> QED
    BY <1>2, <1>3, <1>5, <2>1
<1>6. CASE Mixes(v)
  <2>1. /\ voice[v].on /\ ~Seen(v).ended /\ Seen(v) \in MixType
        /\ Seen(v).start = voice[v].start /\ Cursor(v) \in Nat /\ Heard(v) = Cursor(v)
    BY <1>6, SeenAgrees DEF Mixes
  <2>2. mix'[v] = [Seen(v) EXCEPT !.cur = Cursor(v), !.ended = v \in Queued,
                                  !.act = v \notin Ending \ Queued]
    BY <1>2, <1>6, <2>1
  <2>3. mix'[v] = [act |-> v \notin Ending \ Queued, start |-> voice[v].start, cur |-> Cursor(v),
                   ended |-> v \in Queued, gen |-> Seen(v).gen]
    BY <2>1, <2>2 DEF MixType
  <2>4. CASE v \in Ending \ Queued
    <3>1. voice'[v] = Off
      BY <1>2, <1>6, <2>4
    <3>2. mix'[v] \in MixType
      BY <1>0, <2>1, <2>3, VoiceFields DEF MixType
    <3>3. ~mix'[v].ended
      <4>1. mix'[v].ended = (v \in Queued)
        BY <2>3
      <4> QED
        BY <2>4, <4>1
    <3> QED
      BY <1>3, <1>6, <2>1, <2>4, <3>1, <3>2, <3>3
  <2>5. CASE v \notin Ending \ Queued
    <3>1. voice'[v] = [voice[v] EXCEPT !.pos = Cursor(v), !.heard = Cursor(v)]
      BY <1>2, <1>6, <2>1, <2>5
    <3>2. voice'[v] = [on |-> TRUE, tag |-> voice[v].tag, start |-> voice[v].start,
                       pos |-> Cursor(v), len |-> voice[v].len, heard |-> Cursor(v),
                       id |-> voice[v].id]
      BY <3>1, <1>1, <2>1 DEF VoiceType
    <3>3. (v \notin Ending \ Queued) = TRUE
      BY <2>5
    <3>4. mix'[v] = [act |-> TRUE, start |-> voice[v].start, cur |-> Cursor(v),
                     ended |-> v \in Queued, gen |-> Seen(v).gen]
      BY <2>3, <3>3
    <3> QED
      BY <1>3, <1>6, <2>1, <2>5, <3>2, <3>4
  <2> QED
    BY <2>4, <2>5
<1> QED
  BY <1>4, <1>5, <1>6 DEF Mixes

(* The fields of a voice that the mixer advances.                           *)
LEMMA MixedFields ==
  ASSUME SoundInv, NEW v \in Voice, MixVoices, Mixes(v), v \notin Ending \ Queued
  PROVE  /\ voice'[v].on /\ voice'[v].tag = voice[v].tag /\ voice'[v].start = voice[v].start
         /\ voice'[v].pos = Cursor(v) /\ voice'[v].len = voice[v].len
         /\ voice'[v].heard = Cursor(v) /\ voice'[v].id = voice[v].id
         /\ mix'[v].act /\ mix'[v].start = voice[v].start /\ mix'[v].cur = Cursor(v)
         /\ mix'[v].ended = (v \in Queued) /\ mix'[v].gen = Seen(v).gen
         /\ voice'[v] \in VoiceType /\ mix'[v] \in MixType
<1>0. VoiceTypes /\ voice[v].on
  BY DEF SoundInv, TypeOK, Mixes
<1>1. PICK b : b \in BOOLEAN /\ b = (v \in Queued)
  <2>1. CASE v \in Queued
    <3>1. TRUE \in BOOLEAN /\ TRUE = (v \in Queued)
      BY <2>1
    <3> QED
      BY <3>1
  <2>2. CASE v \notin Queued
    <3>1. FALSE \in BOOLEAN /\ FALSE = (v \in Queued)
      BY <2>2
    <3> QED
      BY <3>1
  <2> QED
    BY <2>1, <2>2
<1>2. voice'[v] = [on |-> TRUE, tag |-> voice[v].tag, start |-> voice[v].start,
                   pos |-> Cursor(v), len |-> voice[v].len, heard |-> Cursor(v),
                   id |-> voice[v].id]
  BY MixedVoice
<1>3. mix'[v] = [act |-> TRUE, start |-> voice[v].start, cur |-> Cursor(v),
                 ended |-> b, gen |-> Seen(v).gen]
  BY <1>1, MixedVoice
<1>4. Cursor(v) \in Nat /\ Seen(v).gen \in Nat
  BY <1>0, SeenAgrees
<1>5. voice'[v] \in VoiceType
  BY <1>0, <1>2, <1>4, VoiceFields DEF VoiceType
<1>6. mix'[v] \in MixType
  <2>1. b \in BOOLEAN
    BY <1>1
  <2> HIDE <1>1
  <2> QED
    BY <1>0, <1>3, <1>4, <2>1, VoiceFields DEF MixType
<1>7. /\ voice'[v].on /\ voice'[v].tag = voice[v].tag /\ voice'[v].start = voice[v].start
      /\ voice'[v].pos = Cursor(v) /\ voice'[v].len = voice[v].len
      /\ voice'[v].heard = Cursor(v) /\ voice'[v].id = voice[v].id
  BY <1>2
<1>8. /\ mix'[v].act /\ mix'[v].start = voice[v].start /\ mix'[v].cur = Cursor(v)
      /\ mix'[v].ended = b /\ mix'[v].gen = Seen(v).gen
  BY <1>3
<1> QED
  BY <1>1, <1>5, <1>6, <1>7, <1>8

(* Ids that are not lost tell the voices apart.                             *)
LEMMA OneVoicePerSound ==
  ASSUME SoundInv, NEW v \in Voice, NEW w \in Voice,
         voice[v].on, voice[w].on, voice[v].id = voice[w].id, voice[v].id \notin lost
  PROVE  v = w
<1>1. PICK r \in Record, q \in Record : r = voice[v].tag /\ q = voice[w].tag
  BY VoiceFields DEF SoundInv, TypeOK
<1>2. /\ rec[r].live /\ rec[r].id = voice[v].id /\ rec[r].voice = v
      /\ rec[q].live /\ rec[q].id = voice[w].id /\ rec[q].voice = w
  BY <1>1 DEF SoundInv, HalvesMatch, RecordsAndVoicesPair
<1>3. r = q
  BY <1>2 DEF SoundInv, SoundsAreCounted
<1> QED
  BY <1>2, <1>3

(* The callbacks that the mixer queues, one for each voice that ended.      *)
LEMMA MixedQueue ==
  ASSUME SoundInv, MixVoices
  PROVE  /\ queue' \in Seq(EntryType)
         /\ DOMAIN queue \subseteq DOMAIN queue'
         /\ \A i \in DOMAIN queue : queue'[i] = queue[i]
         /\ \A i \in DOMAIN queue' : i \notin DOMAIN queue =>
              \E w \in Queued :
                /\ queue'[i] = Entry(w)
                /\ i = Len(queue) + Cardinality({u \in Queued : u <= w})
<1>0. RecordTypes /\ VoiceTypes /\ queue \in Seq(EntryType)
  BY DEF SoundInv, TypeOK, CallTypes
<1>1. PICK n \in Nat : n = Cardinality(Queued)
  BY QueuedInOrder
<1>2. PICK new : new = [i \in 1..n |-> Entry(InOrder(i))]
  OBVIOUS
<1>3. queue' = queue \o new
  BY <1>1, <1>2 DEF MixVoices
<1>4. ASSUME NEW w \in Queued PROVE Entry(w) \in EntryType
  <2>1. w \in Voice /\ voice[w].on
    BY DEF Queued, Ending, Mixes
  <2>2. Seen(w).gen \in Nat
    BY <2>1, SeenAgrees
  <2>3. voice[w].tag \in Record /\ voice[w].start \in Slot /\ voice[w].id \in Nat
    BY <1>0, <2>1, VoiceFields
  <2>4. Again(voice[w].tag) \in BOOLEAN
    BY DEF Again
  <2> QED
    BY <2>1, <2>2, <2>3, <2>4 DEF Entry, EntryType
<1>5. ASSUME NEW i \in 1..n
      PROVE  /\ new[i] \in EntryType
             /\ \E w \in Queued : new[i] = Entry(w) /\ i = Cardinality({u \in Queued : u <= w})
  BY <1>1, <1>2, <1>4, QueuedInOrder
<1>6. new \in Seq(EntryType) /\ Len(new) = n /\ DOMAIN new = 1..n
  <2>1. new \in [1..n -> EntryType]
    BY <1>2, <1>5
  <2> QED
    BY <1>1, <2>1
<1>7. queue' \in Seq(EntryType) /\ Len(queue') = Len(queue) + n /\ Len(queue) \in Nat
      /\ DOMAIN queue = 1..Len(queue) /\ DOMAIN queue' = 1..Len(queue) + n
  BY <1>0, <1>1, <1>3, <1>6
<1>8. \A i \in DOMAIN queue : queue'[i] = queue[i]
  BY <1>0, <1>1, <1>3, <1>6, <1>7
<1>9. DOMAIN queue \subseteq DOMAIN queue'
  BY <1>1, <1>7
<1>10. ASSUME NEW i \in DOMAIN queue', i \notin DOMAIN queue
       PROVE  \E w \in Queued : queue'[i] = Entry(w)
                                /\ i = Len(queue) + Cardinality({u \in Queued : u <= w})
  <2>1. i - Len(queue) \in 1..n /\ i \in Nat
    BY <1>1, <1>7, <1>10
  <2>2. queue'[i] = new[i - Len(queue)]
    BY <1>0, <1>1, <1>3, <1>6, <1>7, <1>10, <2>1
  <2>3. PICK w \in Queued : /\ new[i - Len(queue)] = Entry(w)
                            /\ i - Len(queue) = Cardinality({u \in Queued : u <= w})
    BY <1>5, <2>1
  <2>4. PICK k \in Nat : k = i - Len(queue)
    BY <2>1
  <2>5. i = Len(queue) + k /\ k = Cardinality({u \in Queued : u <= w})
    BY <1>7, <2>1, <2>3, <2>4
  <2> QED
    BY <2>2, <2>3, <2>5
<1> QED
  BY <1>7, <1>8, <1>9, <1>10

(* Mixing keeps the invariant: a voice that ends gets one callback, or is   *)
(* turned off when there is no room for it.                                 *)
LEMMA MixKeeps ==
  ASSUME SoundInv, MixVoices
  PROVE  SoundInv'
<1>0. RecordTypes /\ VoiceTypes /\ CallTypes
  BY DEF SoundInv, TypeOK
<1>1. UNCHANGED <<rec, desc, game, plays>> /\ tick' = "deliver"
      /\ lost' = lost \cup {voice[v].id : v \in Ending \ Queued}
  BY DEF MixVoices
<1>2. /\ queue' \in Seq(EntryType)
      /\ DOMAIN queue \subseteq DOMAIN queue'
      /\ \A i \in DOMAIN queue : queue'[i] = queue[i]
      /\ \A i \in DOMAIN queue' : i \notin DOMAIN queue =>
           \E w \in Queued :
             /\ queue'[i] = Entry(w)
             /\ i = Len(queue) + Cardinality({u \in Queued : u <= w})
  BY MixedQueue
<1>3. ASSUME NEW v \in Ending \ Queued PROVE voice[v].id \in lost' /\ v \in Voice /\ voice[v].on
  BY <1>1 DEF Ending, Mixes
<1>4. ASSUME NEW v \in Voice
      PROVE  \/ voice'[v] = voice[v] /\ ~voice[v].on /\ mix'[v] \in MixType /\ ~mix'[v].ended
             \/ voice'[v] = voice[v] /\ voice[v].on /\ mix'[v] = mix[v]
             \/ /\ voice'[v] \in VoiceType /\ ~voice'[v].on /\ v \in Ending \ Queued
                /\ mix'[v] \in MixType /\ ~mix'[v].ended
             \/ Mixes(v) /\ voice[v].on /\ v \notin Ending \ Queued
  <2>1. Off \in VoiceType /\ ~Off.on
    BY ConstantsAreNumbers DEF Off, VoiceType
  <2>2. CASE ~voice[v].on
    BY <2>2, MixedVoice
  <2>3. CASE voice[v].on /\ Seen(v).ended
    BY <2>3, MixedVoice
  <2>4. CASE v \in Ending \ Queued
    BY <2>1, <2>4, MixedVoice
  <2>5. CASE voice[v].on /\ ~Seen(v).ended /\ v \notin Ending \ Queued
    BY <2>5 DEF Mixes
  <2> QED
    BY <2>2, <2>3, <2>4, <2>5
<1>5. ASSUME NEW v \in Voice
      PROVE  /\ voice'[v].on => /\ voice[v].on /\ voice'[v].id = voice[v].id
                                /\ voice'[v].tag = voice[v].tag
             /\ voice[v].on /\ voice[v].id \notin lost' => voice'[v].on
  <2>1. CASE voice'[v] = voice[v]
    BY <2>1
  <2>2. CASE ~voice'[v].on /\ v \in Ending \ Queued
    BY <2>2, <1>3
  <2>3. CASE Mixes(v) /\ voice[v].on /\ v \notin Ending \ Queued
    BY <2>3, MixedFields
  <2> QED
    BY <1>4, <2>1, <2>2, <2>3
<1>6. TypeOK'
  <2>1. ASSUME NEW v \in Voice PROVE voice'[v] \in VoiceType /\ mix'[v] \in MixType
    <3>1. voice[v] \in VoiceType /\ mix[v] \in MixType
      BY <1>0, VoiceFields
    <3>2. CASE Mixes(v) /\ voice[v].on /\ v \notin Ending \ Queued
      BY <3>2, MixedFields
    <3> QED
      BY <1>4, <3>1, <3>2
  <2>2. voice' \in [Voice -> VoiceType] /\ mix' \in [Voice -> MixType]
    BY <2>1 DEF MixVoices
  <2>3. lost' \subseteq Nat
    <3>1. ASSUME NEW v \in Ending \ Queued PROVE voice[v].id \in Nat
      BY <1>0, <1>3, VoiceFields
    <3> QED
      BY <1>0, <1>1, <3>1 DEF CallTypes
  <2> QED
    BY <1>0, <1>1, <1>2, <2>2, <2>3 DEF TypeOK, RecordTypes, VoiceTypes, CallTypes
<1>7. CursorsAgree'
  <2>1. \A r \in Record : rec'[r].loud \/ (rec'[r].live /\ ~Starting(r)') => rec'[r].len > 0
    BY <1>1 DEF SoundInv, CursorsAgree, Starting
  <2>2. ASSUME NEW v \in Voice
        PROVE  /\ mix'[v].ended => mix'[v].act /\ mix'[v].cur > 0
               /\ voice'[v].on => /\ voice'[v].len > 0 /\ voice'[v].heard = voice'[v].pos
                                  /\ Fresh(v)' \/ Tracked(v)'
    <3>1. CASE voice'[v] = voice[v] /\ mix'[v] = mix[v]
      BY <3>1 DEF SoundInv, CursorsAgree, Fresh, Tracked
    <3>2. CASE ~voice'[v].on /\ ~mix'[v].ended
      BY <3>2
    <3>3. CASE Mixes(v) /\ voice[v].on /\ v \notin Ending \ Queued
      <4>1. Cursor(v) \in Nat /\ Cursor(v) <= voice[v].len /\ voice[v].len > 0
            /\ voice[v].len \in Nat
        BY <1>0, <3>3, SeenAgrees, VoiceFields
      <4>2. /\ voice'[v].on /\ voice'[v].start = voice[v].start /\ voice'[v].pos = Cursor(v)
            /\ voice'[v].len = voice[v].len /\ voice'[v].heard = Cursor(v)
            /\ mix'[v].act /\ mix'[v].start = voice[v].start /\ mix'[v].cur = Cursor(v)
            /\ mix'[v].ended = (v \in Queued)
        BY <3>3, MixedFields
      <4>3. v \in Queued => Cursor(v) = voice[v].len
        BY DEF Queued, Ending
      <4>4. Tracked(v)'
        BY <4>1, <4>2, <4>3 DEF Tracked
      <4> QED
        BY <4>1, <4>2, <4>3, <4>4
    <3> QED
      <4>1. CASE voice'[v] = voice[v] /\ ~voice[v].on /\ ~mix'[v].ended
        BY <4>1
      <4> QED
        BY <1>4, <3>1, <3>2, <3>3, <4>1
  <2> QED
    BY <2>1, <2>2 DEF CursorsAgree
<1>8. ASSUME NEW i \in DOMAIN queue', i \notin DOMAIN queue
      PROVE  \E w \in Queued : /\ w \in Voice /\ voice[w].on /\ Mixes(w)
                               /\ queue'[i] = Entry(w)
                               /\ queue'[i].id = voice[w].id /\ queue'[i].voice = w
                               /\ i = Len(queue) + Cardinality({u \in Queued : u <= w})
  <2>1. PICK w \in Queued : /\ queue'[i] = Entry(w)
                            /\ i = Len(queue) + Cardinality({u \in Queued : u <= w})
    BY <1>2, <1>8
  <2>2. w \in Voice /\ voice[w].on /\ Mixes(w)
    BY DEF Queued, Ending, Mixes
  <2>3. Entry(w).id = voice[w].id /\ Entry(w).voice = w
    BY DEF Entry
  <2> QED
    BY <2>1, <2>2, <2>3
<1>9. SoundsAreCounted'
  <2>1. \A v \in Voice : voice'[v].on => voice'[v].id \in 1..plays
    BY <1>5 DEF SoundInv, SoundsAreCounted
  <2>2. ASSUME NEW i \in DOMAIN queue' PROVE queue'[i].id \in 1..plays
    <3>1. CASE i \in DOMAIN queue
      BY <3>1, <1>2 DEF SoundInv, SoundsAreCounted
    <3>2. CASE i \notin DOMAIN queue
      BY <3>2, <1>8 DEF SoundInv, SoundsAreCounted
    <3> QED
      BY <3>1, <3>2
  <2>3. lost' \subseteq 1..plays
    BY <1>1, <1>3 DEF SoundInv, SoundsAreCounted
  <2> QED
    BY <1>1, <2>1, <2>2, <2>3 DEF SoundInv, SoundsAreCounted
<1>10. StartIsAhead'
  <2> SUFFICES ASSUME game.pc # "idle" PROVE StartIsAhead'
    BY <1>1 DEF StartIsAhead
  <2>1. ASSUME plays \notin lost'
        PROVE  /\ rec[game.rec].live
               /\ \A v \in Voice : voice'[v].on => voice'[v].id # plays
               /\ \A i \in DOMAIN queue' : queue'[i].id # plays
    <3>1. /\ rec[game.rec].live
          /\ \A v \in Voice : voice[v].on => voice[v].id # plays
          /\ \A i \in DOMAIN queue : queue[i].id # plays
      BY <2>1, <1>1 DEF SoundInv, StartIsAhead
    <3>2. ASSUME NEW i \in DOMAIN queue' PROVE queue'[i].id # plays
      <4>1. CASE i \in DOMAIN queue
        BY <4>1, <1>2, <3>1
      <4>2. CASE i \notin DOMAIN queue
        <5>1. PICK w \in Queued : w \in Voice /\ voice[w].on /\ queue'[i].id = voice[w].id
          BY <4>2, <1>8
        <5> QED
          BY <5>1, <3>1
      <4> QED
        BY <4>1, <4>2
    <3> QED
      BY <1>5, <3>1, <3>2
  <2> QED
    BY <1>1, <2>1 DEF SoundInv, StartIsAhead
<1>11. ASSUME NEW i \in DOMAIN queue, NEW v \in Voice,
              voice[v].on, voice[v].id = queue[i].id, queue[i].id \notin lost
       PROVE  /\ v = queue[i].voice /\ Ended(queue[i]) /\ ~Mixes(v)
              /\ voice'[v] = voice[v] /\ mix'[v] = mix[v]
  <2>1. v = queue[i].voice /\ Ended(queue[i])
    BY <1>11 DEF SoundInv, CallbacksWait
  <2>2. Seen(v).ended
    BY <1>11, <2>1, SeenAgrees DEF Ended
  <2> QED
    BY <1>11, <2>1, <2>2, MixedVoice DEF Mixes
<1>12. CallbacksWait'
  <2>1. ASSUME NEW i \in DOMAIN queue', NEW v \in Voice,
               voice'[v].on, voice'[v].id = queue'[i].id, queue'[i].id \notin lost'
        PROVE  v = queue'[i].voice /\ Ended(queue[i])'
    <3>0. voice[v].on /\ voice[v].id = queue'[i].id /\ queue'[i].id \notin lost
      BY <2>1, <1>1, <1>5
    <3>1. CASE i \in DOMAIN queue
      <4>1. queue'[i] = queue[i]
        BY <3>1, <1>2
      <4>2. /\ v = queue[i].voice /\ Ended(queue[i]) /\ voice'[v] = voice[v] /\ mix'[v] = mix[v]
        BY <3>0, <3>1, <4>1, <1>11
      <4> QED
        BY <4>1, <4>2 DEF Ended
    <3>2. CASE i \notin DOMAIN queue
      <4>1. PICK w \in Queued : /\ w \in Voice /\ voice[w].on /\ Mixes(w)
                                /\ queue'[i] = Entry(w)
                                /\ queue'[i].id = voice[w].id /\ queue'[i].voice = w
        BY <3>2, <1>8
      <4>2. v = w
        BY <3>0, <4>1, OneVoicePerSound
      <4>3. w \notin Ending \ Queued /\ Cursor(w) = voice[w].len
        BY DEF Queued, Ending
      <4>4. /\ voice'[w].start = voice[w].start /\ voice'[w].tag = voice[w].tag
            /\ voice'[w].pos = Cursor(w) /\ voice'[w].len = voice[w].len
            /\ mix'[w].act /\ mix'[w].start = voice[w].start /\ mix'[w].cur = Cursor(w)
            /\ mix'[w].ended = (w \in Queued) /\ mix'[w].gen = Seen(w).gen
        BY <4>1, <4>3, MixedFields
      <4>5. /\ queue'[i].gen = Seen(w).gen /\ queue'[i].start = voice[w].start
            /\ queue'[i].tag = voice[w].tag
        BY <4>1 DEF Entry
      <4> QED
        BY <4>1, <4>2, <4>3, <4>4, <4>5 DEF Ended
    <3> QED
      BY <3>1, <3>2
  <2>2. ASSUME NEW i \in DOMAIN queue', NEW j \in DOMAIN queue',
               queue'[i].id = queue'[j].id, queue'[i].id \notin lost',
               i \notin DOMAIN queue
        PROVE  i = j
    <3>0. queue'[i].id \notin lost
      BY <2>2, <1>1
    <3>1. PICK w \in Queued : /\ w \in Voice /\ voice[w].on /\ Mixes(w)
                              /\ queue'[i].id = voice[w].id
                              /\ i = Len(queue) + Cardinality({u \in Queued : u <= w})
      BY <2>2, <1>8
    <3>2. CASE j \in DOMAIN queue
      BY <2>2, <3>0, <3>1, <3>2, <1>2, <1>11
    <3>3. CASE j \notin DOMAIN queue
      <4>1. PICK x \in Queued : /\ x \in Voice /\ voice[x].on
                                /\ queue'[j].id = voice[x].id
                                /\ j = Len(queue) + Cardinality({u \in Queued : u <= x})
        BY <3>3, <1>8
      <4>2. w = x
        BY <2>2, <3>0, <3>1, <4>1, OneVoicePerSound
      <4> QED
        BY <3>1, <4>1, <4>2
    <3> QED
      BY <3>2, <3>3
  <2>3. ASSUME NEW i \in DOMAIN queue', NEW j \in DOMAIN queue',
               queue'[i].id = queue'[j].id, queue'[i].id \notin lost'
        PROVE  i = j
    <3>1. CASE i \in DOMAIN queue /\ j \in DOMAIN queue
      BY <2>3, <3>1, <1>1, <1>2 DEF SoundInv, CallbacksWait
    <3>2. CASE i \notin DOMAIN queue
      BY <2>2, <2>3, <3>2
    <3>3. CASE j \notin DOMAIN queue
      BY <2>2, <2>3, <3>3
    <3> QED
      BY <3>1, <3>2, <3>3
  <2> QED
    BY <2>1, <2>3 DEF CallbacksWait
<1>13. \A r \in Record : Starting(r)' = Starting(r)
  BY <1>1 DEF Starting
<1>14. LocksSuffice'
  <2>1. \A s \in Slot : Users(s)' = Users(s)
    BY <1>1, <1>13 DEF Users
  <2> QED
    BY <1>1, <2>1 DEF SoundInv, LocksSuffice, Begun
<1>15. HalvesMatch'
  <2>1. ASSUME MaxPlays < LockMod,
               NEW r \in Record, rec'[r].live, ~Starting(r)', rec'[r].id \notin lost'
        PROVE  /\ rec'[r].voice # NoVoice
               /\ voice'[rec'[r].voice].on /\ voice'[rec'[r].voice].id = rec'[r].id
    <3>1. rec'[r] = rec[r] /\ ~Starting(r) /\ rec[r].id \notin lost
      BY <2>1, <1>1, <1>13
    <3>2. rec[r].voice # NoVoice /\ voice[rec[r].voice].on /\ voice[rec[r].voice].id = rec[r].id
      BY <2>1, <3>1 DEF SoundInv, HalvesMatch, RecordsAndVoicesPair
    <3>3. rec[r].voice \in Voice
      BY <1>0, <3>2, RecordFields, ConstantsAreNumbers DEF Voice, NoVoice
    <3>4. PICK v \in Voice : v = rec[r].voice
      BY <3>3
    <3>5. voice'[v].on /\ voice'[v].id = voice[v].id
      BY <2>1, <3>1, <3>2, <3>4, <1>5
    <3> QED
      BY <3>1, <3>2, <3>4, <3>5
  <2>2. ASSUME NEW v \in Voice, voice'[v].on, voice'[v].id \notin lost'
        PROVE  LET t == voice'[v].tag IN
               rec'[t].live /\ rec'[t].id = voice'[v].id /\ rec'[t].voice = v
    <3>1. voice[v].on /\ voice'[v].id = voice[v].id /\ voice'[v].tag = voice[v].tag
          /\ voice[v].id \notin lost
      BY <2>2, <1>1, <1>5
    <3> QED
      BY <1>1, <3>1 DEF SoundInv, HalvesMatch, RecordsAndVoicesPair
  <2>3. CallbacksFindTheirVoice'
    <3> SUFFICES ASSUME NEW i \in DOMAIN queue', NEW q \in Record, rec'[q].live,
                        rec'[q].id = queue'[i].id, queue'[i].id \notin lost'
                 PROVE  LET u == queue'[i].voice IN
                        rec'[q].voice = u /\ voice'[u].on /\ voice'[u].id = queue'[i].id
      BY DEF CallbacksFindTheirVoice
    <3>1. rec'[q] = rec[q] /\ queue'[i].id \notin lost
      BY <1>1
    <3>2. PICK w \in Voice : /\ w = queue'[i].voice /\ rec[q].voice = w
                             /\ voice[w].on /\ voice[w].id = queue'[i].id
      <4>1. CASE i \in DOMAIN queue
        <5>1. queue[i].voice \in Voice /\ queue'[i] = queue[i]
          BY <1>0, <1>2, <4>1, EntryFields
        <5> QED
          BY <3>1, <4>1, <5>1 DEF SoundInv, HalvesMatch, CallbacksFindTheirVoice
      <4>2. CASE i \notin DOMAIN queue
        <5>1. PICK w \in Queued : /\ w \in Voice /\ voice[w].on
                                  /\ queue'[i].id = voice[w].id /\ queue'[i].voice = w
          BY <4>2, <1>8
        <5>2. PICK t \in Record : t = voice[w].tag
          BY <1>0, <5>1, VoiceFields
        <5>3. rec[t].live /\ rec[t].id = voice[w].id /\ rec[t].voice = w
          BY <3>1, <5>1, <5>2 DEF SoundInv, HalvesMatch
        <5>4. t = q
          BY <3>1, <5>1, <5>3 DEF SoundInv, SoundsAreCounted
        <5> QED
          BY <5>1, <5>3, <5>4
      <4> QED
        BY <4>1, <4>2
    <3>3. voice'[w].on /\ voice'[w].id = voice[w].id
      BY <3>2, <1>5
    <3> QED
      BY <3>1, <3>2, <3>3
  <2> QED
    BY <2>1, <2>2, <2>3 DEF HalvesMatch, RecordsAndVoicesPair
<1> QED
  BY <1>6, <1>7, <1>9, <1>10, <1>12, <1>14, <1>15 DEF SoundInv

-----------------------------------------------------------------------------
(* The second half of a tick.                                               *)

(* The first callback and the rest of the queue.                            *)
LEMMA FirstCallback ==
  ASSUME CallTypes, queue # <<>>, queue' = Tail(queue)
  PROVE  /\ queue' \in Seq(EntryType) /\ 1 \in DOMAIN queue /\ Head(queue) = queue[1]
         /\ \A i \in DOMAIN queue' : /\ i + 1 \in DOMAIN queue /\ i + 1 # 1
                                     /\ queue'[i] = queue[i + 1] /\ i \in Nat
<1>1. queue \in Seq(EntryType)
  BY DEF CallTypes
<1>2. Len(queue) \in Nat /\ Len(queue) > 0 /\ DOMAIN queue = 1..Len(queue)
  BY <1>1
<1>3. Len(queue') = Len(queue) - 1 /\ DOMAIN queue' = 1..Len(queue) - 1
  BY <1>1, <1>2
<1>4. \A i \in DOMAIN queue' : queue'[i] = queue[i + 1]
  BY <1>1, <1>2, <1>3
<1>5. queue' \in Seq(EntryType) /\ Head(queue) = queue[1]
  BY <1>1
<1> QED
  BY <1>2, <1>3, <1>4, <1>5

(* A callback whose sound still waits for it is not stale.                  *)
LEMMA OwnCallbackIsNotStale ==
  ASSUME SoundInv, NEW i \in DOMAIN queue, NEW v \in Voice,
         voice[v].on, voice[v].id = queue[i].id, queue[i].id \notin lost
  PROVE  v = queue[i].voice /\ Ended(queue[i]) /\ ~Stale(queue[i])
<1>1. v = queue[i].voice /\ Ended(queue[i])
  BY DEF SoundInv, CallbacksWait
<1> QED
  BY <1>1 DEF Ended, Stale

(* The callbacks that are left wait as before, once a voice that waited for *)
(* its own has been told from the one the step touched.                     *)
LEMMA OthersStillWait ==
  ASSUME SoundInv, queue # <<>>, queue' = Tail(queue), lost \subseteq lost',
         \A v \in Voice : voice'[v].on /\ voice'[v].id \notin lost' =>
           \/ /\ voice'[v] = voice[v]
              /\ mix'[v] = mix[v] \/ ~mix[v].ended
           \/ \A j \in DOMAIN queue : j # 1 => queue[j].id # voice'[v].id
  PROVE  CallbacksWait'
<1>0. CallTypes
  BY DEF SoundInv, TypeOK
<1>1. \A i \in DOMAIN queue' : /\ i + 1 \in DOMAIN queue /\ i + 1 # 1
                               /\ queue'[i] = queue[i + 1] /\ i \in Nat
  BY <1>0, FirstCallback
<1>2. ASSUME NEW i \in DOMAIN queue', NEW v \in Voice,
             voice'[v].on, voice'[v].id = queue'[i].id, queue'[i].id \notin lost'
      PROVE  v = queue'[i].voice /\ Ended(queue[i])'
  <2>1. PICK j \in DOMAIN queue : j # 1 /\ queue'[i] = queue[j]
    BY <1>1
  <2>2. voice'[v] = voice[v] /\ (mix'[v] = mix[v] \/ ~mix[v].ended)
    BY <1>2, <2>1
  <2>3. v = queue[j].voice /\ Ended(queue[j])
    BY <1>2, <2>1, <2>2, OwnCallbackIsNotStale
  <2>4. mix'[v] = mix[v]
    BY <2>2, <2>3 DEF Ended
  <2> QED
    BY <2>1, <2>2, <2>3, <2>4 DEF Ended
<1>3. ASSUME NEW i \in DOMAIN queue', NEW j \in DOMAIN queue',
             queue'[i].id = queue'[j].id, queue'[i].id \notin lost'
      PROVE  i = j
  <2>1. i + 1 = j + 1
    <3>1. /\ i + 1 \in DOMAIN queue /\ j + 1 \in DOMAIN queue
          /\ queue'[i] = queue[i + 1] /\ queue'[j] = queue[j + 1]
      BY <1>1
    <3> QED
      BY <1>3, <3>1 DEF SoundInv, CallbacksWait
  <2> QED
    BY <1>1, <2>1
<1> QED
  BY <1>2, <1>3 DEF CallbacksWait

(* What every delivery leaves of the records.                               *)
LEMMA RecordsAfterDelivery ==
  ASSUME SoundInv, NEW R, R \subseteq Record, rec' = Dropped(R),
         UNCHANGED <<desc, game, plays>>, lost \subseteq lost',
         \A r \in R : rec[r].live /\ rec[r].id = plays /\ game.pc # "idle" => plays \in lost'
  PROVE  /\ RecordTypes' /\ LocksSuffice'
         /\ \A r \in Record : rec'[r].loud \/ (rec'[r].live /\ ~Starting(r)') => rec'[r].len > 0
         /\ \A r \in Record : rec'[r].live => rec'[r].id \in 1..plays
         /\ \A r, q \in Record : rec'[r].live /\ rec'[q].live /\ rec'[r].id = rec'[q].id => r = q
         /\ game.pc # "idle" => /\ rec'[game.rec].live => rec'[game.rec].id = plays
                                /\ plays \notin lost' => rec'[game.rec].live
         /\ \A r \in Record : Starting(r)' = Starting(r)
         /\ \A r \in Record : rec'[r].live => rec'[r] = rec[r] /\ r \notin R
         /\ \A r \in Record : r \notin R => rec'[r] = rec[r]
<1>0. RecordTypes /\ CallTypes
  BY DEF SoundInv, TypeOK
<1>1. /\ rec' \in [Record -> RecordType]
      /\ \A r \in Record : /\ rec'[r].slot = rec[r].slot /\ rec'[r].voice = rec[r].voice
                           /\ rec'[r].len = rec[r].len /\ rec'[r].loud = rec[r].loud
      /\ \A r \in Record : r \in R => ~rec'[r].live /\ rec'[r].id = 0
      /\ \A r \in Record : r \notin R => rec'[r] = rec[r]
  BY <1>0, DroppedFields
<1>2. \A r \in Record : rec'[r].live => rec'[r] = rec[r] /\ r \notin R
  BY <1>1
<1>3. \A r \in Record : Starting(r)' = Starting(r)
  BY DEF Starting
<1>4. RecordTypes'
  BY <1>0, <1>1 DEF RecordTypes
<1>5. LocksSuffice'
  <2>1. ASSUME NEW s \in Slot PROVE Users(s)' \subseteq Users(s)
    BY <1>2, <1>3 DEF Users
  <2>2. Begun' = Begun /\ Begun \in Nat
    <3>1. plays \in Nat /\ (game.pc # "idle" => plays > 0)
      BY <1>0, GameFields DEF SoundInv, StartIsAhead
    <3> QED
      BY <3>1 DEF Begun
  <2>3. ASSUME MaxPlays < LockMod, NEW s \in Slot
        PROVE  desc'[s] = desc[s] /\ desc[s].lock <= desc[s].lock
               /\ Cardinality(Users(s)') <= desc[s].lock
    <3>1. Users(s) \subseteq Record /\ Users(s)' \subseteq Users(s)
      BY <2>1 DEF Users
    <3>2. Cardinality(Users(s)') <= Cardinality(Users(s)) /\ Cardinality(Users(s)) \in Nat
          /\ Cardinality(Users(s)') \in Nat
      BY <3>1, RecordSets
    <3>3. Cardinality(Users(s)) <= desc[s].lock /\ desc[s].lock \in Nat
      BY <1>0, <2>3, DescFields DEF SoundInv, LocksSuffice
    <3> QED
      BY <3>2, <3>3
  <2>4. desc' \in [Slot -> DescType]
    BY <1>0 DEF RecordTypes
  <2>5. Begun <= Begun' /\ Begun' \in Nat
    BY <2>2
  <2> QED
    BY <1>1, <2>1, <2>2, <2>3, <2>4, <2>5, LocksKept
<1>6. \A r \in Record : rec'[r].loud \/ (rec'[r].live /\ ~Starting(r)') => rec'[r].len > 0
  BY <1>1, <1>2, <1>3 DEF SoundInv, CursorsAgree
<1>7. /\ \A r \in Record : rec'[r].live => rec'[r].id \in 1..plays
      /\ \A r, q \in Record : rec'[r].live /\ rec'[q].live /\ rec'[r].id = rec'[q].id => r = q
  BY <1>2 DEF SoundInv, SoundsAreCounted
<1>8. ASSUME game.pc # "idle"
      PROVE  /\ rec'[game.rec].live => rec'[game.rec].id = plays
             /\ plays \notin lost' => rec'[game.rec].live
  <2>1. PICK g \in Record : g = game.rec
    BY <1>0, GameFields
  <2>2. rec[g].live => rec[g].id = plays
    BY <1>8, <2>1 DEF SoundInv, StartIsAhead
  <2>3. plays \notin lost => rec[g].live
    BY <1>8, <2>1 DEF SoundInv, StartIsAhead
  <2> QED
    BY <1>1, <1>2, <1>8, <2>1, <2>2, <2>3
<1> QED
  BY <1>1, <1>2, <1>3, <1>4, <1>5, <1>6, <1>7, <1>8

(* A stale callback takes its record with it, and nothing else of a sound   *)
(* that is not lost.                                                        *)
LEMMA DropStaleKeeps ==
  ASSUME SoundInv, DropStale
  PROVE  SoundInv'
<1>0. RecordTypes /\ VoiceTypes /\ CallTypes
  BY DEF SoundInv, TypeOK
<1>1. queue # <<>> /\ queue' = Tail(queue) /\ UNCHANGED <<desc, voice, game, tick, plays>>
  BY DEF DropStale
<1>2. /\ queue' \in Seq(EntryType) /\ 1 \in DOMAIN queue /\ Head(queue) = queue[1]
      /\ \A i \in DOMAIN queue' : i + 1 \in DOMAIN queue /\ queue'[i] = queue[i + 1]
  BY <1>0, <1>1, FirstCallback
<1>3. PICK e \in EntryType : e = Head(queue) /\ e = queue[1]
  BY <1>0, <1>2, EntryFields
<1>4. e.voice \in Voice /\ e.tag \in Record /\ e.id \in 1..plays
  BY <1>2, <1>3 DEF EntryType, SoundInv, SoundsAreCounted
<1>5. /\ Stale(e) /\ rec' = IF e.frees THEN Dropped({e.tag}) ELSE rec
      /\ mix' = [mix EXCEPT ![e.voice].ended = FALSE]
      /\ lost' = lost \cup Unended(e) \cup (IF e.frees THEN Foreign(e) ELSE {})
  BY <1>3 DEF DropStale
<1>6. PICK R : R = IF e.frees THEN {e.tag} ELSE {}
  OBVIOUS
<1>7. R \subseteq Record /\ rec' = Dropped(R) /\ lost \subseteq lost'
  <2>1. rec = Dropped({})
    BY <1>0 DEF Dropped, RecordTypes
  <2> QED
    BY <1>4, <1>5, <1>6, <2>1
<1>8. ASSUME NEW r \in R, rec[r].live, rec[r].id \notin lost' PROVE rec[r].id = e.id
  <2>1. e.frees /\ r = e.tag
    BY <1>6
  <2>2. rec[r].id \notin Foreign(e)
    BY <1>5, <1>8, <2>1
  <2> QED
    BY <1>4, <1>8, <2>1, <2>2 DEF Foreign
<1>9. ASSUME NEW r \in R, rec[r].live, rec[r].id = plays, game.pc # "idle" PROVE plays \in lost'
  BY <1>2, <1>3, <1>7, <1>8, <1>9 DEF SoundInv, StartIsAhead
<1>10. /\ RecordTypes' /\ LocksSuffice'
       /\ \A r \in Record : rec'[r].loud \/ (rec'[r].live /\ ~Starting(r)') => rec'[r].len > 0
       /\ \A r \in Record : rec'[r].live => rec'[r].id \in 1..plays
       /\ \A r, q \in Record : rec'[r].live /\ rec'[q].live /\ rec'[r].id = rec'[q].id => r = q
       /\ game.pc # "idle" => /\ rec'[game.rec].live => rec'[game.rec].id = plays
                              /\ plays \notin lost' => rec'[game.rec].live
       /\ \A r \in Record : Starting(r)' = Starting(r)
       /\ \A r \in Record : rec'[r].live => rec'[r] = rec[r] /\ r \notin R
       /\ \A r \in Record : r \notin R => rec'[r] = rec[r]
  BY <1>1, <1>7, <1>9, RecordsAfterDelivery
<1>11. /\ mix'[e.voice] = [act |-> mix[e.voice].act, start |-> mix[e.voice].start,
                           cur |-> mix[e.voice].cur, ended |-> FALSE, gen |-> mix[e.voice].gen]
       /\ \A v \in Voice : v # e.voice => mix'[v] = mix[v]
       /\ mix' \in [Voice -> MixType]
  <2>1. mix'[e.voice] = [mix[e.voice] EXCEPT !.ended = FALSE]
    BY <1>0, <1>4, <1>5 DEF VoiceTypes
  <2>2. mix[e.voice] \in MixType
    BY <1>0, <1>4, VoiceFields
  <2>3. mix'[e.voice] = [act |-> mix[e.voice].act, start |-> mix[e.voice].start,
                         cur |-> mix[e.voice].cur, ended |-> FALSE, gen |-> mix[e.voice].gen]
    BY <2>1, <2>2 DEF MixType
  <2>4. mix'[e.voice] \in MixType
    BY <1>0, <1>4, <2>3, VoiceFields DEF MixType
  <2>5. \A v \in Voice : v # e.voice => mix'[v] = mix[v]
    BY <1>0, <1>4, <1>5 DEF VoiceTypes
  <2>6. \A v \in Voice : mix'[v] \in MixType
    BY <1>0, <2>4, <2>5, VoiceFields
  <2>7. mix' \in [Voice -> MixType]
    BY <1>0, <1>5, <2>6 DEF VoiceTypes
  <2> QED
    BY <2>3, <2>5, <2>7
<1>12. \A v \in Voice : /\ mix'[v].act = mix[v].act /\ mix'[v].start = mix[v].start
                        /\ mix'[v].cur = mix[v].cur
                        /\ mix'[v].ended => mix[v].ended
  BY <1>11
<1>13. lost' \subseteq 1..plays
  <2>1. Unended(e) \subseteq 1..plays
    BY DEF Unended, SoundInv, SoundsAreCounted
  <2>2. Foreign(e) \subseteq 1..plays
    BY DEF Foreign, SoundInv, SoundsAreCounted
  <2> QED
    BY <1>5, <2>1, <2>2 DEF SoundInv, SoundsAreCounted
<1>14. TypeOK'
  <2>1. lost' \subseteq Nat
    <3>1. plays \in Nat
      BY <1>0, GameFields
    <3> QED
      BY <1>13, <3>1
  <2> QED
    BY <1>0, <1>1, <1>2, <1>10, <1>11, <2>1 DEF TypeOK, VoiceTypes, CallTypes
<1>15. CursorsAgree'
  <2>1. \A v \in Voice : mix'[v].ended => mix'[v].act /\ mix'[v].cur > 0
    BY <1>12 DEF SoundInv, CursorsAgree
  <2>2. ASSUME NEW v \in Voice, voice[v].on
        PROVE  voice[v].len > 0 /\ voice[v].heard = voice[v].pos /\ (Fresh(v)' \/ Tracked(v)')
    <3>1. voice[v].len > 0 /\ voice[v].heard = voice[v].pos /\ (Fresh(v) \/ Tracked(v))
      BY <2>2 DEF SoundInv, CursorsAgree
    <3>2. voice'[v] = voice[v]
      BY <1>1
    <3>3. CASE Fresh(v)
      BY <1>12, <3>1, <3>2, <3>3 DEF Fresh
    <3>4. CASE Tracked(v)
      BY <1>12, <3>1, <3>2, <3>4 DEF Tracked
    <3> QED
      BY <3>1, <3>3, <3>4
  <2> QED
    BY <1>1, <1>10, <2>1, <2>2 DEF CursorsAgree
<1>16. SoundsAreCounted'
  <2>1. \A i \in DOMAIN queue' : queue'[i].id \in 1..plays
    BY <1>2 DEF SoundInv, SoundsAreCounted
  <2> QED
    BY <1>1, <1>10, <1>13, <2>1 DEF SoundInv, SoundsAreCounted
<1>17. StartIsAhead'
  <2> SUFFICES ASSUME game.pc # "idle" PROVE StartIsAhead'
    BY <1>1 DEF StartIsAhead
  <2>1. plays > 0 /\ game.sample \in Samples
        /\ (game.pc = "start" => desc[game.slot].sample = game.sample)
    BY DEF SoundInv, StartIsAhead
  <2>2. ASSUME plays \notin lost'
        PROVE  /\ \A v \in Voice : voice[v].on => voice[v].id # plays
               /\ \A i \in DOMAIN queue' : queue'[i].id # plays
    BY <2>2, <1>2, <1>7 DEF SoundInv, StartIsAhead
  <2> QED
    BY <1>1, <1>10, <2>1, <2>2 DEF StartIsAhead
<1>18. CallbacksWait'
  <2>1. ASSUME NEW v \in Voice, voice'[v].on, voice'[v].id \notin lost'
        PROVE  voice'[v] = voice[v] /\ (mix'[v] = mix[v] \/ ~mix[v].ended)
    <3>1. ASSUME v = e.voice, mix[v].ended PROVE FALSE
      <4>1. voice[v].id \in Unended(e)
        BY <2>1, <3>1, <1>1 DEF Unended
      <4> QED
        BY <2>1, <4>1, <1>1, <1>5
    <3> QED
      BY <3>1, <1>1, <1>11
  <2> QED
    BY <1>1, <1>7, <2>1, OthersStillWait
<1>19. HalvesMatch'
  <2>1. ASSUME MaxPlays < LockMod,
               NEW r \in Record, rec'[r].live, ~Starting(r)', rec'[r].id \notin lost'
        PROVE  /\ rec'[r].voice # NoVoice
               /\ voice'[rec'[r].voice].on /\ voice'[rec'[r].voice].id = rec'[r].id
    <3>1. rec'[r] = rec[r] /\ ~Starting(r) /\ rec[r].id \notin lost
      BY <2>1, <1>7, <1>10
    <3> QED
      BY <2>1, <3>1, <1>1 DEF SoundInv, HalvesMatch, RecordsAndVoicesPair
  <2>2. ASSUME NEW v \in Voice, voice'[v].on, voice'[v].id \notin lost'
        PROVE  LET t == voice'[v].tag IN
               rec'[t].live /\ rec'[t].id = voice'[v].id /\ rec'[t].voice = v
    <3>1. voice'[v] = voice[v] /\ voice[v].id \notin lost
      BY <2>2, <1>1, <1>7
    <3>2. PICK t \in Record : t = voice[v].tag
      BY <1>0, VoiceFields
    <3>3. rec[t].live /\ rec[t].id = voice[v].id /\ rec[t].voice = v
      BY <2>2, <3>1, <3>2 DEF SoundInv, HalvesMatch, RecordsAndVoicesPair
    <3>4. t \notin R
      <4> SUFFICES ASSUME t \in R PROVE FALSE
        OBVIOUS
      <4>1. voice[v].id = e.id
        BY <2>2, <3>1, <3>3, <1>8
      <4>2. ~Stale(queue[1])
        BY <2>2, <3>1, <4>1, <1>2, <1>3, OwnCallbackIsNotStale
      <4> QED
        BY <4>2, <1>3, <1>5
    <3> QED
      BY <3>1, <3>2, <3>3, <3>4, <1>10
  <2>3. CallbacksFindTheirVoice'
    <3> SUFFICES ASSUME NEW i \in DOMAIN queue', NEW q \in Record, rec'[q].live,
                        rec'[q].id = queue'[i].id, queue'[i].id \notin lost'
                 PROVE  LET u == queue'[i].voice IN
                        rec'[q].voice = u /\ voice'[u].on /\ voice'[u].id = queue'[i].id
      BY DEF CallbacksFindTheirVoice
    <3>1. i + 1 \in DOMAIN queue /\ queue'[i] = queue[i + 1] /\ queue'[i].id \notin lost
      BY <1>2, <1>7
    <3>2. rec'[q] = rec[q] /\ voice' = voice
      BY <1>1, <1>10
    <3> QED
      BY <3>1, <3>2 DEF SoundInv, HalvesMatch, CallbacksFindTheirVoice
  <2> QED
    BY <2>1, <2>2, <2>3 DEF HalvesMatch, RecordsAndVoicesPair
<1> QED
  BY <1>10, <1>14, <1>15, <1>16, <1>17, <1>18, <1>19 DEF SoundInv

(* What Deliver does to voice v and record r for callback e: unless the     *)
(* sound of the record or of the voice is lost, both are the one that has   *)
(* ended, and the voice goes on only as the next round of its loop.         *)
DeliversTo(e, v, r) ==
  /\ e = queue[1] /\ v = e.voice /\ r = voice[v].tag /\ voice[v].on
  /\ lost' = lost \cup Foreign(e)
  /\ rec' = Dropped(IF Again(r) THEN {} ELSE {r})
  /\ rec[r].live /\ rec[r].id \notin lost' =>
       /\ ~Starting(r) /\ rec[r].id = e.id /\ voice[v].id = e.id
       /\ rec[r].voice = v /\ Ended(e)
  /\ voice[v].id \notin lost' => rec[r].live /\ rec[r].id = voice[v].id
  /\ \/ /\ Again(r) /\ desc[rec[r].slot].sample # NoSample
        /\ voice'[v] = [on |-> TRUE, tag |-> r, start |-> rec[r].slot, pos |-> 0,
                        len |-> rec[r].len, heard |-> 0, id |-> rec[r].id]
     \/ voice'[v] = voice[v] /\ voice[v].pos = 0 /\ voice[v].id \in lost'
     \/ /\ voice'[v] = Off
        /\ \/ voice[v].id \in lost'
           \/ voice[v].heard = voice[v].len /\ (MaxPlays < LockMod => ~Again(r))
  /\ mix'[v] \in MixType /\ ~mix'[v].ended
  /\ \A u \in Voice : u # v => voice'[u] = voice[u] /\ mix'[u] = mix[u]
  /\ DOMAIN voice' = Voice /\ DOMAIN mix' = Voice

(* Every delivery is one of these.                                          *)
LEMMA DeliverFacts ==
  ASSUME SoundInv, Deliver
  PROVE  \E e \in EntryType, v \in Voice, r \in Record : DeliversTo(e, v, r)
<1>0. RecordTypes /\ VoiceTypes /\ CallTypes /\ queue # <<>> /\ queue' = Tail(queue)
  BY DEF SoundInv, TypeOK, Deliver
<1>1. 1 \in DOMAIN queue /\ Head(queue) = queue[1]
  BY <1>0, FirstCallback
<1>2. PICK e \in EntryType : e = Head(queue) /\ e = queue[1]
  BY <1>0, <1>1, EntryFields
<1>3. PICK v \in Voice : v = e.voice
  BY <1>0, <1>1, <1>2, EntryFields
<1>4. PICK r \in Record : r = voice[v].tag
  BY <1>0, VoiceFields
<1>5. voice[v].on /\ e.tag = r
  BY <1>2, <1>3, <1>4 DEF Deliver, Stale
<1>6. PICK again : again = (Again(r) /\ desc[rec[r].slot].sample # NoSample)
  OBVIOUS
<1>7. PICK now : now = IF Again(r) /\ desc[rec[r].slot].sample # NoSample
                       THEN [voice[v] EXCEPT !.start = rec[r].slot, !.pos = 0,
                               !.len = rec[r].len, !.heard = 0, !.id = rec[r].id]
                       ELSE voice[v]
  OBVIOUS
<1>8. /\ rec' = IF Again(r) THEN rec ELSE Dropped({r})
      /\ voice' = [voice EXCEPT ![v] = IF now.pos = 0 THEN now ELSE Off]
      /\ mix' = [mix EXCEPT ![v] = Resolved(mix[v], now.pos = 0)]
      /\ lost' = lost \cup Foreign(e)
  BY <1>2, <1>3, <1>4, <1>7 DEF Deliver
<1>9. rec' = Dropped(IF Again(r) THEN {} ELSE {r})
  <2>1. rec = Dropped({})
    BY <1>0 DEF Dropped, RecordTypes
  <2> QED
    BY <1>8, <2>1
<1>10. /\ voice'[v] = IF now.pos = 0 THEN now ELSE Off
       /\ mix'[v] = Resolved(mix[v], now.pos = 0)
       /\ \A u \in Voice : u # v => voice'[u] = voice[u] /\ mix'[u] = mix[u]
       /\ DOMAIN voice' = Voice /\ DOMAIN mix' = Voice
  BY <1>0, <1>8 DEF VoiceTypes
<1>11. mix'[v] \in MixType /\ ~mix'[v].ended
  <2>1. PICK b \in BOOLEAN : mix'[v] = Resolved(mix[v], b)
    <3>1. CASE now.pos = 0
      <4>1. (now.pos = 0) = TRUE
        BY <3>1
      <4> QED
        BY <4>1, <1>10
    <3>2. CASE now.pos # 0
      <4>1. (now.pos = 0) = FALSE
        BY <3>2
      <4> QED
        BY <4>1, <1>10
    <3> QED
      BY <3>1, <3>2
  <2>2. mix[v] \in MixType /\ mix[v].cur \in Nat /\ mix[v].act \in BOOLEAN
        /\ mix[v].start \in Slot /\ mix[v].gen \in Nat
    BY <1>0, VoiceFields
  <2>3. CASE b = TRUE
    <3>1. mix'[v] = [mix[v] EXCEPT !.ended = FALSE, !.cur = 0, !.act = TRUE /\ mix[v].act]
      BY <2>1, <2>3 DEF Resolved
    <3>2. (TRUE /\ mix[v].act) = mix[v].act
      BY <2>2
    <3>3. mix'[v] = [act |-> mix[v].act, start |-> mix[v].start, cur |-> 0,
                     ended |-> FALSE, gen |-> mix[v].gen]
      BY <2>2, <3>1, <3>2 DEF MixType
    <3> QED
      BY <2>2, <3>3 DEF MixType
  <2>4. CASE b = FALSE
    <3>1. mix'[v] = [mix[v] EXCEPT !.ended = FALSE, !.cur = mix[v].cur,
                                   !.act = FALSE /\ mix[v].act]
      BY <2>1, <2>4 DEF Resolved
    <3>2. (FALSE /\ mix[v].act) = FALSE
      OBVIOUS
    <3>3. mix'[v] = [act |-> FALSE, start |-> mix[v].start, cur |-> mix[v].cur,
                     ended |-> FALSE, gen |-> mix[v].gen]
      BY <2>2, <3>1, <3>2 DEF MixType
    <3> QED
      BY <2>2, <3>3 DEF MixType
  <2> QED
    BY <2>3, <2>4
<1>12. ASSUME rec[r].live, rec[r].id \notin lost'
       PROVE  /\ ~Starting(r) /\ rec[r].id = e.id /\ voice[v].id = e.id
              /\ rec[r].voice = v /\ Ended(e)
  <2>1. rec[r].id = e.id /\ e.id \notin lost
    BY <1>5, <1>8, <1>12 DEF Foreign
  <2>2. ~Starting(r)
    <3>1. ASSUME Starting(r) PROVE FALSE
      <4>1. rec[r].id = plays /\ game.pc # "idle"
        BY <1>12, <3>1 DEF Starting, SoundInv, StartIsAhead
      <4> QED
        BY <1>1, <1>2, <2>1, <4>1 DEF SoundInv, StartIsAhead
    <3> QED
      BY <3>1
  <2>3. rec[r].voice = v /\ voice[v].on /\ voice[v].id = e.id
    BY <1>1, <1>2, <1>3, <1>12, <2>1 DEF SoundInv, HalvesMatch, CallbacksFindTheirVoice
  <2>4. Ended(e)
    BY <1>1, <1>2, <2>1, <2>3, OwnCallbackIsNotStale
  <2> QED
    BY <2>1, <2>2, <2>3, <2>4
<1>13. ASSUME voice[v].id \notin lost' PROVE rec[r].live /\ rec[r].id = voice[v].id
  <2>1. voice[v].id \notin lost
    BY <1>8, <1>13
  <2> QED
    BY <1>4, <1>5, <2>1 DEF SoundInv, HalvesMatch, RecordsAndVoicesPair
<1>14. ASSUME voice[v].id \notin lost'
       PROVE  /\ voice[v].pos = voice[v].len /\ voice[v].pos > 0
              /\ voice[v].heard = voice[v].len
              /\ MaxPlays < LockMod => desc[rec[r].slot].sample # NoSample
  <2>1. rec[r].live /\ rec[r].id \notin lost'
    BY <1>13, <1>14
  <2>2. ~Starting(r) /\ Ended(e)
    BY <1>12, <2>1
  <2>3. voice[v].pos = voice[v].len
    BY <1>3, <2>2 DEF Ended
  <2>4. voice[v].len > 0 /\ voice[v].heard = voice[v].pos
    BY <1>5 DEF SoundInv, CursorsAgree
  <2>5. MaxPlays < LockMod => desc[rec[r].slot].sample # NoSample
    BY <2>1, <2>2, RecordHasSample
  <2> QED
    BY <2>3, <2>4, <2>5
<1>15. \/ /\ Again(r) /\ desc[rec[r].slot].sample # NoSample
          /\ voice'[v] = [on |-> TRUE, tag |-> r, start |-> rec[r].slot, pos |-> 0,
                          len |-> rec[r].len, heard |-> 0, id |-> rec[r].id]
       \/ /\ voice'[v] = voice[v] /\ voice[v].pos = 0 /\ voice[v].id \in lost'
       \/ /\ voice'[v] = Off
          /\ \/ voice[v].id \in lost'
             \/ voice[v].heard = voice[v].len /\ (MaxPlays < LockMod => ~Again(r))
  <2>1. CASE Again(r) /\ desc[rec[r].slot].sample # NoSample
    <3>1. now = [voice[v] EXCEPT !.start = rec[r].slot, !.pos = 0,
                   !.len = rec[r].len, !.heard = 0, !.id = rec[r].id]
      BY <2>1, <1>7
    <3>2. voice[v] \in VoiceType
      BY <1>0, VoiceFields
    <3>3. now = [on |-> TRUE, tag |-> r, start |-> rec[r].slot, pos |-> 0,
                 len |-> rec[r].len, heard |-> 0, id |-> rec[r].id]
      BY <3>1, <3>2, <1>4, <1>5 DEF VoiceType
    <3>4. now.pos = 0
      BY <3>3
    <3> QED
      BY <2>1, <3>3, <3>4, <1>10
  <2>2. CASE ~(Again(r) /\ desc[rec[r].slot].sample # NoSample)
    <3>1. now = voice[v]
      BY <2>2, <1>7
    <3>2. CASE voice[v].pos = 0
      <4>1. voice[v].id \in lost'
        BY <3>2, <1>14
      <4> QED
        BY <3>1, <3>2, <4>1, <1>10
    <3>3. CASE voice[v].pos # 0
      <4>1. voice'[v] = Off
        BY <3>1, <3>3, <1>10
      <4> QED
        BY <4>1, <2>2, <1>14
    <3> QED
      BY <3>2, <3>3
  <2> QED
    BY <2>1, <2>2
<1>16. /\ e = queue[1] /\ v = e.voice /\ r = voice[v].tag /\ voice[v].on
       /\ lost' = lost \cup Foreign(e)
  BY <1>2, <1>3, <1>4, <1>5, <1>8
<1> HIDE <1>2, <1>3, <1>4, <1>5, <1>6, <1>7, <1>8
<1>17. DeliversTo(e, v, r)
  BY <1>9, <1>10, <1>11, <1>12, <1>13, <1>15, <1>16 DEF DeliversTo
<1> QED
  BY <1>17

(* A delivery keeps the invariant.                                          *)
LEMMA DeliverKeeps ==
  ASSUME SoundInv, Deliver
  PROVE  SoundInv'
<1>0. RecordTypes /\ VoiceTypes /\ CallTypes
  BY DEF SoundInv, TypeOK
<1>1. PICK e \in EntryType, v \in Voice, r \in Record : DeliversTo(e, v, r)
  BY DeliverFacts
<1>2. /\ e = queue[1] /\ v = e.voice /\ r = voice[v].tag /\ voice[v].on
      /\ lost' = lost \cup Foreign(e) /\ lost \subseteq lost'
  BY <1>1 DEF DeliversTo
<1>3. rec[r].live /\ rec[r].id \notin lost' =>
        ~Starting(r) /\ rec[r].id = e.id /\ voice[v].id = e.id /\ rec[r].voice = v
  BY <1>1 DEF DeliversTo
<1>4. voice[v].id \notin lost' => rec[r].live /\ rec[r].id = voice[v].id
  BY <1>1 DEF DeliversTo
<1>5. \/ /\ Again(r) /\ desc[rec[r].slot].sample # NoSample
         /\ voice'[v] = [on |-> TRUE, tag |-> r, start |-> rec[r].slot, pos |-> 0,
                         len |-> rec[r].len, heard |-> 0, id |-> rec[r].id]
      \/ voice'[v] = voice[v] /\ voice[v].pos = 0 /\ voice[v].id \in lost'
      \/ /\ voice'[v] = Off
         /\ MaxPlays < LockMod => ~Again(r) \/ voice[v].id \in lost'
  BY <1>1 DEF DeliversTo
<1>6. /\ mix'[v] \in MixType /\ ~mix'[v].ended
      /\ \A u \in Voice : u # v => voice'[u] = voice[u] /\ mix'[u] = mix[u]
      /\ DOMAIN voice' = Voice /\ DOMAIN mix' = Voice
  BY <1>1 DEF DeliversTo
<1>7. /\ queue # <<>> /\ queue' = Tail(queue) /\ tick' = "idle"
      /\ UNCHANGED <<desc, game, plays>>
  BY DEF Deliver
<1>8. /\ queue' \in Seq(EntryType) /\ 1 \in DOMAIN queue
      /\ \A i \in DOMAIN queue' : i + 1 \in DOMAIN queue /\ queue'[i] = queue[i + 1]
  BY <1>0, <1>7, FirstCallback
<1>9. PICK R : R = IF Again(r) THEN {} ELSE {r}
  OBVIOUS
<1>10. R \subseteq Record /\ rec' = Dropped(R)
  BY <1>1, <1>9 DEF DeliversTo
<1>11. ASSUME plays \notin lost', game.pc # "idle"
       PROVE  e.id # plays
  BY <1>2, <1>8, <1>11 DEF SoundInv, StartIsAhead
<1>12. ASSUME NEW q \in R, rec[q].live, rec[q].id = plays, game.pc # "idle"
       PROVE  plays \in lost'
  BY <1>3, <1>9, <1>11, <1>12
<1>13. /\ RecordTypes' /\ LocksSuffice'
       /\ \A q \in Record : rec'[q].loud \/ (rec'[q].live /\ ~Starting(q)') => rec'[q].len > 0
       /\ \A q \in Record : rec'[q].live => rec'[q].id \in 1..plays
       /\ \A p, q \in Record : rec'[p].live /\ rec'[q].live /\ rec'[p].id = rec'[q].id => p = q
       /\ game.pc # "idle" => /\ rec'[game.rec].live => rec'[game.rec].id = plays
                              /\ plays \notin lost' => rec'[game.rec].live
       /\ \A q \in Record : Starting(q)' = Starting(q)
       /\ \A q \in Record : rec'[q].live => rec'[q] = rec[q] /\ q \notin R
       /\ \A q \in Record : q \notin R => rec'[q] = rec[q]
  BY <1>2, <1>7, <1>10, <1>12, RecordsAfterDelivery
<1>14. \/ /\ Again(r) /\ voice'[v].on /\ voice'[v].tag = r /\ voice'[v].pos = 0
          /\ voice'[v].len = rec[r].len /\ voice'[v].heard = 0 /\ voice'[v].id = rec[r].id
       \/ voice'[v] = voice[v] /\ voice[v].pos = 0 /\ voice[v].id \in lost'
       \/ ~voice'[v].on /\ (MaxPlays < LockMod => ~Again(r) \/ voice[v].id \in lost')
  <2>1. CASE Again(r) /\ voice'[v] = [on |-> TRUE, tag |-> r, start |-> rec[r].slot, pos |-> 0,
                                      len |-> rec[r].len, heard |-> 0, id |-> rec[r].id]
    BY <2>1
  <2>2. CASE /\ voice'[v] = Off
             /\ MaxPlays < LockMod => ~Again(r) \/ voice[v].id \in lost'
    BY <2>2 DEF Off
  <2> QED
    BY <1>5, <2>1, <2>2
<1>15. ASSUME voice'[v].on, voice'[v].id \notin lost'
       PROVE  /\ voice'[v].tag = r /\ voice'[v].id = rec[r].id /\ rec[r].id = e.id
              /\ rec[r].live /\ rec[r].voice = v /\ rec'[r] = rec[r]
  <2>1. /\ Again(r) /\ voice'[v].tag = r /\ voice'[v].id = rec[r].id
    BY <1>14, <1>15
  <2>2. rec[r].live /\ rec'[r] = rec[r]
    BY <2>1, <1>9, <1>13 DEF Again
  <2> QED
    BY <2>1, <2>2, <1>3, <1>15
<1>16. lost' \subseteq 1..plays
  <2>1. Foreign(e) \subseteq 1..plays
    BY DEF Foreign, SoundInv, SoundsAreCounted
  <2> QED
    BY <1>2, <2>1 DEF SoundInv, SoundsAreCounted
<1>17. TypeOK'
  <2>1. voice'[v] \in VoiceType
    <3>1. voice[v] \in VoiceType /\ Off \in VoiceType
      BY <1>0, VoiceFields, ConstantsAreNumbers DEF Off, VoiceType
    <3>2. [on |-> TRUE, tag |-> r, start |-> rec[r].slot, pos |-> 0,
           len |-> rec[r].len, heard |-> 0, id |-> rec[r].id] \in VoiceType
      BY <1>0, RecordFields DEF VoiceType
    <3> QED
      BY <1>5, <3>1, <3>2
  <2>2. \A u \in Voice : voice'[u] \in VoiceType /\ mix'[u] \in MixType
    BY <1>0, <1>6, <2>1, VoiceFields
  <2>3. voice' \in [Voice -> VoiceType] /\ mix' \in [Voice -> MixType]
    <3>1. voice' = [u \in Voice |-> voice'[u]] /\ mix' = [u \in Voice |-> mix'[u]]
      BY <1>0 DEF Deliver, VoiceTypes
    <3> QED
      BY <2>2, <3>1
  <2>4. lost' \subseteq Nat
    <3>1. plays \in Nat
      BY <1>0, GameFields
    <3> QED
      BY <1>16, <3>1
  <2> QED
    BY <1>0, <1>7, <1>8, <1>13, <2>3, <2>4 DEF TypeOK, VoiceTypes, CallTypes
<1>18. CursorsAgree'
  <2>1. ASSUME NEW u \in Voice
        PROVE  /\ mix'[u].ended => mix'[u].act /\ mix'[u].cur > 0
               /\ voice'[u].on => /\ voice'[u].len > 0 /\ voice'[u].heard = voice'[u].pos
                                  /\ Fresh(u)' \/ Tracked(u)'
    <3>1. CASE u # v
      BY <3>1, <1>6 DEF SoundInv, CursorsAgree, Fresh, Tracked
    <3>2. CASE u = v
      <4>1. ASSUME voice'[v].on
            PROVE  voice'[v].len > 0 /\ voice'[v].heard = 0 /\ voice'[v].pos = 0
        <5>1. CASE /\ Again(r) /\ voice'[v].pos = 0
                   /\ voice'[v].len = rec[r].len /\ voice'[v].heard = 0
          BY <5>1 DEF Again, SoundInv, CursorsAgree
        <5>2. CASE voice'[v] = voice[v] /\ voice[v].pos = 0
          BY <5>2, <1>2 DEF SoundInv, CursorsAgree
        <5> QED
          BY <1>14, <4>1, <5>1, <5>2
      <4>2. voice'[v].pos = 0 => Fresh(v)'
        BY <1>6 DEF Fresh
      <4> QED
        BY <3>2, <4>1, <4>2, <1>6
    <3> QED
      BY <3>1, <3>2
  <2> QED
    BY <1>13, <2>1 DEF CursorsAgree
<1>19. SoundsAreCounted'
  <2>1. \A i \in DOMAIN queue' : queue'[i].id \in 1..plays
    BY <1>8 DEF SoundInv, SoundsAreCounted
  <2>2. ASSUME NEW u \in Voice, voice'[u].on PROVE voice'[u].id \in 1..plays
    <3>1. CASE u # v
      BY <2>2, <3>1, <1>6 DEF SoundInv, SoundsAreCounted
    <3>2. CASE u = v
      BY <2>2, <3>2, <1>2, <1>14 DEF Again, SoundInv, SoundsAreCounted
    <3> QED
      BY <3>1, <3>2
  <2> QED
    BY <1>7, <1>13, <1>16, <2>1, <2>2 DEF SoundsAreCounted
<1>20. StartIsAhead'
  <2> SUFFICES ASSUME game.pc # "idle" PROVE StartIsAhead'
    BY <1>7 DEF StartIsAhead
  <2>1. plays > 0 /\ game.sample \in Samples
        /\ (game.pc = "start" => desc[game.slot].sample = game.sample)
    BY DEF SoundInv, StartIsAhead
  <2>2. ASSUME plays \notin lost'
        PROVE  /\ \A u \in Voice : voice'[u].on => voice'[u].id # plays
               /\ \A i \in DOMAIN queue' : queue'[i].id # plays
    <3>1. /\ \A u \in Voice : voice[u].on => voice[u].id # plays
          /\ \A i \in DOMAIN queue : queue[i].id # plays
      BY <2>2, <1>2 DEF SoundInv, StartIsAhead
    <3>2. ASSUME NEW u \in Voice, voice'[u].on PROVE voice'[u].id # plays
      <4>1. CASE u # v
        BY <3>1, <3>2, <4>1, <1>6
      <4>2. CASE u = v
        BY <2>2, <3>2, <4>2, <1>11, <1>15
      <4> QED
        BY <4>1, <4>2
    <3> QED
      BY <3>1, <3>2, <1>8
  <2> QED
    BY <1>7, <1>13, <2>1, <2>2 DEF StartIsAhead
<1>21. CallbacksWait'
  <2>1. ASSUME NEW u \in Voice, voice'[u].on, voice'[u].id \notin lost'
        PROVE  \/ /\ voice'[u] = voice[u]
                  /\ mix'[u] = mix[u] \/ ~mix[u].ended
               \/ \A j \in DOMAIN queue : j # 1 => queue[j].id # voice'[u].id
    <3>1. CASE u # v
      BY <3>1, <1>6
    <3>2. CASE u = v
      <4>1. voice'[u].id = queue[1].id /\ queue[1].id \notin lost
        BY <2>1, <3>2, <1>2, <1>15
      <4>2. \A j \in DOMAIN queue : queue[j].id = queue[1].id => j = 1
        BY <4>1, <1>8 DEF SoundInv, CallbacksWait
      <4> QED
        BY <4>1, <4>2
    <3> QED
      BY <3>1, <3>2
  <2> QED
    BY <1>2, <1>7, <2>1, OthersStillWait
<1>22. HalvesMatch'
  <2>1. ASSUME MaxPlays < LockMod,
               NEW q \in Record, rec'[q].live, ~Starting(q)', rec'[q].id \notin lost'
        PROVE  /\ rec'[q].voice # NoVoice
               /\ voice'[rec'[q].voice].on /\ voice'[rec'[q].voice].id = rec'[q].id
    <3>1. rec'[q] = rec[q] /\ q \notin R /\ ~Starting(q) /\ rec[q].id \notin lost
      BY <2>1, <1>2, <1>13
    <3>2. rec[q].voice # NoVoice /\ voice[rec[q].voice].on /\ voice[rec[q].voice].id = rec[q].id
      BY <2>1, <3>1 DEF SoundInv, HalvesMatch, RecordsAndVoicesPair
    <3>3. rec[q].voice \in Voice
      BY <1>0, <3>2, RecordFields, ConstantsAreNumbers DEF Voice, NoVoice
    <3>4. CASE rec[q].voice # v
      BY <3>1, <3>2, <3>3, <3>4, <1>6
    <3>5. CASE rec[q].voice = v
      <4>1. rec[r].live /\ rec[r].id = voice[v].id /\ voice[v].id \notin lost'
        BY <2>1, <3>1, <3>2, <3>5, <1>4
      <4>2. r = q
        BY <2>1, <3>1, <3>2, <3>5, <4>1 DEF SoundInv, SoundsAreCounted
      <4>3. Again(r)
        BY <3>1, <4>2, <1>9
      <4>4. voice'[v].on /\ voice'[v].id = rec[r].id
        BY <2>1, <4>1, <4>3, <1>14
      <4> QED
        BY <3>1, <3>2, <3>5, <4>2, <4>4
    <3> QED
      BY <3>4, <3>5
  <2>2. ASSUME NEW u \in Voice, voice'[u].on, voice'[u].id \notin lost'
        PROVE  LET t == voice'[u].tag IN
               rec'[t].live /\ rec'[t].id = voice'[u].id /\ rec'[t].voice = u
    <3>1. CASE u = v
      BY <2>2, <3>1, <1>15
    <3>2. CASE u # v
      <4>1. voice'[u] = voice[u] /\ voice[u].id \notin lost
        BY <2>2, <3>2, <1>2, <1>6
      <4>2. PICK t \in Record : t = voice[u].tag
        BY <1>0, VoiceFields
      <4>3. rec[t].live /\ rec[t].id = voice[u].id /\ rec[t].voice = u
        BY <2>2, <4>1, <4>2 DEF SoundInv, HalvesMatch, RecordsAndVoicesPair
      <4>4. t # r
        BY <2>2, <3>2, <4>1, <4>3, <1>3
      <4>5. rec'[t] = rec[t]
        BY <4>4, <1>9, <1>13
      <4> QED
        BY <4>1, <4>2, <4>3, <4>5
    <3> QED
      BY <3>1, <3>2
  <2>3. CallbacksFindTheirVoice'
    <3> SUFFICES ASSUME NEW i \in DOMAIN queue', NEW q \in Record, rec'[q].live,
                        rec'[q].id = queue'[i].id, queue'[i].id \notin lost'
                 PROVE  LET u == queue'[i].voice IN
                        rec'[q].voice = u /\ voice'[u].on /\ voice'[u].id = queue'[i].id
      BY DEF CallbacksFindTheirVoice
    <3>1. PICK j \in DOMAIN queue : j # 1 /\ queue'[i] = queue[j]
      BY <1>0, <1>7, FirstCallback
    <3>2. PICK w \in Voice : w = queue[j].voice
      BY <1>0, EntryFields
    <3>3. rec'[q] = rec[q] /\ q \notin R /\ queue[j].id \notin lost
      BY <3>1, <1>2, <1>13
    <3>4. rec[q].voice = w /\ voice[w].on /\ voice[w].id = queue[j].id
      BY <3>1, <3>2, <3>3 DEF SoundInv, HalvesMatch, CallbacksFindTheirVoice
    <3>5. w # v
      <4> SUFFICES ASSUME w = v PROVE FALSE
        OBVIOUS
      <4>1. rec[r].live /\ rec[r].id = queue[j].id
        BY <3>1, <3>4, <1>4
      <4>2. queue[j].id = e.id
        BY <3>1, <4>1, <1>3
      <4> QED
        BY <3>1, <3>3, <4>2, <1>2, <1>8 DEF SoundInv, CallbacksWait
    <3> QED
      BY <3>1, <3>2, <3>3, <3>4, <3>5, <1>6
  <2> QED
    BY <2>1, <2>2, <2>3 DEF HalvesMatch, RecordsAndVoicesPair
<1> QED
  BY <1>13, <1>17, <1>18, <1>19, <1>20, <1>21, <1>22 DEF SoundInv

(* Nothing but the half of the tick that is due changes.                    *)
LEMMA TickKeeps ==
  ASSUME SoundInv, UNCHANGED <<rec, desc, voice, mix, queue, game, plays, lost>>,
         tick' \in {"idle", "deliver"}
  PROVE  SoundInv'
<1>1. TypeOK'
  BY DEF SoundInv, TypeOK, RecordTypes, VoiceTypes, CallTypes
<1>2. CursorsAgree' /\ SoundsAreCounted'
  BY DEF SoundInv, CursorsAgree, Starting, Fresh, Tracked, SoundsAreCounted
<1>3. StartIsAhead' /\ CallbacksWait'
  BY DEF SoundInv, StartIsAhead, CallbacksWait, Ended
<1>4. \A r \in Record : Starting(r)' = Starting(r)
  BY DEF Starting
<1>5. LocksSuffice'
  <2>1. \A s \in Slot : Users(s)' = Users(s)
    BY <1>4 DEF Users
  <2> QED
    BY <2>1 DEF SoundInv, LocksSuffice, Begun
<1>6. HalvesMatch'
  BY <1>4 DEF SoundInv, HalvesMatch, RecordsAndVoicesPair, CallbacksFindTheirVoice
<1> QED
  BY <1>1, <1>2, <1>3, <1>5, <1>6 DEF SoundInv

-----------------------------------------------------------------------------
(* The theorems.                                                            *)

(* Every step keeps the invariant.                                          *)
LEMMA NextSound ==
  ASSUME SoundInv, [Next]_vars
  PROVE  SoundInv'
<1>1. ASSUME NEW x \in Samples, Claim(x, FALSE) PROVE SoundInv'
  BY <1>1, ClaimKeeps
<1>2. ASSUME NEW x \in Looping, Claim(x, TRUE) PROVE SoundInv'
  <2>1. x \in Samples
    BY SoundAssumption
  <2> QED
    BY <1>2, <2>1, ClaimKeeps
<1>3. CASE Resolve
  BY <1>3, ResolveKeeps
<1>4. ASSUME NEW s \in Slot, Load(s) \/ EvictUnlocked(s) \/ EvictLocked(s) PROVE SoundInv'
  BY <1>4, LoadKeeps, EvictUnlockedKeeps, EvictLockedKeeps
<1>5. CASE LoadFails
  BY <1>5, LoadFailsKeeps
<1>6. CASE Start
  BY <1>6, StartKeeps
<1>7. ASSUME NEW r \in Record, Stop(r) \/ Fade(r) PROVE SoundInv'
  BY <1>7, StopKeeps, FadeKeeps
<1>8. CASE Flush
  BY <1>8, FlushKeeps
<1>9. CASE MixVoices
  BY <1>9, MixKeeps
<1>10. CASE Cushioned
  BY <1>10, TickKeeps DEF Cushioned
<1>11. CASE DropStale
  BY <1>11, DropStaleKeeps
<1>12. CASE Deliver
  BY <1>12, DeliverKeeps
<1>13. CASE DeliverNone
  BY <1>13, TickKeeps DEF DeliverNone
<1>14. CASE UNCHANGED vars
  <2>1. UNCHANGED <<rec, desc, voice, mix, queue, game, plays, lost>> /\ tick' = tick
    BY <1>14 DEF vars
  <2>2. tick \in {"idle", "deliver"}
    BY DEF SoundInv, TypeOK, CallTypes
  <2> QED
    BY <2>1, <2>2, TickKeeps
<1> QED
  BY <1>1, <1>2, <1>3, <1>4, <1>5, <1>6, <1>7, <1>8, <1>9, <1>10, <1>11, <1>12, <1>13, <1>14
  DEF Next, Delivery

(* A tick that turns a voice off has heard its sound out, or has lost it.   *)
LEMMA TickHearsOut ==
  ASSUME SoundInv, [Next]_vars, NEW v \in Voice, voice[v].on, ~voice'[v].on, tick' # tick
  PROVE  IF tick = "idle" THEN Heard(v) = voice[v].len
         ELSE voice[v].heard = voice[v].len \/ voice[v].id \in lost'
<1>1. CASE MixVoices
  <2>1. tick = "idle"
    BY <1>1 DEF MixVoices
  <2>2. v \in Ending
    <3>1. ASSUME v \notin Ending PROVE FALSE
      <4>1. Seen(v).ended \/ (Mixes(v) /\ v \notin Ending \ Queued)
        BY <3>1 DEF Mixes
      <4>2. voice'[v].on
        BY <1>1, <4>1, MixedVoice, MixedFields
      <4> QED
        BY <4>2
    <3> QED
      BY <3>1
  <2>3. Cursor(v) = voice[v].len
    BY <2>2 DEF Ending
  <2> QED
    BY <2>1, <2>3, SeenAgrees
<1>2. CASE Deliver
  <2>1. tick = "deliver"
    BY <1>2 DEF Deliver
  <2>2. PICK e \in EntryType, w \in Voice, r \in Record : DeliversTo(e, w, r)
    BY <1>2, DeliverFacts
  <2>3. /\ \A u \in Voice : u # w => voice'[u] = voice[u]
        /\ \/ voice'[w] = [on |-> TRUE, tag |-> r, start |-> rec[r].slot, pos |-> 0,
                           len |-> rec[r].len, heard |-> 0, id |-> rec[r].id]
           \/ voice'[w] = voice[w]
           \/ voice[w].heard = voice[w].len \/ voice[w].id \in lost'
    BY <2>2 DEF DeliversTo
  <2>4. w = v
    BY <2>3
  <2>5. voice[v].heard = voice[v].len \/ voice[v].id \in lost'
    BY <2>3, <2>4
  <2> QED
    BY <2>1, <2>5
<1>3. CASE voice' = voice
  BY <1>3
<1>4. voice' = voice \/ MixVoices \/ Deliver
  BY DEF Next, vars, Delivery, Claim, Resolve, Load, EvictUnlocked, EvictLocked, LoadFails,
         Start, Stop, Fade, Flush, Cushioned, DropStale, DeliverNone
<1> QED
  BY <1>1, <1>2, <1>3, <1>4

(* Cursors, ids, callbacks, records and voices are always as the invariant  *)
(* says, however often a sample is played; locks, and what hangs on them,   *)
(* as long as no descriptor is locked more often than a lock counts.        *)
THEOREM SoundInvariant == Spec => []SoundInv
<1>1. Init => SoundInv
  BY InitSound
<1>2. SoundInv /\ [Next]_vars => SoundInv'
  BY NextSound
<1> QED
  BY <1>1, <1>2, PTL DEF Spec

(* A live record and a voice that is on are two halves of one sound, unless *)
(* the sound is one of those that lost a half to another.                   *)
THEOREM SoundPairs ==
  ASSUME MaxPlays < LockMod
  PROVE  Spec => []RecordsAndVoicesPair
<1>1. SoundInv => RecordsAndVoicesPair
  BY DEF SoundInv, HalvesMatch
<1> QED
  BY <1>1, SoundInvariant, PTL

(* No eviction and no flush frees the sample of a sound that can still be   *)
(* stopped.                                                                 *)
THEOREM SoundSamples ==
  ASSUME MaxPlays < LockMod
  PROVE  Spec => []LiveRecordsKeepTheirSample
<1>1. SoundInv => LiveRecordsKeepTheirSample
  BY RecordHasSample DEF LiveRecordsKeepTheirSample
<1> QED
  BY <1>1, SoundInvariant, PTL

(* No tick cuts a sound that is not lost, even when locks overflow.         *)
THEOREM SoundHeardInFull == Spec => SoundsAreHeardInFull
<1>1. SoundInv /\ [Next]_vars =>
        [\A v \in Voice : voice[v].on /\ ~voice'[v].on /\ tick' # tick
           => IF tick = "idle" THEN Heard(v) = voice[v].len
              ELSE voice[v].heard = voice[v].len \/ voice[v].id \in lost']_vars
  BY TickHearsOut
<1> QED
  BY <1>1, SoundInvariant, PTL DEF Spec, SoundsAreHeardInFull
=============================================================================
