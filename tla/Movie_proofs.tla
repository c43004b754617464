---------------------------- MODULE Movie_proofs ----------------------------
(***************************************************************************)
(* Proofs about Movie: the counters of a movie with sound add up, its      *)
(* frames are shown in order, and the mark for "clear the picture" stays   *)
(* with the first chunk of a lap, for every movie, ring and interleaving   *)
(* of the tick.                                                            *)
(***************************************************************************)
EXTENDS Movie, TLAPS

-----------------------------------------------------------------------------
(* The types.                                                               *)

\* The movie and the counters.  Chunks and addresses are typed further down.
Lefts == [video : Int, sound : Int, pending : Int, ahead : Int]
Flags == [active : BOOLEAN, playing : BOOLEAN, rekey : BOOLEAN, buffered : 0..2]
Games == [pc : PCs, goal : Goals, todo : Int, loaded : Int]
CounterType ==
  /\ movie.sound \in BOOLEAN /\ movie.looped \in BOOLEAN /\ movie.len \in Nat \ {0}
  /\ left \in Lefts /\ flag \in Flags /\ game \in Games
  /\ lost \in Nat /\ next \in Nat

\* Only a looped movie begins another lap, and none with sound is looped; the
\* playback loop never waits for room again once the last chunk is read.
LapsAreLooped ==
  /\ movie.sound => ~movie.looped
  /\ game.goal = "lap" => movie.looped
  /\ game.pc \in {"lapload", "lapstore"} => game.goal = "lap"
  /\ game.pc \in {"preload", "opened", "prime", "start", "header", "payload", "tail"}
       => game.goal = "fill"
  /\ game.pc \in {"above", "below"} => game.goal # "flush"

(* The inductive form of FramesAreAccounted.  Before the first frame is up  *)
(* every pending frame counts as lost; while the game is about to store     *)
(* pending - 1, what it has loaded counts and not what it will overwrite;   *)
(* a movie that is being closed no longer counts.                           *)
Accounted ==
  movie.sound =>
    /\ game.pc \in {"preload", "opened", "prime"} => left.video = left.sound + lost
    /\ game.pc = "preload" => lost = 0
    /\ game.pc = "store" => left.video = left.sound + game.loaded + lost
    /\ game.pc \notin {"preload", "opened", "prime", "store", "close", "done"}
         => left.video = left.sound + left.pending + lost

\* The tick has nothing to do before the preload ends; what plays has begun
\* and is not being closed.
PlayingIsOpen ==
  /\ game.pc = "preload" => ~flag.active
  /\ flag.playing => game.pc \notin {"preload", "opened", "prime", "start", "close", "done"}

CountInv == CounterType /\ LapsAreLooped /\ Accounted /\ PlayingIsOpen

(* The fields of the counters.                                              *)
LEMMA CountersAreNumbers ==
  ASSUME CounterType
  PROVE  /\ left.video \in Int /\ left.sound \in Int /\ left.pending \in Int
         /\ left.ahead \in Int /\ game.todo \in Int /\ game.loaded \in Int
         /\ movie.len \in Int /\ lost \in Int
         /\ left.video - 1 \in Int /\ left.sound - 1 \in Int /\ left.pending + 1 \in Int
         /\ left.ahead - 1 \in Int /\ left.ahead + 1 \in Int
         /\ game.todo - 1 \in Int /\ game.loaded - 1 \in Int
         /\ movie.len - 2 \in Int /\ movie.len - 1 - left.ahead \in Int
         /\ game.loaded + movie.len \in Int
BY DEF CounterType, Lefts, Games

\* Where the playback loop stands, but for the store of a counter.
Loop == PCs \ {"preload", "opened", "prime", "start", "store", "close", "done"}

(* A step of the game thread that only moves on inside the playback loop.   *)
LEMMA GotoKeepsCounts ==
  ASSUME CountInv, NEW p \in Loop, NEW q \in Loop, Goto(p, q),
         q \in {"lapload", "lapstore"} => game.goal = "lap",
         q \in {"header", "payload", "tail"} => game.goal = "fill",
         q \in {"above", "below"} => game.goal # "flush"
  PROVE  CountInv'
BY DEF CountInv, CounterType, LapsAreLooped, Accounted, PlayingIsOpen, Loop, Goto, PCs,
       Lefts, Flags, Games

(* Opening and closing the movie.                                           *)
LEMMA OpeningKeepsCounts ==
  ASSUME CountInv,
         Preload \/ PreloadFails \/ BeginPlayback \/ PrimeFirstFrame \/ Start \/ Stop \/ Close
  PROVE  CountInv'
<1> USE DEF PCs, Goals
<1>1. CASE Preload
  <2> DEFINE fill == Past(at.fill, next)
             more == fill # 0 /\ game.todo > 1
             fits == fill # 0 /\ ~more /\ flag.buffered # 0
  <2>1. /\ game.pc = "preload" /\ next' = next + 1
        /\ UNCHANGED <<movie, seen, lost, drift>>
        /\ left' = IF more THEN [left EXCEPT !.ahead = @ + 1] ELSE Counted
        /\ flag' = [flag EXCEPT !.active = ~more, !.buffered = IF fits THEN 2 ELSE @]
        /\ game' = IF more THEN [game EXCEPT !.todo = @ - 1] ELSE [game EXCEPT !.pc = "opened"]
    BY <1>1 DEF Preload
  <2> HIDE DEF fill, fits
  <2>2. flag' \in Flags /\ flag'.playing = flag.playing
        /\ flag'.active = ~more
    <3>1. flag' = [active |-> ~more, playing |-> flag.playing, rekey |-> flag.rekey,
                   buffered |-> IF fits THEN 2 ELSE flag.buffered]
      BY <2>1 DEF CountInv, CounterType, Flags
    <3>2. more \in BOOLEAN /\ (IF fits THEN 2 ELSE flag.buffered) \in 0..2
      BY DEF CountInv, CounterType, Flags
    <3> HIDE DEF more
    <3> QED
      BY <3>1, <3>2 DEF CountInv, CounterType, Flags
  <2>3. CASE more
    <3>1. CounterType'
      BY <2>1, <2>2, <2>3 DEF CountInv, CounterType, Lefts, Flags, Games
    <3>2. LapsAreLooped'
      BY <2>1, <2>2, <2>3 DEF CountInv, CounterType, LapsAreLooped, Lefts, Flags, Games
    <3>3. Accounted'
      BY <2>1, <2>2, <2>3 DEF CountInv, CounterType, Accounted, PlayingIsOpen, Lefts, Flags, Games
    <3>4. PlayingIsOpen'
      BY <2>1, <2>2, <2>3 DEF CountInv, CounterType, PlayingIsOpen, Lefts, Flags, Games
    <3> QED
      BY <3>1, <3>2, <3>3, <3>4 DEF CountInv
  <2>4. CASE ~more
    <3>1. /\ left' \in Lefts
          /\ left'.video = movie.len - 2 /\ left'.sound = movie.len - 2
          /\ left'.pending = left.pending
      BY <2>1, <2>4, CountersAreNumbers DEF Counted, CountInv, CounterType, Lefts, Flags, Games
    <3>2. CounterType'
      BY <2>1, <2>2, <2>4, <3>1 DEF CountInv, CounterType, Lefts, Flags, Games
    <3>3. LapsAreLooped'
      BY <2>1, <2>2, <2>4, <3>1 DEF CountInv, CounterType, LapsAreLooped, Lefts, Flags, Games
    <3>4. Accounted'
      BY <2>1, <2>2, <2>4, <3>1
      DEF CountInv, CounterType, Accounted, PlayingIsOpen, Lefts, Flags, Games
    <3>5. PlayingIsOpen'
      BY <2>1, <2>2, <2>4, <3>1 DEF CountInv, CounterType, PlayingIsOpen, Lefts, Flags, Games
    <3> QED
      BY <3>2, <3>3, <3>4, <3>5 DEF CountInv
  <2> QED
    BY <2>3, <2>4
<1>2. CASE PreloadFails \/ BeginPlayback
  <2>1. CounterType'
    BY <1>2 DEF PreloadFails, BeginPlayback, Goto, CountInv, CounterType, Lefts, Flags, Games
  <2>2. LapsAreLooped'
    BY <1>2
    DEF PreloadFails, BeginPlayback, Goto, CountInv, CounterType, LapsAreLooped, Lefts, Flags, Games
  <2>3. Accounted'
    BY <1>2
    DEF PreloadFails, BeginPlayback, Goto, CountInv, CounterType, Accounted, PlayingIsOpen, Lefts,
        Flags, Games
  <2>4. PlayingIsOpen'
    BY <1>2
    DEF PreloadFails, BeginPlayback, Goto, CountInv, CounterType, PlayingIsOpen, Lefts, Flags, Games
  <2> QED
    BY <2>1, <2>2, <2>3, <2>4 DEF CountInv
<1>3. CASE PrimeFirstFrame
  <2>1. CounterType'
    <3>1. left' \in Lefts
      <4>1. left' = [video |-> left.video, sound |-> left.sound, pending |-> 0,
                     ahead |-> left.ahead - 1]
        BY <1>3 DEF PrimeFirstFrame, CountInv, CounterType, Lefts
      <4> QED
        BY <4>1, CountersAreNumbers DEF CountInv, CounterType, Lefts
    <3>2. flag' \in Flags
      BY <1>3 DEF PrimeFirstFrame, CountInv, CounterType, Flags
    <3>3. game' \in Games
      BY <1>3 DEF PrimeFirstFrame, CountInv, CounterType, Games, Lefts
    <3> QED
      BY <1>3, <3>1, <3>2, <3>3 DEF PrimeFirstFrame, CountInv, CounterType, Lefts, Flags, Games
  <2>2. LapsAreLooped'
    BY <1>3 DEF PrimeFirstFrame, CountInv, CounterType, LapsAreLooped, Lefts, Flags, Games
  <2>3. Accounted'
    BY <1>3
    DEF PrimeFirstFrame, CountInv, CounterType, Accounted, PlayingIsOpen, Lefts, Flags, Games
  <2>4. PlayingIsOpen'
    BY <1>3 DEF PrimeFirstFrame, CountInv, CounterType, PlayingIsOpen, Lefts, Flags, Games
  <2> QED
    BY <2>1, <2>2, <2>3, <2>4 DEF CountInv
<1>4. CASE Start
  <2>1. CounterType'
    <3>4. PICK q \in {"boundary", "tail"} :
            game' = [game EXCEPT !.todo = movie.len - 1 - left.ahead, !.pc = q]
      BY <1>4 DEF Start
    <3>5. q \in PCs
      BY <3>4
    <3>1. left' \in Lefts
      BY <1>4 DEF Start, CountInv, CounterType, Lefts
    <3>2. flag' \in Flags
      BY <1>4 DEF Start, CountInv, CounterType, Flags
    <3>3. game' \in Games
      <4>1. game' = [pc |-> q, goal |-> game.goal, todo |-> movie.len - 1 - left.ahead,
                     loaded |-> game.loaded]
        BY <3>4 DEF CountInv, CounterType, Games
      <4> QED
        BY <3>5, <4>1, CountersAreNumbers DEF CountInv, CounterType, Games
    <3> QED
      BY <1>4, <3>1, <3>2, <3>3 DEF Start, CountInv, CounterType, Lefts, Flags, Games
  <2>2. LapsAreLooped'
    <3>1. PICK q \in {"boundary", "tail"} :
            game' = [game EXCEPT !.todo = movie.len - 1 - left.ahead, !.pc = q]
      BY <1>4 DEF Start
    <3>2. game'.pc = q /\ game'.goal = game.goal /\ movie' = movie /\ game.pc = "start"
      BY <1>4, <3>1 DEF Start, CountInv, CounterType, Games
    <3> QED
      BY <3>2 DEF CountInv, LapsAreLooped
  <2>3. Accounted'
    BY <1>4 DEF Start, CountInv, CounterType, Accounted, PlayingIsOpen, Lefts, Flags, Games
  <2>4. PlayingIsOpen'
    BY <1>4 DEF Start, CountInv, CounterType, PlayingIsOpen, Lefts, Flags, Games
  <2> QED
    BY <2>1, <2>2, <2>3, <2>4 DEF CountInv
<1>5. CASE Stop \/ Close
  <2>1. CounterType'
    BY ZenonT(40), <1>5 DEF Stop, Close, CountInv, CounterType, Lefts, Flags, Games
  <2>2. LapsAreLooped'
    BY <1>5 DEF Stop, Close, CountInv, CounterType, LapsAreLooped, Lefts, Flags, Games
  <2>3. Accounted'
    BY <1>5 DEF Stop, Close, CountInv, CounterType, Accounted, PlayingIsOpen, Lefts, Flags, Games
  <2>4. PlayingIsOpen'
    BY <1>5 DEF Stop, Close, CountInv, CounterType, PlayingIsOpen, Lefts, Flags, Games
  <2> QED
    BY <2>1, <2>2, <2>3, <2>4 DEF CountInv
<1> QED
  BY <1>1, <1>2, <1>3, <1>4, <1>5

(* The playback loop.                                                       *)
LEMMA PlayingKeepsCounts ==
  ASSUME CountInv,
         Boundary \/ Skip \/ Drain \/ LoadPending \/ StorePending \/ Again \/ Flushed
  PROVE  CountInv'
<1>1. CASE Boundary \/ Skip
  BY <1>1, GotoKeepsCounts DEF Boundary, Skip, Loop, PCs
<1>2. CASE Drain
  <2>1. CounterType'
    BY <1>2 DEF Drain, PCs, CountInv, CounterType, Lefts, Flags, Games
  <2>2. LapsAreLooped'
    BY <1>2 DEF Drain, PCs, CountInv, CounterType, LapsAreLooped, Lefts, Flags, Games
  <2>3. Accounted'
    BY <1>2 DEF Drain, PCs, CountInv, CounterType, Accounted, PlayingIsOpen, Lefts, Flags, Games
  <2>4. PlayingIsOpen'
    BY <1>2 DEF Drain, PCs, CountInv, CounterType, PlayingIsOpen, Lefts, Flags, Games
  <2> QED
    BY <2>1, <2>2, <2>3, <2>4 DEF CountInv
<1>3. CASE LoadPending
  <2>1. CounterType'
    BY <1>3 DEF LoadPending, PCs, CountInv, CounterType, Lefts, Flags, Games
  <2>2. LapsAreLooped'
    BY <1>3 DEF LoadPending, PCs, CountInv, CounterType, LapsAreLooped, Lefts, Flags, Games
  <2>3. Accounted'
    BY <1>3
    DEF LoadPending, PCs, CountInv, CounterType, Accounted, PlayingIsOpen, Lefts, Flags, Games
  <2>4. PlayingIsOpen'
    BY <1>3 DEF LoadPending, PCs, CountInv, CounterType, PlayingIsOpen, Lefts, Flags, Games
  <2> QED
    BY <2>1, <2>2, <2>3, <2>4 DEF CountInv
<1>4. CASE StorePending
  <2>1. CounterType'
    <3>1. left' \in Lefts
      <4>1. left' = [video |-> left.video - 1, sound |-> left.sound,
                     pending |-> game.loaded - 1, ahead |-> left.ahead]
        BY <1>4 DEF StorePending, CountInv, CounterType, Lefts
      <4> QED
        BY <4>1, CountersAreNumbers DEF CountInv, CounterType, Lefts
    <3>2. flag' \in Flags
      BY <1>4 DEF StorePending, PCs, CountInv, CounterType, Flags
    <3>3. game' \in Games
      <4>1. game' = [pc |-> "again", goal |-> game.goal, todo |-> game.todo, loaded |-> 0]
        BY <1>4 DEF StorePending, CountInv, CounterType, Games
      <4> QED
        BY <4>1, CountersAreNumbers DEF CountInv, CounterType, Games, PCs
    <3> QED
      BY <1>4, <3>1, <3>2, <3>3 DEF StorePending, PCs, CountInv, CounterType, Lefts, Flags, Games
  <2>2. LapsAreLooped'
    BY <1>4 DEF StorePending, PCs, CountInv, CounterType, LapsAreLooped, Lefts, Flags, Games
  <2>3. Accounted'
    BY <1>4
    DEF StorePending, PCs, CountInv, CounterType, Accounted, PlayingIsOpen, Lefts, Flags, Games
  <2>4. PlayingIsOpen'
    BY <1>4 DEF StorePending, PCs, CountInv, CounterType, PlayingIsOpen, Lefts, Flags, Games
  <2> QED
    BY <2>1, <2>2, <2>3, <2>4 DEF CountInv
<1>5. CASE Again
  <2>1. Goto("again", "drain") \/ (game.goal = "flush" /\ Goto("again", "flushed"))
        \/ (game.goal # "flush" /\ Goto("again", "above"))
    BY <1>5 DEF Again
  <2> QED
    BY <2>1, GotoKeepsCounts DEF Loop, PCs
<1>6. CASE Flushed
  BY <1>6, GotoKeepsCounts DEF Flushed, Loop, PCs
<1> QED
  BY <1>1, <1>2, <1>3, <1>4, <1>5, <1>6

(* The reader.                                                              *)
LEMMA ReadingKeepsCounts ==
  ASSUME CountInv,
         LookAbove \/ LookBelow \/ FindInRing \/ ReadHeader \/ ReadPayload \/ ReadFails
           \/ Tail \/ LoadLap \/ StoreLap
  PROVE  CountInv'
<1> USE DEF Goals, PCs
<1>1. CASE LookAbove \/ LookBelow
  <2>1. game.goal \in {"fill", "lap"}
    BY <1>1
    DEF CountInv, CounterType, LapsAreLooped, LookAbove, LookBelow, Goto, Lefts, Flags, Games
  <2>2. PICK p \in {"above", "below"}, q \in {Granted, "below", "boundary"} : Goto(p, q)
    BY <1>1 DEF LookAbove, LookBelow
  <2> QED
    BY <2>1, <2>2, GotoKeepsCounts DEF Loop, Granted
<1>2. CASE FindInRing \/ ReadPayload
  <2>1. /\ game.pc \in {"header", "payload"}
        /\ game'.pc \in {"boundary", "tail"} /\ game'.goal = game.goal
        /\ game'.loaded = game.loaded /\ game' \in Games
    <3>1. /\ game.pc \in {"header", "payload"}
          /\ game' = [game EXCEPT !.todo = @ - 1,
                                  !.pc = IF game.todo > 1 THEN "boundary" ELSE "tail"]
      BY <1>2 DEF FindInRing, ReadPayload, Filled
    <3>2. game' = [pc |-> IF game.todo > 1 THEN "boundary" ELSE "tail", goal |-> game.goal,
                   todo |-> game.todo - 1, loaded |-> game.loaded]
      BY <3>1 DEF CountInv, CounterType, Games
    <3> QED
      BY <3>1, <3>2, CountersAreNumbers DEF CountInv, CounterType, Games
  <2>2. UNCHANGED <<movie, left, lost>> /\ next' \in Nat
    BY <1>2 DEF FindInRing, ReadPayload, CountInv, CounterType, Lefts, Flags, Games
  <2>3. flag' \in Flags
        /\ flag'.playing = flag.playing
    BY <1>2 DEF FindInRing, ReadPayload, CountInv, CounterType, Lefts, Flags, Games
  <2> QED
    BY <2>1, <2>2, <2>3
    DEF CountInv, CounterType, LapsAreLooped, Accounted, PlayingIsOpen, Lefts, Flags, Games
<1>3. CASE ReadHeader
  <2>1. CounterType'
    BY <1>3 DEF ReadHeader, CountInv, CounterType, Lefts, Flags, Games
  <2>2. LapsAreLooped'
    BY <1>3 DEF ReadHeader, CountInv, CounterType, LapsAreLooped, Lefts, Flags, Games
  <2>3. Accounted'
    BY <1>3 DEF ReadHeader, CountInv, CounterType, Accounted, PlayingIsOpen, Lefts, Flags, Games
  <2>4. PlayingIsOpen'
    BY <1>3 DEF ReadHeader, CountInv, CounterType, PlayingIsOpen, Lefts, Flags, Games
  <2> QED
    BY <2>1, <2>2, <2>3, <2>4 DEF CountInv
<1>4. CASE ReadFails
  BY <1>4, GotoKeepsCounts DEF ReadFails, Loop
<1>5. CASE Tail
  <2>1. CounterType'
    <3>1. left' \in Lefts
      BY <1>5 DEF Tail, CountInv, CounterType, Lefts
    <3>2. flag' \in Flags
      BY <1>5 DEF Tail, CountInv, CounterType, Flags
    <3>3. game' \in Games
      BY ZenonT(40), <1>5 DEF Tail, CountInv, CounterType, Games, Lefts
    <3> QED
      BY <1>5, <3>1, <3>2, <3>3 DEF Tail, CountInv, CounterType, Lefts, Flags, Games
  <2>2. LapsAreLooped'
    BY ZenonT(40), <1>5 DEF Tail, CountInv, CounterType, LapsAreLooped, Lefts, Flags, Games
  <2>3. Accounted'
    BY ZenonT(40), <1>5 DEF Tail, CountInv, CounterType, Accounted, PlayingIsOpen,
        Lefts, Flags, Games
  <2>4. PlayingIsOpen'
    BY ZenonT(40), <1>5 DEF Tail, CountInv, CounterType, PlayingIsOpen, Lefts, Flags, Games
  <2> QED
    BY <2>1, <2>2, <2>3, <2>4 DEF CountInv
<1>6. CASE LoadLap
  <2>1. CounterType'
    BY <1>6 DEF LoadLap, CountInv, CounterType, Lefts, Flags, Games
  <2>2. LapsAreLooped'
    BY <1>6 DEF LoadLap, CountInv, CounterType, LapsAreLooped, Lefts, Flags, Games
  <2>3. Accounted'
    BY <1>6 DEF LoadLap, CountInv, CounterType, Accounted, PlayingIsOpen, Lefts, Flags, Games
  <2>4. PlayingIsOpen'
    BY <1>6 DEF LoadLap, CountInv, CounterType, PlayingIsOpen, Lefts, Flags, Games
  <2> QED
    BY <2>1, <2>2, <2>3, <2>4 DEF CountInv
<1>7. CASE StoreLap
  <2>1. CounterType'
    <3>1. left' \in Lefts
      BY <1>7 DEF StoreLap, CountInv, CounterType, Lefts, Games
    <3>2. flag' \in Flags
      BY <1>7 DEF StoreLap, CountInv, CounterType, Flags
    <3>3. game' \in Games
      <4>1. game' = [pc |-> "header", goal |-> "fill", todo |-> movie.len, loaded |-> 0]
        BY <1>7 DEF StoreLap, CountInv, CounterType, Games
      <4> QED
        BY <4>1, CountersAreNumbers DEF CountInv, Games
    <3> QED
      BY <1>7, <3>1, <3>2, <3>3 DEF StoreLap, CountInv, CounterType, Lefts, Flags, Games
  <2>2. LapsAreLooped'
    BY <1>7 DEF StoreLap, CountInv, CounterType, LapsAreLooped, Lefts, Flags, Games
  <2>3. Accounted'
    <3>1. ~movie.sound
      BY <1>7 DEF StoreLap, CountInv, LapsAreLooped
    <3> QED
      BY <1>7, <3>1 DEF StoreLap, Accounted
  <2>4. PlayingIsOpen'
    BY <1>7 DEF StoreLap, CountInv, CounterType, PlayingIsOpen, Lefts, Flags, Games
  <2> QED
    BY <2>1, <2>2, <2>3, <2>4 DEF CountInv
<1> QED
  BY <1>1, <1>2, <1>3, <1>4, <1>5, <1>6, <1>7

(* The tick.                                                                *)
LEMMA TicksKeepCounts ==
  ASSUME CountInv, SilentTick \/ SoundTick
  PROVE  CountInv'
<1>1. CASE SilentTick
  <2>1. CounterType'
    BY <1>1 DEF SilentTick, CountInv, CounterType, Lefts, Flags, Games
  <2>2. LapsAreLooped'
    BY <1>1 DEF SilentTick, CountInv, CounterType, LapsAreLooped, Lefts, Flags, Games
  <2>3. Accounted'
    BY <1>1 DEF SilentTick, CountInv, CounterType, Accounted, PlayingIsOpen, Lefts, Flags, Games
  <2>4. PlayingIsOpen'
    BY <1>1 DEF SilentTick, CountInv, CounterType, PlayingIsOpen, Lefts, Flags, Games
  <2> QED
    BY <2>1, <2>2, <2>3, <2>4 DEF CountInv
<1>2. CASE SoundTick
  <2>1. /\ UNCHANGED <<movie, flag, game, next>>
        /\ left' = [left EXCEPT !.sound = @ - 1, !.pending = @ + 1]
        /\ lost' = lost + (IF Unready \/ game.pc = "store" THEN 1 ELSE 0)
        /\ flag.active
    BY <1>2 DEF SoundTick
  <2>2. game.pc # "preload"
    BY <2>1 DEF CountInv, PlayingIsOpen
  <2>3. CounterType' /\ LapsAreLooped' /\ PlayingIsOpen'
    <3>1. left' = [video |-> left.video, sound |-> left.sound - 1,
                   pending |-> left.pending + 1, ahead |-> left.ahead]
      BY <2>1 DEF CountInv, CounterType, Lefts
    <3>2. left' \in Lefts
      BY <3>1, CountersAreNumbers DEF CountInv, CounterType, Lefts
    <3>3. lost' \in Nat
      BY <2>1 DEF CountInv, CounterType
    <3> QED
      BY <2>1, <3>2, <3>3 DEF CountInv, CounterType, LapsAreLooped, PlayingIsOpen
  <2>4. Accounted'
    BY <2>1, <2>2 DEF Unready, CountInv, CounterType, Accounted, Lefts, Games
  <2> QED
    BY <2>3, <2>4 DEF CountInv
<1> QED
  BY <1>1, <1>2

(* The counters of a movie that has just been opened.                       *)
LEMMA InitialCounts == ASSUME Init PROVE CountInv
<1>1. PICK n \in Lengths, r \in RingSizes, s \in BOOLEAN, l \in BOOLEAN :
        /\ s => ~l
        /\ \E z \in [1..n -> Sizes] : movie = [sound |-> s, looped |-> l, len |-> n, size |-> z]
        /\ flag = [active |-> FALSE, playing |-> FALSE, rekey |-> FALSE,
                   buffered |-> IF l THEN 1 ELSE 0]
        /\ game = [pc |-> "preload", goal |-> "fill", todo |-> n, loaded |-> 0]
  BY ZenonT(40) DEF Init
<1>2. /\ n \in Nat \ {0} /\ movie.sound = s /\ movie.looped = l /\ movie.len = n
  BY <1>1, MovieAssumption
<1>3. left \in Lefts /\ flag \in Flags /\ game \in Games /\ lost = 0 /\ next = 1
      /\ left.video = 0 /\ left.sound = 0
  BY <1>1, <1>2 DEF Init, Lefts, Flags, Games, PCs, Goals
<1>4. CounterType
  BY <1>1, <1>2, <1>3 DEF CounterType
<1> QED
  BY <1>1, <1>2, <1>3, <1>4 DEF CountInv, LapsAreLooped, Accounted, PlayingIsOpen

(* Every step keeps the counters sound.                                     *)
LEMMA StepsKeepCounts == ASSUME CountInv, [Next]_vars PROVE CountInv'
<1>1. UNCHANGED vars => CountInv'
  BY DEF vars, CountInv, CounterType, LapsAreLooped, Accounted, PlayingIsOpen
<1> QED
  BY <1>1, OpeningKeepsCounts, PlayingKeepsCounts, ReadingKeepsCounts, TicksKeepCounts
  DEF Next, Game

(* The counters are sound in every behaviour.                               *)
LEMMA CountsHold == Spec => []CountInv
<1>1. Init => CountInv
  BY InitialCounts
<1>2. CountInv /\ [Next]_vars => CountInv'
  BY StepsKeepCounts
<1> QED
  BY <1>1, <1>2, PTL DEF Spec

(* Every frame still to be shown has its block still to be shipped, or is   *)
(* pending, or was wiped by a store of the game thread, wherever the tick   *)
(* lands in the load and the store of the decrement of pending.             *)
THEOREM EveryFrameIsAccountedFor == Spec => []FramesAreAccounted
<1>1. CountInv => FramesAreAccounted
  BY DEF CountInv, PlayingIsOpen, Accounted, FramesAreAccounted
<1> QED
  BY <1>1, CountsHold, PTL

-----------------------------------------------------------------------------
(* The ring.                                                                *)

RingType ==
  /\ \E r \in Nat : ring \in [held : [0..r - 1 -> 0..movie.len], keyed : SUBSET (0..r - 1),
                              end : 0..r]
  /\ Stride <= ring.end
  /\ movie.size \in [1..movie.len -> Sizes] /\ movie.len \in Nat \ {0}
  /\ at \in [fill : Int, prev : Nat, cur : Nat, sound : Int]

\* The chunk after chunk f, in the next lap when f is the last one.
Succ(f) == IF f = movie.len THEN 1 ELSE f + 1

(* The frame after one is the one that FramesInOrder computes.              *)
LEMMA SuccIsNextInTheLap ==
  ASSUME movie.len \in Nat \ {0}
  PROVE  /\ 1 = (0 % movie.len) + 1
         /\ \A f \in 1..movie.len : Succ(f) = (f % movie.len) + 1 /\ Succ(f) \in 1..movie.len
<1>1. 0 % movie.len = 0
  OBVIOUS
<1>2. ASSUME NEW f \in 1..movie.len
      PROVE  f % movie.len = IF f = movie.len THEN 0 ELSE f
  OBVIOUS
<1> QED
  BY <1>1, <1>2 DEF Succ

(* A chunk is not empty and fits a slot; the slot after it lies in the ring.*)
LEMMA SlotsFit ==
  ASSUME RingType, NEW a \in Nat, NEW f \in 1..movie.len
  PROVE  /\ After(a, f) \in Nat /\ a < After(a, f) /\ After(a, f) <= a + Stride
         /\ Past(a, f) \in Nat /\ Past(a, f) + Stride <= ring.end
         /\ Past(a, f) = 0 \/ Past(a, f) = After(a, f)
         /\ After(a, f) + Stride <= ring.end => Past(a, f) = After(a, f)
         /\ After(a, f) + Stride > ring.end => Past(a, f) = 0
<1>1. movie.size[f] \in 1..Stride
  BY MovieAssumption DEF RingType
<1>2. Stride \in Nat \ {0} /\ ring.end \in Nat /\ Stride <= ring.end
  BY MovieAssumption DEF RingType
<1>3. After(a, f) = a + movie.size[f]
  BY DEF After
<1> QED
  BY <1>1, <1>2, <1>3 DEF Past

(* Where a slot fits there are bytes of the ring.                           *)
LEMMA SlotsAreInTheRing ==
  ASSUME RingType, NEW a \in Nat, a + Stride <= ring.end
  PROVE  a \in DOMAIN ring.held /\ ring.held[a] \in 0..movie.len
BY SMTT(20), MovieAssumption DEF RingType

(* The window: p[0] is the address of the chunk decoded last, p[n] the one  *)
(* the next chunk goes to, and between them the chunks lie one behind the   *)
(* other in the order of the lap, whole.  From w on they lie at the base of *)
(* the ring again (w = n + 1: none does), and never above the decoder.      *)
Chained(n, p) ==
  /\ \A k \in 0..n - 1 : /\ ring.held[p[k]] \in 1..movie.len
                         /\ p[k + 1] = Past(p[k], ring.held[p[k]])
  /\ \A k \in 1..n - 1 : ring.held[p[k]] = Succ(ring.held[p[k - 1]])
  /\ ~movie.looped => \A k \in 0..n - 1 : ring.held[p[k]] = ring.held[p[0]] + k

Laid(n, p, w) ==
  /\ \A k \in 0..n : p[k] + Stride <= ring.end
  /\ \A k, l \in 0..n : k < l /\ (l < w \/ k >= w) => After(p[k], ring.held[p[k]]) <= p[l]
  /\ w <= n => p[w] = 0 /\ p[n] <= p[0]

Window(n, p, w) ==
  /\ n \in Nat /\ p \in [0..n -> Nat] /\ w \in 1..n + 1
  /\ Chained(n, p) /\ Laid(n, p, w)
  /\ p[0] = at.prev /\ (at.fill # NoMore => p[n] = at.fill)

\* There is room for a chunk under fill.
Roomy == at.fill > at.prev \/ at.fill + Stride < at.prev

(* In a window that has not wrapped the reader is above the decoder.        *)
LEMMA WrappedIsBelow ==
  ASSUME RingType, NEW n, NEW p, NEW w, Window(n, p, w), at.fill # NoMore
  PROVE  /\ at.fill > at.prev => w = n + 1
         /\ n > 0 /\ w = n + 1 => at.fill > at.prev
         /\ Roomy => w = n + 1 \/ at.fill + Stride < at.prev
<1>1. /\ n \in Nat /\ p \in [0..n -> Nat] /\ w \in 1..n + 1 /\ p[0] = at.prev /\ p[n] = at.fill
      /\ p[0] \in Nat /\ p[n] \in Nat
  BY DEF Window
<1>2. w <= n => p[n] <= p[0]
  BY DEF Window, Laid
<1>3. n > 0 /\ w = n + 1 => p[n] > p[0]
  <2> SUFFICES ASSUME n > 0, w = n + 1 PROVE p[n] > p[0]
    OBVIOUS
  <2>1. After(p[0], ring.held[p[0]]) <= p[n]
    BY <1>1 DEF Window, Laid
  <2>2. ring.held[p[0]] \in 1..movie.len
    BY <1>1 DEF Window, Chained
  <2>3. p[0] < After(p[0], ring.held[p[0]]) /\ After(p[0], ring.held[p[0]]) \in Nat
    BY <1>1, <2>2, SlotsFit
  <2> QED
    BY <1>1, <2>1, <2>3
<1> QED
  BY <1>1, <1>2, <1>3 DEF Roomy

(* With room under fill, a chunk written there touches none that is waiting.*)
LEMMA WritingSparesTheWindow ==
  ASSUME RingType, NEW n, NEW p, NEW w, Window(n, p, w), at.fill # NoMore,
         w = n + 1 \/ at.fill + Stride < at.prev,
         NEW f \in 1..movie.len, NEW k \in 0..n - 1
  PROVE  /\ p[k] \in DOMAIN ring.held /\ p[k] # at.fill
         /\ Spoilt(at.fill, f)[p[k]] = ring.held[p[k]]
<1>1. /\ n \in Nat /\ p \in [0..n -> Nat] /\ w \in 1..n + 1 /\ p[0] = at.prev /\ p[n] = at.fill
      /\ k \in 0..n /\ n \in 0..n /\ k < n /\ 0 \in 0..n
  BY DEF Window
<1>2. /\ p[k] \in Nat /\ p[0] \in Nat /\ p[n] \in Nat /\ Stride \in Nat \ {0}
      /\ p[k] + Stride <= ring.end
  BY <1>1, MovieAssumption DEF Window, Laid
<1>3. ring.held[p[k]] \in 1..movie.len /\ ring.held[p[0]] \in 1..movie.len
  BY SMTT(30), <1>1 DEF Window, Chained
<1>4. p[k] \in DOMAIN ring.held
  BY <1>2, SlotsAreInTheRing
<1>5. /\ After(at.fill, f) \in Nat /\ After(at.fill, f) <= at.fill + Stride
      /\ at.fill < After(at.fill, f)
      /\ After(p[k], ring.held[p[k]]) \in Nat /\ p[k] < After(p[k], ring.held[p[k]])
      /\ After(p[0], ring.held[p[0]]) \in Nat /\ p[0] < After(p[0], ring.held[p[0]])
  BY <1>1, <1>2, <1>3, SlotsFit
<1>6. After(p[k], ring.held[p[k]]) <= at.fill \/ After(at.fill, f) <= p[k]
  <2>1. CASE w = n + 1 \/ k >= w
    <3>1. After(p[k], ring.held[p[k]]) <= p[n]
      BY <1>1, <2>1 DEF Window, Laid
    <3> QED
      BY <1>1, <3>1
  <2>2. CASE w # n + 1 /\ k < w
    <3>1. k = 0 \/ After(p[0], ring.held[p[0]]) <= p[k]
      BY <1>1, <2>2 DEF Window, Laid
    <3>2. p[k] >= at.prev
      BY SMTT(20), <1>1, <1>2, <1>5, <3>1
    <3> QED
      BY SMTT(20), <1>1, <1>2, <1>5, <2>2, <3>2
  <2>3. w = n + 1 \/ k >= w \/ (w # n + 1 /\ k < w)
    BY <1>1
  <2> QED
    BY <2>1, <2>2, <2>3
<1>7. p[k] # at.fill
  BY <1>1, <1>2, <1>5, <1>6
<1>8. Spoilt(at.fill, f)[p[k]] = ring.held[p[k]]
  BY <1>1, <1>2, <1>4, <1>5, <1>6 DEF Spoilt
<1> QED
  BY <1>4, <1>7, <1>8

(* The chunk that follows the window's last one joins it when it lies under *)
(* fill.  The ring may then be cut behind the slot of that chunk.           *)
LEMMA WindowGrows ==
  ASSUME RingType, RingType', NEW n, NEW p, NEW w, Window(n, p, w), at.fill # NoMore,
         w = n + 1 \/ at.fill + Stride < at.prev,
         NEW f \in 1..movie.len, n > 0 => f = Succ(ring.held[p[n - 1]]),
         ~movie.looped /\ n > 0 => f = ring.held[p[0]] + n,
         movie' = movie, ring'.held[at.fill] = f,
         \A k \in 0..n - 1 : ring'.held[p[k]] = ring.held[p[k]],
         ring'.end = ring.end \/ (w = n + 1 /\ ring'.end = at.fill + Stride),
         NEW g \in Nat,
         g = IF After(at.fill, f) + Stride > ring'.end THEN 0 ELSE After(at.fill, f),
         at'.prev = at.prev, at'.fill = g
  PROVE  \E q, v : /\ Window(n + 1, q, v)'
                   /\ \A k \in 0..n : q[k] = p[k]
<1>1. /\ n \in Nat /\ p \in [0..n -> Nat] /\ w \in 1..n + 1 /\ p[0] = at.prev /\ p[n] = at.fill
      /\ Stride \in Nat \ {0} /\ p[n] \in Nat /\ p[0] \in Nat
      /\ \A k \in 0..n : p[k] \in Nat
  BY MovieAssumption DEF Window
<1>2. \A a, b : After(a, b)' = After(a, b)
  BY DEF After
<1>3. PICK q : q = [k \in 0..n + 1 |-> IF k <= n THEN p[k] ELSE g]
  OBVIOUS
<1>4. PICK v : v = IF w <= n THEN w ELSE IF g = 0 THEN n + 1 ELSE n + 2
  OBVIOUS
<1>5. /\ q \in [0..n + 1 -> Nat] /\ q[n + 1] = g /\ \A k \in 0..n : q[k] = p[k]
      /\ v \in 1..n + 2
  BY SMTT(20), <1>1, <1>3, <1>4
<1>6. \A k \in 0..n : ring'.held[q[k]] = IF k < n THEN ring.held[p[k]] ELSE f
  BY SMTT(30), <1>1, <1>5
<1>7. ASSUME NEW k \in 0..n - 1
      PROVE  /\ ring.held[p[k]] \in 1..movie.len
             /\ p[k + 1] = Past(p[k], ring.held[p[k]])
             /\ After(p[k], ring.held[p[k]]) \in Nat
             /\ p[k] < After(p[k], ring.held[p[k]])
             /\ k + 1 \in 0..n /\ k \in 0..n /\ p[k] + Stride <= ring.end
  <2>1. ring.held[p[k]] \in 1..movie.len /\ p[k + 1] = Past(p[k], ring.held[p[k]])
    BY <1>1 DEF Window, Chained
  <2>2. k \in 0..n /\ k + 1 \in 0..n
    BY <1>1
  <2> QED
    BY <1>1, <2>1, <2>2, SlotsFit DEF Window, Laid
<1>8. /\ After(p[n], f) \in Nat /\ p[n] < After(p[n], f) /\ After(p[n], f) <= p[n] + Stride
      /\ p[n] + Stride <= ring.end
  <2>1. p[n] + Stride <= ring.end
    BY <1>1 DEF Window, Laid
  <2> QED
    BY <1>1, <2>1, SlotsFit
<1>9. /\ ring.end \in Nat /\ ring'.end \in Nat /\ Stride <= ring'.end
      /\ ring'.end <= ring.end
  <2>1. ring.end \in Nat /\ ring'.end \in Nat /\ Stride <= ring'.end
    BY DEF RingType
  <2> QED
    BY SMTT(20), <1>1, <1>8, <2>1
\* Up to fill the chunks lie where they lay, although the ring may end earlier.
<1>10. ASSUME NEW k \in 0..n - 1 PROVE Past(p[k], ring.held[p[k]])' = p[k + 1]
  <2>1. CASE ring'.end = ring.end
    BY <1>2, <1>7, <2>1 DEF Past
  <2>2. CASE w = n + 1 /\ ring'.end = at.fill + Stride
    <3>0. k \in 0..n /\ \A l \in 0..n : l < w
      BY <1>1, <2>2
    <3>1. \A l \in 0..n : k < l => After(p[k], ring.held[p[k]]) <= p[l]
      BY <3>0 DEF Window, Laid
    <3>2. After(p[k], ring.held[p[k]]) <= p[k + 1] /\ After(p[k], ring.held[p[k]]) <= p[n]
      BY <1>1, <1>7, <3>1
    <3>3. p[k + 1] = After(p[k], ring.held[p[k]])
      BY <1>7, <3>2 DEF Past
    <3>4. ~(After(p[k], ring.held[p[k]]) + Stride > ring'.end)
      BY SMTT(30), <1>1, <1>7, <2>2, <3>2
    <3> QED
      BY <1>2, <3>3, <3>4, <1>6, <1>5, <1>7 DEF Past
  <2> QED
    BY <2>1, <2>2
<1>11. Past(p[n], f)' = g
  BY <1>1, <1>2 DEF Past
<1>12. Chained(n + 1, q)'
  <2>1. ASSUME NEW k \in 0..n
        PROVE  ring'.held[q[k]] \in 1..movie'.len /\ q[k + 1] = Past(q[k], ring.held[q[k]])'
    <3>1. CASE k < n
      <4>1. k \in 0..n - 1 /\ k + 1 \in 0..n
        BY SMTT(20), <1>1, <3>1
      <4>2. ring'.held[p[k]] = ring.held[p[k]] /\ q[k] = p[k] /\ q[k + 1] = p[k + 1]
        BY <1>5, <4>1
      <4> QED
        BY <1>7, <1>10, <4>1, <4>2
    <3>2. CASE k = n
      BY <1>1, <1>5, <1>11, <3>2
    <3> QED
      BY <1>1, <3>1, <3>2
  <2>2. ASSUME NEW k \in 1..n
        PROVE  ring'.held[q[k]] = Succ(ring'.held[q[k - 1]])
    <3>1. CASE k < n
      <4>1. k \in 1..n - 1 /\ k \in 0..n /\ k - 1 \in 0..n /\ k - 1 < n
        BY <1>1, <3>1
      <4>2. ring.held[p[k]] = Succ(ring.held[p[k - 1]])
        BY <4>1 DEF Window, Chained
      <4> QED
        BY <1>6, <3>1, <4>1, <4>2
    <3>2. CASE k = n
      BY <1>1, <1>6, <3>2
    <3> QED
      BY SMTT(30), <1>1, <3>1, <3>2
  <2>3. ASSUME ~movie.looped, NEW k \in 0..n
        PROVE  ring'.held[q[k]] = ring'.held[q[0]] + k
    <3>1. CASE n = 0
      BY <1>6, <2>3, <3>1
    <3>2. CASE n > 0
      <4>1. ring'.held[q[0]] = ring.held[p[0]]
        BY <1>1, <1>6, <3>2
      <4>0. k < n => k \in 0..n - 1
        BY <1>1
      <4>2. k < n => ring.held[p[k]] = ring.held[p[0]] + k
        BY <2>3, <4>0 DEF Window, Chained
      <4> QED
        BY <1>1, <1>6, <2>3, <3>2, <4>1, <4>2
    <3> QED
      BY <1>1, <3>1, <3>2
  <2>4. \A b : Succ(b)' = Succ(b)
    BY DEF Succ
  <2>5. 0..(n + 1) - 1 = 0..n /\ 1..(n + 1) - 1 = 1..n
    BY <1>1
  <2> QED
    BY <2>1, <2>2, <2>3, <2>4, <2>5 DEF Chained
<1>13. Laid(n + 1, q, v)'
  <2>1. \A k \in 0..n + 1 : q[k] + Stride <= ring'.end
    <3>1. g + Stride <= ring'.end
      BY <1>1, <1>8, <1>9
    <3>2. p[n] + Stride <= ring'.end
      BY <1>1, <1>8
    <3>3. ASSUME NEW k \in 0..n - 1 PROVE p[k] + Stride <= ring'.end
      <4>1. CASE ring'.end = ring.end
        BY <1>7, <4>1
      <4>2. CASE w = n + 1
        <5>0. k \in 0..n /\ n \in 0..n /\ k < n /\ n < w
          BY <1>1, <4>2
        <5>1. After(p[k], ring.held[p[k]]) <= p[n]
          BY <5>0 DEF Window, Laid
        <5>2. p[k] <= p[n] /\ p[k] \in Nat
          <6>1. p[k] \in Nat /\ p[n] \in Nat
            BY <1>1, <5>0
          <6>2. /\ After(p[k], ring.held[p[k]]) \in Nat
                /\ p[k] < After(p[k], ring.held[p[k]])
            BY <1>7
          <6> QED
            BY <5>1, <6>1, <6>2
        <5> QED
          BY SMTT(20), <1>1, <1>9, <3>2, <5>2
      <4> QED
        BY <4>1, <4>2
    <3>4. \A k \in 0..n + 1 : k \in 0..n - 1 \/ k = n \/ k = n + 1
      BY <1>1
    <3>5. n \in 0..n /\ 0..n - 1 \subseteq 0..n
      BY <1>1
    <3> QED
      BY SMTT(30), <1>5, <3>1, <3>2, <3>3, <3>4, <3>5
  <2>2. ASSUME NEW k \in 0..n + 1, NEW l \in 0..n + 1, k < l, l < v \/ k >= v
        PROVE  After(q[k], ring'.held[q[k]]) <= q[l]
    <3>1. k \in 0..n /\ q[k] = p[k]
      BY <1>1, <1>5, <2>2
    <3>2. CASE l \in 0..n
      <4>1. k \in 0..n - 1 /\ (l < w \/ k >= w)
        BY <1>1, <1>4, <2>2, <3>2
      <4>2. After(p[k], ring.held[p[k]]) <= p[l]
        BY <2>2, <3>1, <3>2, <4>1 DEF Window, Laid
      <4> QED
        BY <1>5, <1>6, <3>1, <3>2, <4>1, <4>2
    <3>3. CASE l = n + 1
      <4>1. g # 0 /\ g = After(p[n], f) /\ (w = n + 1 \/ k >= w)
        <5>1. CASE w = n + 1
          BY <1>1, <1>4, <2>2, <3>1, <3>3, <5>1
        <5>2. CASE w <= n
          <6>1. v = w /\ k >= w /\ ring'.end = ring.end
            BY <1>1, <1>4, <2>2, <3>1, <3>3, <5>2
          <6>2. p[0] + Stride <= ring.end
            BY <1>1 DEF Window, Laid
          <6>3. After(p[n], f) + Stride <= ring'.end
            BY SMTT(20), <1>1, <1>8, <1>9, <5>2, <6>1, <6>2
          <6> QED
            BY <1>1, <1>8, <1>9, <6>1, <6>3
        <5> QED
          BY <1>1, <5>1, <5>2
      <4>2. CASE k = n
        BY <1>1, <1>5, <1>6, <3>1, <3>3, <4>1, <4>2
      <4>3. CASE k < n
        <5>1. k \in 0..n - 1 /\ n \in 0..n
          BY <1>1, <3>1, <4>3
        <5>2. After(p[k], ring.held[p[k]]) <= p[n]
          BY <1>1, <3>1, <4>1, <5>1 DEF Window, Laid
        <5>3. After(p[k], ring.held[p[k]]) <= g
          BY SMTT(30), <1>1, <1>7, <1>8, <4>1, <5>1, <5>2
        <5> QED
          BY <1>5, <1>6, <3>1, <3>3, <5>1, <5>3
      <4> QED
        BY <1>1, <3>1, <4>2, <4>3
    <3> QED
      BY <1>1, <3>2, <3>3
  <2>3. ASSUME v <= n + 1
        PROVE  q[v] = 0 /\ q[n + 1] <= q[0]
    <3>1. CASE w <= n
      <4>1. p[w] = 0 /\ v = w /\ v \in 0..n
        BY <1>1, <1>4, <3>1 DEF Window, Laid
      <4>2. g <= at.fill + Stride
        BY <1>1, <1>8
      <4> QED
        BY <1>1, <1>5, <3>1, <4>1, <4>2
    <3>2. CASE w = n + 1
      BY <1>1, <1>4, <1>5, <2>3, <3>2
    <3> QED
      BY <1>1, <3>1, <3>2
  <2> QED
    BY <1>2, <2>1, <2>2, <2>3 DEF Laid
<1>14. n + 1 \in Nat /\ (n + 1) + 1 = n + 2 /\ q[0] = at'.prev /\ q[n + 1] = at'.fill
  BY SMTT(20), <1>1, <1>5
<1>15. Window(n + 1, q, v)'
  BY <1>5, <1>12, <1>13, <1>14 DEF Window
<1> QED
  BY <1>5, <1>15

(* The decoder's next chunk leaves the window, if there is one behind it.   *)
LEMMA WindowShrinks ==
  ASSUME RingType, NEW n, NEW p, NEW w, Window(n, p, w), n >= 2,
         movie' = movie, ring' = ring, at'.prev = p[1], at'.fill = at.fill
  PROVE  \E q, v : /\ Window(n - 1, q, v)'
                   /\ \A k \in 0..n - 1 : q[k] = p[k + 1]
<1>1. /\ n \in Nat /\ p \in [0..n -> Nat] /\ w \in 1..n + 1
      /\ \A k \in 0..n - 1 : k \in 0..n /\ k + 1 \in 0..n /\ p[k + 1] \in Nat
  BY DEF Window
<1>2. (\A a, b : After(a, b)' = After(a, b)) /\ (\A a, b : Past(a, b)' = Past(a, b))
      /\ \A b : Succ(b)' = Succ(b)
  BY DEF After, Past, Succ
<1>3. PICK q : q = [k \in 0..n - 1 |-> p[k + 1]]
  OBVIOUS
<1>4. PICK v : v = IF w = 1 THEN n ELSE w - 1
  OBVIOUS
<1>5. /\ q \in [0..n - 1 -> Nat] /\ (\A k \in 0..n - 1 : q[k] = p[k + 1])
      /\ v \in 1..n /\ n - 1 \in Nat /\ (n - 1) + 1 = n
  BY <1>1, <1>3, <1>4
<1>6. Chained(n - 1, q)'
  <2>1. ASSUME NEW k \in 0..n - 2
        PROVE  /\ ring.held[q[k]] \in 1..movie.len
               /\ q[k + 1] = Past(q[k], ring.held[q[k]])
               /\ ~movie.looped => ring.held[q[k]] = ring.held[q[0]] + k
    <3>1. /\ k + 1 \in 0..n - 1 /\ q[k] = p[k + 1] /\ q[k + 1] = p[(k + 1) + 1]
          /\ q[0] = p[1] /\ 1 \in 0..n - 1
      BY <1>1, <1>5
    <3>2. /\ ring.held[p[k + 1]] \in 1..movie.len
          /\ p[(k + 1) + 1] = Past(p[k + 1], ring.held[p[k + 1]])
          /\ ring.held[p[1]] \in 1..movie.len
      BY <3>1 DEF Window, Chained
    <3>3. ~movie.looped => /\ ring.held[p[k + 1]] = ring.held[p[0]] + (k + 1)
                           /\ ring.held[p[1]] = ring.held[p[0]] + 1
      BY <3>1 DEF Window, Chained
    <3>4. ring.held[p[0]] \in 1..movie.len
      BY <1>1 DEF Window, Chained
    <3>5. movie.len \in Nat /\ k \in Nat
      BY DEF RingType
    <3>6. ~movie.looped => ring.held[p[k + 1]] = ring.held[p[1]] + k
      BY <3>3, <3>4, <3>5
    <3> QED
      BY <3>1, <3>2, <3>6
  <2>2. ASSUME NEW k \in 1..n - 2
        PROVE  ring.held[q[k]] = Succ(ring.held[q[k - 1]])
    <3>1. k + 1 \in 1..n - 1 /\ q[k] = p[k + 1] /\ q[k - 1] = p[k] /\ (k + 1) - 1 = k
      BY <1>1, <1>5
    <3>2. ring.held[p[k + 1]] = Succ(ring.held[p[(k + 1) - 1]])
      BY <3>1 DEF Window, Chained
    <3> QED
      BY <3>1, <3>2
  <2>3. (n - 1) - 1 = n - 2
    BY <1>1
  <2> QED
    BY <1>2, <2>1, <2>2, <2>3 DEF Chained
<1>7. Laid(n - 1, q, v)'
  <2>1. \A k \in 0..n - 1 : q[k] + Stride <= ring.end
    BY <1>1, <1>5 DEF Window, Laid
  <2>2. ASSUME NEW k \in 0..n - 1, NEW l \in 0..n - 1, k < l, l < v \/ k >= v
        PROVE  After(q[k], ring.held[q[k]]) <= q[l]
    <3>1. /\ k + 1 \in 0..n /\ l + 1 \in 0..n /\ k + 1 < l + 1
          /\ l + 1 < w \/ k + 1 >= w
      BY <1>1, <1>4, <2>2
    <3>2. After(p[k + 1], ring.held[p[k + 1]]) <= p[l + 1]
      BY <3>1 DEF Window, Laid
    <3> QED
      BY <1>5, <3>2
  <2>3. ASSUME v <= n - 1 PROVE q[v] = 0 /\ q[n - 1] <= q[0]
    <3>1. w # 1 /\ v = w - 1 /\ w <= n /\ 1 < w /\ 0 \in 0..n /\ 1 \in 0..n
      BY <1>1, <1>4, <2>3
    <3>2. p[w] = 0 /\ p[n] <= p[0]
      BY <3>1 DEF Window, Laid
    <3>3. After(p[0], ring.held[p[0]]) <= p[1]
      BY <3>1 DEF Window, Laid
    <3>4. ring.held[p[0]] \in 1..movie.len /\ p[0] \in Nat /\ p[1] \in Nat /\ p[n] \in Nat
      BY <1>1 DEF Window, Chained
    <3>5. p[0] < After(p[0], ring.held[p[0]]) /\ After(p[0], ring.held[p[0]]) \in Nat
      BY <3>4, SlotsFit
    <3>6. q[v] = p[w] /\ q[n - 1] = p[n] /\ q[0] = p[1]
      BY <1>1, <1>5, <3>1
    <3> QED
      BY <3>2, <3>3, <3>4, <3>5, <3>6
  <2> QED
    BY <1>2, <2>1, <2>2, <2>3 DEF Laid
<1>8. q[0] = at'.prev /\ (at'.fill # NoMore => q[n - 1] = at'.fill)
  BY <1>1, <1>5 DEF Window
<1>9. Window(n - 1, q, v)'
  BY <1>5, <1>6, <1>7, <1>8 DEF Window
<1> QED
  BY <1>5, <1>9

\* Where the game thread stands and what it may then touch.
Early == {"preload", "opened", "prime"}
Primed == at.sound # Nowhere

Phases ==
  /\ seen \in [frame : 0..movie.len, block : Int] /\ next \in 1..movie.len + 1
  /\ game.pc \in Early => ~Primed
  /\ ~Primed => game.pc \in Early \cup {"close", "done"}
  /\ game.pc \in {"drain", "load", "store"} => movie.sound
  /\ game.goal = "flush" <=> at.fill = NoMore
  /\ game.goal = "flush" => ~movie.looped
  /\ flag.buffered # 0 => movie.looped
  /\ game.pc \in {"preload", "payload"} => flag.buffered # 2
  /\ game.pc \in {"header", "payload", "lapload", "lapstore"} => Roomy

\* How many chunks are still to be read.
ChunksLeft ==
  /\ game.pc = "preload" =>
       next + game.todo = movie.len + 1 /\ game.todo >= 1 /\ left.ahead = next - 1
  /\ game.pc \in {"opened", "prime"} => left.ahead = next - 1
  /\ game.pc = "start" => left.ahead = next - 2
  /\ game.pc \notin Early \cup {"start", "close", "done"} /\ game.goal = "fill"
     /\ flag.buffered # 2 =>
       \/ /\ next + game.todo = movie.len + 1
          /\ IF game.pc = "tail" THEN game.todo = 0 ELSE game.todo >= 1
       \/ next = movie.len + 1 /\ game.pc \in {"header", "stop"}
  /\ game.goal = "lap" /\ flag.buffered # 2 => next \in {1, movie.len + 1}
  /\ flag.buffered = 2 => next = movie.len + 1

\* A movie that is all in the ring goes round in it.
LapInRing ==
  flag.buffered = 2 =>
    /\ \A a \in DOMAIN ring.held : ring.held[a] # 0 =>
         ring.held[Past(a, ring.held[a])] = Succ(ring.held[a])
    /\ game.goal # "flush"
    /\ ring.held[at.fill] \in 1..movie.len /\ at.fill \in DOMAIN ring.held
    /\ game.pc \in Early \cup {"start", "tail"} \/ game.goal = "lap" => ring.held[at.fill] = 1
    /\ game.pc \notin Early \cup {"start", "tail", "close", "done"} /\ game.goal = "fill" =>
         ring.held[at.fill] + game.todo = movie.len + 1

\* The chunk in the window that has been decoded, and where the window ends.
Decoded(n, p, w) ==
  /\ ~Primed => /\ seen.frame = 0 /\ seen.block = 0 /\ at.prev = 0 /\ n = next - 1
                /\ n > 0 => ring.held[p[0]] = 1
  /\ game.pc = "preload" =>
       w = n + 1 /\ \A a \in DOMAIN ring.held : ring.held[a] # 0 => \E k \in 0..n - 1 : a = p[k]
  /\ game.pc \in {"opened", "prime"} => n > 0
  /\ Primed => /\ n > 0 /\ at.cur = p[1]
               /\ IF game.pc \in {"load", "store"}
                  THEN n > 1 /\ seen.frame = ring.held[p[1]]
                  ELSE seen.frame = ring.held[p[0]]
  /\ game.pc = "start" => seen.frame = 1
  /\ n > 0 /\ flag.buffered # 2 =>
       \/ next = ring.held[p[n - 1]] + 1
       \/ movie.looped /\ next = 1 /\ ring.held[p[n - 1]] = movie.len
  /\ game.goal = "flush" => n > 0 /\ ring.held[p[n - 1]] = movie.len

\* How far a silent movie that ends is from its end.
SilentCount ==
  ~movie.sound /\ ~movie.looped =>
    /\ game.pc \in {"opened", "prime"} => left.video = movie.len - 2
    /\ Primed => left.video = movie.len - 1 - seen.frame

\* The window's chunk under the sound cursor, which is ahead of the decoder by
\* all the frames that are pending.
Sounding(n, p) ==
  movie.sound =>
    /\ game.pc \in {"opened", "prime"} => left.sound <= movie.len - 2
    /\ Primed => \E j \in 1..n :
         /\ at.sound = p[j]
         /\ left.sound + ring.held[p[j - 1]] + 1 <= movie.len
         /\ \/ seen.block = ring.held[p[j - 1]]
            \/ game.pc = "start" /\ seen.block = 0 /\ j = 1
         /\ game.pc # "store" => left.pending \in 0..j - 1
         /\ game.pc = "load" => left.pending > 0
         /\ game.pc = "store" => game.loaded \in 1..j - 1

\* Clearing the picture is asked for at the start of a lap.
KeysAtTheStart ==
  /\ ring.keyed \subseteq DOMAIN ring.held
  /\ game.pc \in Early \cup {"start"} => ring.keyed = {} /\ ~flag.rekey
  /\ flag.rekey =>
       /\ game.goal = "lap" \/ game.pc \in {"header", "stop", "close", "done"}
       /\ flag.buffered # 2 => next \in {1, movie.len + 1}
       /\ flag.buffered = 2 => ring.held[at.fill] = 1
  /\ KeyframesOnlyAtTheStart
  /\ game.pc = "payload" /\ at.fill \in ring.keyed => next = 1

Located == \E n, p, w : Window(n, p, w) /\ Decoded(n, p, w) /\ Sounding(n, p)

RingInv ==
  CountInv /\ RingType /\ Phases /\ ChunksLeft /\ LapInRing /\ SilentCount /\ Located

(* What leaves the chunks of the window alone leaves the window alone; it   *)
(* does not matter where the reader is once it reads no more.               *)
LEMMA WindowStays ==
  ASSUME NEW n, NEW p, NEW w, Window(n, p, w), movie' = movie, ring'.end = ring.end,
         \A k \in 0..n - 1 : ring'.held[p[k]] = ring.held[p[k]],
         at'.prev = at.prev, at'.fill \in {at.fill, NoMore}
  PROVE  Window(n, p, w)'
<1>1. /\ \A a, b : After(a, b)' = After(a, b)
      /\ \A a, b : Past(a, b)' = IF After(a, b) + Stride > ring'.end THEN 0 ELSE After(a, b)
      /\ \A b : Succ(b)' = Succ(b)
  BY DEF After, Past, Succ
<1>2. n \in Nat /\ \A k, l \in 0..n : k < l => k \in 0..n - 1
  BY DEF Window
<1>3. Chained(n, p)'
  <2>1. \A k \in 0..n - 1 : /\ ring'.held[p[k]] \in 1..movie'.len
                            /\ p[k + 1] = Past(p[k], ring.held[p[k]])
    BY DEF Window, Chained
  <2>2. \A k \in 0..n - 1 : Past(p[k], ring.held[p[k]])' = Past(p[k], ring.held[p[k]])
    BY <1>1 DEF Past
  <2>3. \A k \in 1..n - 1 : ring'.held[p[k]] = Succ(ring'.held[p[k - 1]])
    <3>1. \A k \in 1..n - 1 : k \in 0..n - 1 /\ k - 1 \in 0..n - 1
      BY <1>2
    <3> QED
      BY <3>1 DEF Window, Chained
  <2>4. ~movie.looped => \A k \in 0..n - 1 : ring'.held[p[k]] = ring'.held[p[0]] + k
    <3>1. \A k \in 0..n - 1 : 0 \in 0..n - 1
      BY <1>2
    <3> QED
      BY <3>1 DEF Window, Chained
  <2> QED
    BY <1>1, <2>1, <2>2, <2>3, <2>4 DEF Chained
<1>4. Laid(n, p, w)'
  <2>1. \A k, l \in 0..n : k < l /\ (l < w \/ k >= w) => After(p[k], ring'.held[p[k]]) <= p[l]
    BY <1>2 DEF Window, Laid
  <2> QED
    BY <1>1, <2>1 DEF Window, Laid
<1> QED
  BY <1>3, <1>4 DEF Window

\* Where the playback loop stands while it reads.
Mid == {"boundary", "drain", "again", "flushed", "above", "below", "header", "payload",
        "lapload", "lapstore", "stop"}

(* A step of the game thread that moves on inside the loop keeps the ring.  *)
LEMMA GotoKeepsTheRing ==
  ASSUME RingInv, CountInv', NEW a \in Mid \ {"stop"}, NEW b \in Mid \ {"payload", "lapstore"},
         Goto(a, b),
         b = "drain" => movie.sound, b \in {"header", "lapload"} => Roomy,
         a = "header" => b = "stop"
  PROVE  RingInv'
<1>1. /\ UNCHANGED <<movie, ring, at, left, flag, next, seen, lost, drift>>
      /\ game.pc = a /\ game'.pc = b /\ game'.goal = game.goal /\ game'.todo = game.todo
      /\ game'.loaded = game.loaded
  BY DEF Goto, RingInv, CountInv, CounterType, Games
<1>2. RingType'
  BY <1>1 DEF RingInv, RingType
<1>3. Phases'
  BY <1>1 DEF RingInv, Phases, Early, Primed, Mid, Roomy
<1>4. ChunksLeft'
  BY <1>1 DEF RingInv, ChunksLeft, Early, Mid
<1>5. LapInRing'
  <2>1. (\A x, y : Past(x, y)' = Past(x, y)) /\ \A x : Succ(x)' = Succ(x)
    BY <1>1 DEF Past, After, Succ
  <2> QED
    BY <1>1, <2>1 DEF RingInv, LapInRing, Early, Mid
<1>6. SilentCount'
  BY <1>1 DEF RingInv, SilentCount, Primed, Mid
<1>7. Located'
  <2>1. PICK n, p, w : Window(n, p, w) /\ Decoded(n, p, w) /\ Sounding(n, p)
    BY DEF RingInv, Located
  <2>2. Window(n, p, w)'
    BY <1>1, <2>1, WindowStays
  <2>3. Decoded(n, p, w)'
    BY <1>1, <2>1 DEF Decoded, Primed, Mid
  <2>4. Sounding(n, p)'
    BY <1>1, <2>1 DEF Sounding, Primed, Mid
  <2> QED
    BY <2>2, <2>3, <2>4 DEF Located
<1> QED
  BY <1>2, <1>3, <1>4, <1>5, <1>6, <1>7 DEF RingInv

(* The numbers of the invariant.                                            *)
LEMMA RingNumbers ==
  ASSUME RingInv
  PROVE  /\ movie.len \in Nat \ {0} /\ next \in 1..movie.len + 1 /\ next \in Int
         /\ seen.frame \in 0..movie.len /\ seen.block \in Int /\ lost \in Nat
         /\ left.video \in Int /\ left.sound \in Int /\ left.pending \in Int
         /\ left.ahead \in Int /\ game.todo \in Int /\ game.loaded \in Int
         /\ at.fill \in Int /\ at.prev \in Nat /\ at.cur \in Nat /\ at.sound \in Int
         /\ ring.end \in Nat /\ Stride \in Nat \ {0}
<1>1. ring.end \in Nat /\ Stride \in Nat \ {0}
  BY MovieAssumption DEF RingInv, RingType
<1>2. /\ movie.len \in Nat \ {0}
      /\ at.fill \in Int /\ at.prev \in Nat /\ at.cur \in Nat /\ at.sound \in Int
  BY DEF RingInv, RingType
<1>3. next \in 1..movie.len + 1 /\ seen.frame \in 0..movie.len /\ seen.block \in Int
  BY DEF RingInv, Phases
<1>4. next \in Int
  BY <1>2, <1>3
<1> QED
  BY <1>1, <1>2, <1>3, <1>4, CountersAreNumbers DEF RingInv, CountInv, CounterType

(* Nor does a step that leaves the ring and its cursors alone, or only ends *)
(* the reading.                                                             *)
LEMMA RingStays ==
  ASSUME RingInv, CountInv', movie' = movie, ring' = ring,
         at' = at \/ at' = [at EXCEPT !.fill = NoMore],
         Phases', ChunksLeft', LapInRing', SilentCount',
         ASSUME NEW n, NEW p, NEW w, Window(n, p, w), Decoded(n, p, w), Sounding(n, p)
         PROVE  Decoded(n, p, w)' /\ Sounding(n, p)'
  PROVE  RingInv'
<1>1. RingType' /\ at'.prev = at.prev /\ at'.fill \in {at.fill, NoMore}
  <2>1. CASE at' = at
    BY <2>1 DEF RingInv, RingType
  <2>2. CASE at' = [at EXCEPT !.fill = NoMore]
    <3>1. at' = [fill |-> NoMore, prev |-> at.prev, cur |-> at.cur, sound |-> at.sound]
      BY <2>2 DEF RingInv, RingType
    <3>2. at' \in [fill : Int, prev : Nat, cur : Nat, sound : Int]
      BY <3>1 DEF RingInv, RingType, NoMore
    <3> QED
      BY <3>1, <3>2 DEF RingInv, RingType
  <2> QED
    BY <2>1, <2>2
<1>2. PICK n, p, w : Window(n, p, w) /\ Decoded(n, p, w) /\ Sounding(n, p)
  BY DEF RingInv, Located
<1>3. Window(n, p, w)'
  BY <1>1, <1>2, WindowStays
<1>4. Decoded(n, p, w)' /\ Sounding(n, p)'
  BY <1>2
<1> QED
  BY <1>1, <1>3, <1>4 DEF RingInv, Located

(* Nor do the steps that open and close the movie and load a counter.       *)
LEMMA QuietStepsKeepTheRing ==
  ASSUME RingInv, CountInv',
         PreloadFails \/ BeginPlayback \/ LoadPending \/ LoadLap \/ Stop \/ Close
  PROVE  RingInv'
<1>1. /\ UNCHANGED <<movie, ring, at, left, next, seen>>
      /\ flag'.buffered = flag.buffered /\ game'.goal = game.goal /\ game'.todo = game.todo
      /\ \/ game.pc = "preload" /\ game'.pc = "close"
         \/ game.pc = "opened" /\ game'.pc \in {"prime", "close"}
         \/ game.pc = "load" /\ game'.pc = "store" /\ game'.loaded = left.pending
         \/ game.pc = "lapload" /\ game'.pc = "lapstore"
         \/ game.pc = "stop" /\ game'.pc = "close"
         \/ game.pc = "close" /\ game'.pc = "done"
  BY ZenonT(40) DEF PreloadFails, BeginPlayback, LoadPending, LoadLap, Stop, Close, Goto,
         Flags, Games, RingInv, CountInv, CounterType
<1>2. Phases'
  BY <1>1 DEF RingInv, Phases, Early, Primed, Roomy
<1>3. ChunksLeft'
  BY <1>1 DEF RingInv, ChunksLeft, Early
<1>4. LapInRing'
  <2>1. (\A x, y : Past(x, y)' = Past(x, y)) /\ \A x : Succ(x)' = Succ(x)
    BY <1>1 DEF Past, After, Succ
  <2> QED
    BY <1>1, <2>1 DEF RingInv, LapInRing, Early
<1>5. SilentCount'
  BY <1>1 DEF RingInv, SilentCount, Primed
<1>6. ASSUME NEW n, NEW p, NEW w, Window(n, p, w), Decoded(n, p, w), Sounding(n, p)
      PROVE  Decoded(n, p, w)' /\ Sounding(n, p)'
  <2>1. Decoded(n, p, w)'
    BY <1>1, <1>6 DEF Decoded, Primed
  <2>2. Sounding(n, p)'
    BY <1>1, <1>6 DEF Sounding, Primed
  <2> QED
    BY <2>1, <2>2
<1> QED
  BY <1>1, <1>2, <1>3, <1>4, <1>5, <1>6, RingStays

(* Playback begins: what is left to read is counted afresh.                 *)
LEMMA StartKeepsTheRing == ASSUME RingInv, CountInv', Start PROVE RingInv'
<1>1. /\ UNCHANGED <<movie, ring, at, left, next>> /\ flag'.buffered = flag.buffered
      /\ seen' = [frame |-> seen.frame, block |-> IF movie.sound /\ seen.block = 0 THEN 1
                                                 ELSE seen.block]
      /\ game.pc = "start" /\ game'.goal = game.goal /\ game'.todo = movie.len - 1 - left.ahead
      /\ game'.pc = IF movie.len - 1 - left.ahead > 0 THEN "boundary" ELSE "tail"
  BY DEF Start, RingInv, CountInv, CounterType, Games, Phases
<1>0. /\ left.ahead = next - 2 /\ (flag.buffered = 2 => next = movie.len + 1)
      /\ game'.todo = movie.len + 1 - next /\ game.goal = "fill"
      /\ game'.pc = IF game'.todo > 0 THEN "boundary" ELSE "tail"
  BY <1>1, RingNumbers DEF RingInv, ChunksLeft, CountInv, LapsAreLooped
<1>7. seen' \in [frame : 0..movie.len, block : Int]
  BY <1>1, RingNumbers
<1>2. Phases'
  BY <1>1, <1>7 DEF RingInv, Phases, Early, Primed, Roomy
<1>3. ChunksLeft'
  BY <1>0, <1>1, RingNumbers DEF ChunksLeft, Early
<1>4. LapInRing'
  <2>1. (\A x, y : Past(x, y)' = Past(x, y)) /\ \A x : Succ(x)' = Succ(x)
    BY <1>1 DEF Past, After, Succ
  <2> QED
    BY <1>0, <1>1, <2>1, RingNumbers DEF RingInv, LapInRing, Early
<1>5. SilentCount'
  BY <1>1 DEF RingInv, SilentCount, Primed
<1>6. ASSUME NEW n, NEW p, NEW w, Window(n, p, w), Decoded(n, p, w), Sounding(n, p)
      PROVE  Decoded(n, p, w)' /\ Sounding(n, p)'
  <2>1. Decoded(n, p, w)'
    BY <1>1, <1>6 DEF Decoded, Primed
  <2>2. Sounding(n, p)'
    <3>1. Primed /\ seen.frame = ring.held[p[0]] /\ seen.frame = 1
      BY <1>1, <1>6 DEF RingInv, Phases, Decoded, Early
    <3>2. CASE ~movie.sound
      BY <1>1, <3>2 DEF Sounding
    <3>3. CASE movie.sound
      <4>1. PICK j \in 1..n :
              /\ at.sound = p[j] /\ left.sound + ring.held[p[j - 1]] + 1 <= movie.len
              /\ seen.block = ring.held[p[j - 1]] \/ (seen.block = 0 /\ j = 1)
              /\ left.pending \in 0..j - 1
        BY <1>1, <1>6, <3>1, <3>3 DEF Sounding
      <4>2. ring.held[p[j - 1]] # 0
        BY <1>6 DEF Window, Chained
      <4>3. seen'.block = ring.held[p[j - 1]]
        <5>1. seen'.block = IF seen.block = 0 THEN 1 ELSE seen.block
          BY <1>1, <3>3
        <5>2. CASE seen.block = 0 /\ j = 1
          <6>1. p[j - 1] = p[0]
            BY <5>2
          <6> QED
            BY <3>1, <5>1, <5>2, <6>1
        <5>3. CASE seen.block = ring.held[p[j - 1]]
          BY <4>2, <5>1, <5>3
        <5> QED
          BY <4>1, <5>2, <5>3
      <4>4. game'.pc \in {"boundary", "tail"}
        BY <1>1
      <4> QED
        BY <1>1, <4>1, <4>3, <4>4 DEF Sounding, Early
    <3> QED
      BY <3>2, <3>3
  <2> QED
    BY <2>1, <2>2
<1> QED
  BY <1>1, <1>2, <1>3, <1>4, <1>5, <1>6, RingStays

(* A pending frame is decoded before the decoder moves on.                  *)
LEMMA DrainKeepsTheRing == ASSUME RingInv, CountInv', Drain PROVE RingInv'
<1>1. /\ UNCHANGED <<movie, ring, at, left, flag, next>> /\ game.pc = "drain" /\ movie.sound
      /\ Primed /\ game'.goal = game.goal /\ game'.todo = game.todo
      /\ seen'.block = seen.block
      /\ \/ left.pending = 0 /\ game'.pc = "again" /\ seen' = seen
         \/ /\ left.pending # 0 /\ game'.pc = "load"
            /\ seen' = [frame |-> ring.held[at.cur], block |-> seen.block]
  BY DEF Drain, RingInv, CountInv, CounterType, Games, Phases, Early
<1>2. ASSUME NEW n, NEW p, NEW w, Window(n, p, w), Decoded(n, p, w), Sounding(n, p),
             left.pending # 0
      PROVE  n > 1 /\ at.cur = p[1] /\ ring.held[p[1]] \in 1..movie.len
  <2>1. at.cur = p[1] /\ n \in Nat
    BY <1>1, <1>2 DEF Decoded, Window
  <2>2. PICK j \in 1..n : left.pending \in 0..j - 1
    BY <1>1, <1>2 DEF Sounding
  <2>3. n > 1
    BY <1>2, <2>1, <2>2
  <2> QED
    BY <1>2, <2>1, <2>3 DEF Window, Chained
<1>3. Phases'
  <2>1. PICK n, p, w : Window(n, p, w) /\ Decoded(n, p, w) /\ Sounding(n, p)
    BY DEF RingInv, Located
  <2>2. seen' \in [frame : 0..movie.len, block : Int]
    BY <1>1, <1>2, <2>1, RingNumbers DEF RingInv, Phases
  <2> QED
    BY <1>1, <2>2 DEF RingInv, Phases, Early, Primed, Roomy
<1>4. ChunksLeft'
  BY <1>1 DEF RingInv, ChunksLeft, Early
<1>5. LapInRing' /\ SilentCount'
  <2>1. ~movie.looped /\ flag'.buffered # 2
    BY <1>1 DEF RingInv, Phases, CountInv, LapsAreLooped
  <2> QED
    BY <1>1, <2>1 DEF LapInRing, SilentCount
<1>6. ASSUME NEW n, NEW p, NEW w, Window(n, p, w), Decoded(n, p, w), Sounding(n, p)
      PROVE  Decoded(n, p, w)' /\ Sounding(n, p)'
  <2>1. CASE left.pending = 0
    BY <1>1, <1>6, <2>1 DEF Decoded, Sounding, Primed
  <2>2. CASE left.pending # 0
    <3>1. Decoded(n, p, w)'
      BY <1>1, <1>2, <1>6, <2>2 DEF Decoded, Primed
    <3>2. Sounding(n, p)'
      BY <1>1, <1>6, <2>2 DEF Sounding, Primed
    <3> QED
      BY <3>1, <3>2
  <2> QED
    BY <2>1, <2>2
<1> QED
  BY <1>1, <1>3, <1>4, <1>5, <1>6, RingStays

(* A lap is added, and as many chunks are to be read.                       *)
LEMMA StoreLapKeepsTheRing == ASSUME RingInv, CountInv', StoreLap PROVE RingInv'
<1>1. /\ UNCHANGED <<movie, ring, at, flag, next, seen>> /\ game.pc = "lapstore"
      /\ game'.goal = "fill" /\ game'.todo = movie.len /\ game'.pc = "header"
      /\ movie.looped /\ ~movie.sound /\ game.goal = "lap"
  BY DEF StoreLap, LapsAreLooped, RingInv, CountInv, CounterType, Games
<1>2. Phases'
  BY <1>1 DEF RingInv, Phases, Early, Primed, Roomy
<1>3. ChunksLeft'
  BY <1>1, RingNumbers DEF RingInv, ChunksLeft, Early
<1>4. LapInRing'
  <2>1. (\A x, y : Past(x, y)' = Past(x, y)) /\ \A x : Succ(x)' = Succ(x)
    BY <1>1 DEF Past, After, Succ
  <2> QED
    BY <1>1, <2>1, RingNumbers DEF RingInv, LapInRing, Early
<1>5. SilentCount'
  BY <1>1 DEF RingInv, SilentCount, Primed
<1>6. ASSUME NEW n, NEW p, NEW w, Window(n, p, w), Decoded(n, p, w), Sounding(n, p)
      PROVE  Decoded(n, p, w)' /\ Sounding(n, p)'
  <2>1. Decoded(n, p, w)'
    BY <1>1, <1>6 DEF Decoded, Primed
  <2>2. Sounding(n, p)'
    BY <1>1, <1>6 DEF Sounding, Primed
  <2> QED
    BY <2>1, <2>2
<1> QED
  BY <1>1, <1>2, <1>3, <1>4, <1>5, <1>6, RingStays

(* The last chunk of the file is in the ring.                               *)
LEMMA TailKeepsTheRing == ASSUME RingInv, CountInv', Tail PROVE RingInv'
<1>1. /\ UNCHANGED <<movie, ring, left, seen>> /\ game.pc = "tail" /\ game'.pc = "boundary"
      /\ flag'.buffered = flag.buffered /\ game.goal = "fill"
      /\ \/ /\ movie.looped /\ at' = at /\ game'.goal = "lap"
            /\ next' \in (IF flag.buffered = 2 THEN {next} ELSE {1, next})
         \/ /\ ~movie.looped /\ at' = [at EXCEPT !.fill = NoMore] /\ game'.goal = "flush"
            /\ next' = next /\ at'.fill = NoMore
      /\ at'.prev = at.prev /\ at'.cur = at.cur /\ at'.sound = at.sound
  BY ZenonT(40) DEF Tail, Flags, LapsAreLooped, RingType, RingInv, CountInv, CounterType, Games
<1>7. flag.buffered # 2 => next = movie.len + 1
  BY <1>1, RingNumbers DEF RingInv, ChunksLeft, Early
<1>8. flag.buffered = 2 => next = movie.len + 1 /\ ring.held[at.fill] = 1 /\ movie.looped
  BY <1>1 DEF RingInv, ChunksLeft, LapInRing, Phases
<1>9. at.fill # NoMore /\ next' \in 1..movie.len + 1
  BY <1>1, <1>7, <1>8, RingNumbers DEF RingInv, Phases
<1>2. Phases'
  BY <1>1, <1>9 DEF RingInv, Phases, Early, Primed, Roomy
<1>3. ChunksLeft'
  BY <1>1, <1>7, <1>8 DEF RingInv, ChunksLeft, Early
<1>4. LapInRing'
  <2>1. (\A x, y : Past(x, y)' = Past(x, y)) /\ \A x : Succ(x)' = Succ(x)
    BY <1>1 DEF Past, After, Succ
  <2> QED
    BY <1>1, <1>8, <2>1 DEF RingInv, LapInRing, Early
<1>5. SilentCount'
  BY <1>1 DEF RingInv, SilentCount, Primed
<1>6. ASSUME NEW n, NEW p, NEW w, Window(n, p, w), Decoded(n, p, w), Sounding(n, p)
      PROVE  Decoded(n, p, w)' /\ Sounding(n, p)'
  <2>3. Primed /\ n > 0
    BY <1>1, <1>6 DEF RingInv, Phases, Decoded, Early
  <2>4. ring.held[p[n - 1]] \in 1..movie.len /\ n - 1 \in 0..n - 1
    BY <1>6, <2>3 DEF Window, Chained
  <2>5. flag.buffered # 2 => ring.held[p[n - 1]] = movie.len
    BY <1>6, <1>7, <2>3, <2>4, RingNumbers DEF Decoded
  <2>1. Decoded(n, p, w)'
    BY <1>1, <1>6, <1>7, <1>8, <2>3, <2>5, RingNumbers DEF Decoded, Primed
  <2>2. Sounding(n, p)'
    BY <1>1, <1>6 DEF Sounding, Primed
  <2> QED
    BY <2>1, <2>2
<1> QED
  BY <1>1, <1>2, <1>3, <1>4, <1>5, <1>6, RingStays

(* The decoder moves on to the window's next chunk.                         *)
LEMMA DecoderAdvances ==
  ASSUME RingInv, NEW n, NEW p, NEW w, Window(n, p, w), n >= 2, at.cur = p[1],
         movie' = movie, ring' = ring, at' = CurPassed
  PROVE  /\ at'.prev = p[1] /\ at'.fill = at.fill /\ at'.sound = at.sound /\ RingType'
         /\ Roomy /\ at.fill # NoMore => Roomy'
         /\ \E q, v : /\ Window(n - 1, q, v)' /\ at'.cur = q[1]
                      /\ \A k \in 0..n - 1 : q[k] = p[k + 1]
<1>1. /\ n \in Nat /\ p \in [0..n -> Nat] /\ w \in 1..n + 1 /\ p[0] = at.prev
      /\ 0 \in 0..n /\ 1 \in 0..n /\ n \in 0..n /\ 2 \in 0..n /\ 0 < 1 /\ 1 < n
      /\ p[1] \in Nat /\ p[0] \in Nat /\ p[2] \in Nat /\ p[n] \in Nat
      /\ 1 \in 0..n - 1 /\ 0 \in 0..n - 1
  BY DEF Window
<1>2. ring.held[p[1]] \in 1..movie.len /\ p[1 + 1] = Past(p[1], ring.held[p[1]])
      /\ ring.held[p[0]] \in 1..movie.len
  BY <1>1 DEF Window, Chained
<1>3. at' = [fill |-> at.fill, prev |-> p[1], cur |-> p[2], sound |-> at.sound]
  <2>1. p[2] = Past(at.cur, ring.held[at.cur]) /\ at.cur = p[1]
    BY <1>2
  <2>2. at \in [fill : Int, prev : Nat, cur : Nat, sound : Int]
    BY DEF RingInv, RingType
  <2> QED
    BY <2>1, <2>2 DEF CurPassed
<1>4. RingType'
  <2>1. at' \in [fill : Int, prev : Nat, cur : Nat, sound : Int]
    BY <1>1, <1>3, RingNumbers
  <2> QED
    BY <2>1 DEF RingInv, RingType
<1>5. ASSUME Roomy, at.fill # NoMore PROVE Roomy'
  <2>0. p[n] = at.fill /\ Stride \in Nat /\ at.fill \in Int
    BY <1>5, RingNumbers DEF Window
  <2>1. /\ p[0] < After(p[0], ring.held[p[0]]) /\ After(p[0], ring.held[p[0]]) \in Nat
        /\ p[1] < After(p[1], ring.held[p[1]]) /\ After(p[1], ring.held[p[1]]) \in Nat
    BY <1>1, <1>2, SlotsFit DEF RingInv
  <2>2. CASE w = n + 1 \/ w = 1
    <3>1. After(p[1], ring.held[p[1]]) <= p[n]
      <4>1. n < w \/ 1 >= w
        BY <1>1, <2>2
      <4> QED
        BY <1>1, <4>1 DEF Window, Laid
    <3> QED
      BY <1>1, <1>3, <2>0, <2>1, <3>1 DEF Roomy
  <2>3. CASE w # n + 1 /\ w # 1
    <3>1. at.fill + Stride < at.prev
      BY <1>5, <2>3, WrappedIsBelow DEF RingInv
    <3>2. After(p[0], ring.held[p[0]]) <= p[1]
      <4>1. 1 < w
        BY <1>1, <2>3
      <4> QED
        BY <1>1, <4>1 DEF Window, Laid
    <3> QED
      BY <1>1, <1>3, <2>0, <2>1, <3>1, <3>2 DEF Roomy
  <2> QED
    BY <2>2, <2>3
<1>6. PICK q, v : Window(n - 1, q, v)' /\ \A k \in 0..n - 1 : q[k] = p[k + 1]
  BY <1>3, WindowShrinks DEF RingInv
<1>7. q[1] = p[2]
  BY <1>1, <1>6
<1> QED
  BY <1>3, <1>4, <1>5, <1>6, <1>7

(* The tick of a silent movie decodes the chunk after the last one.         *)
LEMMA SilentTickFindsAChunk ==
  ASSUME RingInv, SilentTick, NEW n, NEW p, NEW w, Window(n, p, w), Decoded(n, p, w)
  PROVE  /\ n >= 2 /\ n \in Nat /\ Primed /\ at.cur = p[1] /\ seen.frame = ring.held[p[0]]
         /\ ring.held[p[0]] \in 1..movie.len /\ ring.held[p[1]] \in 1..movie.len
         /\ ring.held[p[1]] = Succ(ring.held[p[0]])
         /\ ~movie.looped => ring.held[p[1]] = ring.held[p[0]] + 1
         /\ game.pc \in Mid \cup {"tail"} /\ game.pc \notin {"load", "store", "start"}
         /\ ~movie.sound
<1>1. /\ ~movie.sound /\ flag.playing /\ left.video >= 0 /\ ~CaughtUp(at.cur)
  BY DEF SilentTick
<1>2. game.pc \in Mid \cup {"tail"} /\ game.pc \notin {"load", "store", "start"}
  BY <1>1 DEF RingInv, CountInv, PlayingIsOpen, CounterType, Games, PCs, Phases, Mid
<1>3. Primed /\ n > 0 /\ n \in Nat /\ at.cur = p[1] /\ seen.frame = ring.held[p[0]]
  BY <1>2 DEF RingInv, Phases, Decoded, Window, Early, Mid
<1>4. n # 1
  <2> SUFFICES ASSUME n = 1 PROVE FALSE
    OBVIOUS
  <2>1. at.fill = NoMore
    BY <1>1, <1>3 DEF Window, CaughtUp
  <2>2. ring.held[p[0]] = movie.len /\ ~movie.looped
    BY <2>1 DEF RingInv, Phases, Decoded
  <2>3. left.video = movie.len - 1 - movie.len
    BY <1>1, <1>3, <2>2 DEF RingInv, SilentCount
  <2> QED
    BY <1>1, <2>3, RingNumbers
<1>5. n >= 2 /\ 0 \in 0..n - 1 /\ 1 \in 0..n - 1 /\ 1 \in 1..n - 1 /\ 1 - 1 = 0
  BY <1>3, <1>4
<1>6. /\ ring.held[p[0]] \in 1..movie.len /\ ring.held[p[1]] \in 1..movie.len
      /\ ring.held[p[1]] = Succ(ring.held[p[1 - 1]])
      /\ ~movie.looped => ring.held[p[1]] = ring.held[p[0]] + 1
  BY <1>5 DEF Window, Chained
<1> QED
  BY <1>1, <1>2, <1>3, <1>5, <1>6

(* The decoder's step of a silent movie keeps the ring's invariant.         *)
LEMMA SilentTickKeepsTheRing == ASSUME RingInv, CountInv', SilentTick PROVE RingInv'
<1>1. PICK n, p, w : Window(n, p, w) /\ Decoded(n, p, w) /\ Sounding(n, p)
  BY DEF RingInv, Located
<1>2. /\ n >= 2 /\ n \in Nat /\ Primed /\ at.cur = p[1] /\ seen.frame = ring.held[p[0]]
      /\ ring.held[p[0]] \in 1..movie.len /\ ring.held[p[1]] \in 1..movie.len
      /\ ~movie.looped => ring.held[p[1]] = ring.held[p[0]] + 1
      /\ game.pc \in Mid \cup {"tail"} /\ game.pc \notin {"load", "store", "start"}
      /\ ~movie.sound
  BY <1>1, SilentTickFindsAChunk
<1>3. /\ UNCHANGED <<movie, ring, flag, game, next, lost>> /\ at' = CurPassed
      /\ left'.video = left.video - 1 /\ left'.ahead = left.ahead
      /\ seen' = [frame |-> ring.held[p[1]], block |-> seen.block]
  BY <1>2 DEF SilentTick, RingInv, CountInv, CounterType, Lefts, Phases
<1>4. /\ at'.prev = p[1] /\ at'.fill = at.fill /\ at'.sound = at.sound /\ RingType'
      /\ Roomy /\ at.fill # NoMore => Roomy'
  BY <1>1, <1>2, <1>3, DecoderAdvances
<1>5. PICK q, v : /\ Window(n - 1, q, v)' /\ at'.cur = q[1]
                  /\ \A k \in 0..n - 1 : q[k] = p[k + 1]
  BY <1>1, <1>2, <1>3, DecoderAdvances
<1>6. q[0] = p[1] /\ q[(n - 1) - 1] = p[n - 1]
  BY <1>2, <1>5
<1>7. Phases'
  <2>1. seen' \in [frame : 0..movie.len, block : Int]
    BY <1>2, <1>3, RingNumbers
  <2>2. game.pc \in {"header", "payload", "lapload", "lapstore"} => Roomy'
    BY <1>4 DEF RingInv, Phases, CountInv, LapsAreLooped
  <2> QED
    BY <1>2, <1>3, <1>4, <2>1, <2>2 DEF RingInv, Phases, Primed, Early, Mid
<1>8. ChunksLeft'
  BY <1>3 DEF RingInv, ChunksLeft
<1>9. LapInRing'
  <2>1. (\A x, y : Past(x, y)' = Past(x, y)) /\ \A x : Succ(x)' = Succ(x)
    BY <1>3 DEF Past, After, Succ
  <2> QED
    BY <1>3, <1>4, <2>1 DEF RingInv, LapInRing
<1>10. SilentCount'
  BY <1>2, <1>3, RingNumbers DEF RingInv, SilentCount, Mid
<1>11. Decoded(n - 1, q, v)'
  BY <1>1, <1>2, <1>3, <1>4, <1>5, <1>6 DEF Decoded, Primed, Mid
<1>12. Sounding(n - 1, q)'
  BY <1>2, <1>3 DEF Sounding
<1> QED
  BY <1>4, <1>5, <1>7, <1>8, <1>9, <1>10, <1>11, <1>12 DEF RingInv, Located
(* The tick of a movie with sound ships the chunk that it is due, unless    *)
(* nothing has been shown yet.                                              *)
LEMMA SoundTickFindsAChunk ==
  ASSUME RingInv, SoundTick, Primed, NEW n, NEW p, NEW w, Window(n, p, w), Decoded(n, p, w),
         NEW j \in 1..n, at.sound = p[j], left.sound + ring.held[p[j - 1]] + 1 <= movie.len
  PROVE  /\ n \in Nat /\ j < n /\ ring.held[p[j]] \in 1..movie.len
         /\ ring.held[p[j - 1]] \in 1..movie.len
         /\ ring.held[p[j]] = ring.held[p[j - 1]] + 1
         /\ Past(at.sound, ring.held[at.sound]) = p[j + 1] /\ p[j + 1] \in Nat
<1>1. movie.sound /\ ~movie.looped /\ left.sound >= 0 /\ ~CaughtUp(at.sound) /\ n \in Nat
  BY DEF SoundTick, RingInv, CountInv, LapsAreLooped, Window
<1>2. j # n
  <2> SUFFICES ASSUME j = n PROVE FALSE
    OBVIOUS
  <2>1. at.fill = NoMore
    BY <1>1 DEF Window, CaughtUp
  <2>2. ring.held[p[n - 1]] = movie.len
    BY <2>1 DEF RingInv, Phases, Decoded
  <2> QED
    BY <1>1, <2>2, RingNumbers
<1>3. j \in 0..n - 1 /\ j - 1 \in 0..n - 1 /\ 0 \in 0..n - 1 /\ j + 1 \in 0..n
  BY <1>1, <1>2
<1>4. /\ ring.held[p[j]] \in 1..movie.len /\ ring.held[p[j - 1]] \in 1..movie.len
      /\ p[j + 1] = Past(p[j], ring.held[p[j]])
      /\ ring.held[p[j]] = ring.held[p[0]] + j
      /\ ring.held[p[j - 1]] = ring.held[p[0]] + (j - 1) /\ ring.held[p[0]] \in 1..movie.len
  BY <1>1, <1>3 DEF Window, Chained
<1>5. ring.held[p[j]] = ring.held[p[j - 1]] + 1
  BY <1>1, <1>4, RingNumbers
<1>6. p[j + 1] \in Nat
  BY <1>3 DEF Window
<1> QED
  BY <1>1, <1>2, <1>3, <1>4, <1>5, <1>6

(* Shipping a block keeps the ring's invariant.                             *)
LEMMA SoundTickKeepsTheRing == ASSUME RingInv, CountInv', SoundTick PROVE RingInv'
<1>1. PICK n, p, w : Window(n, p, w) /\ Decoded(n, p, w) /\ Sounding(n, p)
  BY DEF RingInv, Located
<1>2. /\ UNCHANGED <<movie, ring, flag, game, next, drift>> /\ movie.sound
      /\ game.pc # "preload" /\ flag.buffered = 0
      /\ left'.sound = left.sound - 1 /\ left'.pending = left.pending + 1
      /\ left'.ahead = left.ahead
  BY DEF SoundTick, RingInv, CountInv, CounterType, PlayingIsOpen, LapsAreLooped, Lefts, Phases
<1>3. ChunksLeft'
  BY <1>2 DEF RingInv, ChunksLeft
<1>4. LapInRing' /\ SilentCount'
  BY <1>2 DEF LapInRing, SilentCount
<1>5. CASE ~Primed
  <2>1. UNCHANGED <<at, seen>> /\ game.pc \in Early \cup {"close", "done"}
    BY <1>5 DEF SoundTick, Primed, RingInv, Phases
  <2>2. RingType' /\ Phases'
    BY <1>2, <2>1 DEF RingInv, RingType, Phases, Primed, Roomy
  <2>3. Window(n, p, w)'
    BY <1>1, <1>2, <2>1, WindowStays
  <2>4. Decoded(n, p, w)'
    BY <1>1, <1>2, <2>1 DEF Decoded, Primed
  <2>5. Sounding(n, p)'
    BY <1>1, <1>2, <1>5, <2>1, RingNumbers DEF Sounding, Primed
  <2> QED
    BY <1>3, <1>4, <2>2, <2>3, <2>4, <2>5 DEF RingInv, Located
<1>6. CASE Primed
  <2>1. PICK j \in 1..n :
          /\ at.sound = p[j] /\ left.sound + ring.held[p[j - 1]] + 1 <= movie.len
          /\ game.pc # "store" => left.pending \in 0..j - 1
          /\ game.pc = "load" => left.pending > 0
          /\ game.pc = "store" => game.loaded \in 1..j - 1
    BY <1>1, <1>2, <1>6 DEF Sounding
  <2>2. /\ n \in Nat /\ j < n /\ ring.held[p[j]] \in 1..movie.len
        /\ ring.held[p[j - 1]] \in 1..movie.len
        /\ ring.held[p[j]] = ring.held[p[j - 1]] + 1
        /\ Past(at.sound, ring.held[at.sound]) = p[j + 1] /\ p[j + 1] \in Nat
    BY <1>1, <1>6, <2>1, SoundTickFindsAChunk
  <2>3. at' = [fill |-> at.fill, prev |-> at.prev, cur |-> at.cur, sound |-> p[j + 1]]
        /\ seen' = [frame |-> seen.frame, block |-> ring.held[p[j]]]
    <3>1. /\ at' = [at EXCEPT !.sound = p[j + 1]]
          /\ seen' = [seen EXCEPT !.block = ring.held[p[j]]]
      BY <1>6, <2>1, <2>2 DEF SoundTick, SoundPassed, Primed
    <3> QED
      BY <3>1 DEF RingInv, RingType, Phases
  <2>4. RingType'
    <3>1. at' \in [fill : Int, prev : Nat, cur : Nat, sound : Int]
      BY <2>2, <2>3, RingNumbers
    <3> QED
      BY <1>2, <3>1 DEF RingInv, RingType
  <2>5. Primed'
    BY <2>2, <2>3 DEF Primed, Nowhere
  <2>6. Phases'
    <3>1. seen' \in [frame : 0..movie.len, block : Int]
      BY <2>2, <2>3, RingNumbers
    <3>2. game.pc \notin Early
      BY <1>6 DEF RingInv, Phases
    <3> QED
      BY <1>2, <2>3, <2>5, <3>1, <3>2 DEF RingInv, Phases, Roomy
  <2>7. Window(n, p, w)'
    BY <1>1, <1>2, <2>3, WindowStays
  <2>8. Decoded(n, p, w)'
    BY <1>1, <1>2, <1>6, <2>3, <2>5 DEF Decoded
  <2>9. Sounding(n, p)'
    <3>1. /\ at'.sound = p[j + 1] /\ seen'.block = ring'.held[p[(j + 1) - 1]]
          /\ j + 1 \in 1..n /\ game'.pc \notin {"opened", "prime"}
      BY <1>2, <1>6, <2>2, <2>3 DEF RingInv, Phases, Early
    <3>2. left'.sound + ring'.held[p[(j + 1) - 1]] + 1 <= movie'.len
      <4>1. (j + 1) - 1 = j
        BY <2>2
      <4> QED
        BY <1>2, <2>1, <2>2, <4>1, RingNumbers
    <3>3. game'.pc # "store" => left'.pending \in 0..(j + 1) - 1
      BY <1>2, <2>1
    <3>4. game'.pc = "load" => left'.pending > 0
      BY <1>2, <2>1, RingNumbers
    <3>5. game'.pc = "store" => game'.loaded \in 1..(j + 1) - 1
      BY <1>2, <2>1
    <3> QED
      BY <3>1, <3>2, <3>3, <3>4, <3>5 DEF Sounding
  <2> QED
    BY <1>3, <1>4, <2>4, <2>6, <2>7, <2>8, <2>9 DEF RingInv, Located
<1> QED
  BY <1>5, <1>6

(* The game thread moves the decoder past a pending frame.                  *)
LEMMA StorePendingKeepsTheRing == ASSUME RingInv, CountInv', StorePending PROVE RingInv'
<1>1. PICK n, p, w : Window(n, p, w) /\ Decoded(n, p, w) /\ Sounding(n, p)
  BY DEF RingInv, Located
<1>2. /\ UNCHANGED <<movie, ring, flag, next, seen, lost, drift>> /\ at' = CurPassed
      /\ game.pc = "store" /\ game'.pc = "again" /\ game'.todo = game.todo
      /\ game'.goal = game.goal /\ left'.pending = game.loaded - 1
      /\ left'.sound = left.sound /\ left'.ahead = left.ahead
      /\ movie.sound /\ ~movie.looped /\ flag.buffered = 0
  BY DEF StorePending, RingInv, CountInv, CounterType, LapsAreLooped, Lefts, Games, Phases
<1>3. Primed /\ n > 1 /\ n \in Nat /\ at.cur = p[1] /\ seen.frame = ring.held[p[1]]
  BY <1>1, <1>2 DEF RingInv, Phases, Decoded, Window, Early
<1>4. /\ at'.prev = p[1] /\ at'.fill = at.fill /\ at'.sound = at.sound /\ RingType'
      /\ Roomy /\ at.fill # NoMore => Roomy'
  BY <1>1, <1>2, <1>3, DecoderAdvances
<1>5. PICK q, v : /\ Window(n - 1, q, v)' /\ at'.cur = q[1]
                  /\ \A k \in 0..n - 1 : q[k] = p[k + 1]
  BY <1>1, <1>2, <1>3, DecoderAdvances
<1>6. q[0] = p[1] /\ q[(n - 1) - 1] = p[n - 1]
  BY <1>3, <1>5
<1>7. Phases'
  BY <1>2, <1>3, <1>4 DEF RingInv, Phases, Primed, Early
<1>8. ChunksLeft'
  BY <1>2 DEF RingInv, ChunksLeft, Early
<1>9. LapInRing' /\ SilentCount'
  BY <1>2 DEF LapInRing, SilentCount
<1>10. Decoded(n - 1, q, v)'
  BY <1>1, <1>2, <1>3, <1>4, <1>5, <1>6 DEF Decoded, Primed
<1>11. Sounding(n - 1, q)'
  <2>1. PICK j \in 1..n :
          /\ at.sound = p[j] /\ left.sound + ring.held[p[j - 1]] + 1 <= movie.len
          /\ seen.block = ring.held[p[j - 1]] /\ game.loaded \in 1..j - 1
    BY <1>1, <1>2, <1>3 DEF Sounding
  <2>2. j >= 2 /\ j - 1 \in 0..n - 1 /\ j - 2 \in 0..n - 1 /\ (j - 2) + 1 = j - 1
        /\ (j - 1) + 1 = j /\ (j - 1) - 1 = j - 2 /\ j - 1 \in 1..n - 1
    BY <1>3, <2>1
  <2>3. q[j - 1] = p[j] /\ q[(j - 1) - 1] = p[j - 1]
    BY <1>5, <2>2
  <2>4. left'.pending \in 0..(j - 1) - 1
    BY <1>2, <2>1, <2>2
  <2>5. /\ at'.sound = q[j - 1] /\ seen'.block = ring'.held[q[(j - 1) - 1]]
        /\ left'.sound + ring'.held[q[(j - 1) - 1]] + 1 <= movie'.len
    BY <1>2, <1>4, <2>1, <2>3
  <2> QED
    BY <1>2, <2>2, <2>4, <2>5 DEF Sounding
<1> QED
  BY <1>4, <1>5, <1>7, <1>8, <1>9, <1>10, <1>11 DEF RingInv, Located

(* The first frame is decoded: from here on the cursors mean something.     *)
LEMMA PrimeKeepsTheRing == ASSUME RingInv, CountInv', PrimeFirstFrame PROVE RingInv'
<1>1. PICK n, p, w : Window(n, p, w) /\ Decoded(n, p, w) /\ Sounding(n, p)
  BY DEF RingInv, Located
<1>2. /\ n \in Nat /\ n > 0 /\ at.prev = 0 /\ p[0] = 0 /\ ring.held[0] = 1 /\ n = next - 1
      /\ seen.frame = 0 /\ seen.block = 0 /\ game.pc = "prime" /\ p[1] = Past(0, 1)
      /\ p[1] \in Nat
  <2>1. game.pc = "prime" /\ ~Primed
    BY DEF PrimeFirstFrame, RingInv, Phases, Early
  <2>2. n \in Nat /\ n > 0 /\ 0 \in 0..n - 1 /\ 0 + 1 = 1 /\ 1 \in 0..n
    BY <1>1, <2>1 DEF Window, Decoded
  <2>3. p[0] = at.prev /\ at.prev = 0 /\ ring.held[p[0]] = 1 /\ n = next - 1
        /\ seen.frame = 0 /\ seen.block = 0
    BY <1>1, <2>1, <2>2 DEF Window, Decoded
  <2>4. p[0 + 1] = Past(p[0], ring.held[p[0]]) /\ p[1] \in Nat
    BY <1>1, <2>2 DEF Window, Chained
  <2> QED
    BY <2>1, <2>2, <2>3, <2>4
<1>3. /\ UNCHANGED <<movie, ring, flag, next, lost, drift>>
      /\ seen' = [frame |-> 1, block |-> 0]
      /\ at' = [fill |-> at.fill, prev |-> 0, cur |-> p[1], sound |-> p[1]]
      /\ left'.pending = 0 /\ left'.ahead = left.ahead - 1
      /\ left'.video = left.video /\ left'.sound = left.sound
      /\ game'.pc = "start" /\ game'.goal = game.goal /\ game.goal = "fill"
  BY <1>2 DEF PrimeFirstFrame, RingInv, RingType, Phases, CountInv, CounterType, Lefts, Games,
              LapsAreLooped
<1>4. RingType'
  <2>1. at' \in [fill : Int, prev : Nat, cur : Nat, sound : Int]
    BY <1>2, <1>3, RingNumbers
  <2> QED
    BY <1>3, <2>1 DEF RingInv, RingType
<1>5. Primed'
  BY <1>2, <1>3 DEF Primed, Nowhere
<1>6. Phases'
  <2>1. seen' \in [frame : 0..movie.len, block : Int]
    BY <1>3, RingNumbers
  <2> QED
    BY <1>2, <1>3, <1>5, <2>1 DEF RingInv, Phases, Early
<1>7. ChunksLeft'
  BY <1>2, <1>3, RingNumbers DEF RingInv, ChunksLeft, Early
<1>8. LapInRing'
  <2>1. (\A x, y : Past(x, y)' = Past(x, y)) /\ \A x : Succ(x)' = Succ(x)
    BY <1>3 DEF Past, After, Succ
  <2> QED
    BY <1>2, <1>3, <2>1 DEF RingInv, LapInRing, Early
<1>9. SilentCount'
  BY <1>2, <1>3, RingNumbers DEF RingInv, SilentCount
<1>10. Window(n, p, w)'
  BY <1>1, <1>2, <1>3, WindowStays
<1>11. Decoded(n, p, w)'
  BY <1>1, <1>2, <1>3, <1>5 DEF Decoded
<1>12. Sounding(n, p)'
  <2>1. movie.sound => left.sound <= movie.len - 2
    BY <1>1, <1>2 DEF Sounding
  <2>2. 1 \in 1..n /\ p[1 - 1] = p[0]
    BY <1>2
  <2>3. movie.sound => left'.sound + ring'.held[p[1 - 1]] + 1 <= movie'.len
    BY <1>2, <1>3, <2>1, <2>2, RingNumbers
  <2>4. at'.sound = p[1] /\ left'.pending \in 0..1 - 1 /\ seen'.block = 0
    BY <1>3
  <2> QED
    BY <1>3, <2>2, <2>3, <2>4 DEF Sounding
<1> QED
  BY <1>4, <1>6, <1>7, <1>8, <1>9, <1>10, <1>11, <1>12 DEF RingInv, Located

(* The reader spoils only what has been decoded.                            *)
LEMMA ReadHeaderKeepsTheRing == ASSUME RingInv, CountInv', ReadHeader PROVE RingInv'
<1>1. PICK n, p, w : Window(n, p, w) /\ Decoded(n, p, w) /\ Sounding(n, p)
  BY DEF RingInv, Located
<1>2. /\ UNCHANGED <<movie, at, left, next, seen, lost, drift>> /\ ring'.end = ring.end
      /\ ring'.held = Spoilt(at.fill, next) /\ next \in 1..movie.len
      /\ flag.buffered # 2 /\ flag'.buffered = flag.buffered
      /\ game.pc = "header" /\ game'.pc = "payload" /\ game'.goal = game.goal
      /\ game'.todo = game.todo /\ game.goal = "fill"
  <2>1. flag \in Flags /\ game \in Games /\ game.goal = "fill"
    BY DEF ReadHeader, RingInv, CountInv, CounterType, LapsAreLooped
  <2>2. next \in 1..movie.len
    BY RingNumbers DEF ReadHeader
  <2>3. flag'.buffered = flag.buffered
    BY <2>1 DEF ReadHeader, Flags
  <2>4. game'.pc = "payload" /\ game'.goal = game.goal /\ game'.todo = game.todo
    BY <2>1 DEF ReadHeader, Games
  <2>5. ring'.end = ring.end /\ ring'.held = Spoilt(at.fill, next)
    BY DEF ReadHeader, RingInv, RingType
  <2> QED
    BY <2>1, <2>2, <2>3, <2>4, <2>5 DEF ReadHeader
<1>3. at.fill # NoMore /\ Roomy
  BY <1>2 DEF RingInv, Phases
<1>4. \A k \in 0..n - 1 : ring'.held[p[k]] = ring.held[p[k]]
  BY <1>1, <1>2, <1>3, WrappedIsBelow, WritingSparesTheWindow DEF RingInv
<1>5. RingType'
  <2>1. PICK r \in Nat : ring \in [held : [0..r - 1 -> 0..movie.len], keyed : SUBSET (0..r - 1),
                                   end : 0..r]
    BY DEF RingInv, RingType
  <2>0. r \in Nat /\ ring.end \in 0..r /\ ring.held \in [0..r - 1 -> 0..movie.len]
    BY <2>1
  <2>7. Stride \in Nat \ {0} /\ movie.len \in Nat \ {0}
    BY RingNumbers
  <2>2. at.fill \in 0..r - 1
    <3>1. at.fill \in Nat /\ at.fill + Stride <= ring.end
      BY <1>1, <1>3 DEF Window, Laid
    <3> QED
      <4>1. /\ r \in Nat /\ ring.end \in Nat /\ ring.end <= r /\ Stride \in Nat /\ Stride >= 1
            /\ r - 1 \in Int
        BY <2>0, <2>7
      <4>2. at.fill <= r - 1
        BY <3>1, <4>1
      <4> QED
        BY <3>1, <4>1, <4>2
  <2>3. Spoilt(at.fill, next) \in [0..r - 1 -> 0..movie.len]
    <3>1. 0 \in 0..movie.len /\ DOMAIN ring.held = 0..r - 1
      BY <2>0, <2>7
    <3>2. \A b \in 0..r - 1 : ring.held[b] \in 0..movie.len
      BY <2>0
    <3> QED
      BY <3>1, <3>2 DEF Spoilt
  <2>4. ring'.keyed \subseteq 0..r - 1
    BY <2>1, <2>2 DEF ReadHeader, Rekeyed
  <2>5. ring' = [held |-> ring'.held, keyed |-> ring'.keyed, end |-> ring.end]
    BY <2>1 DEF ReadHeader
  <2>6. ring' \in [held : [0..r - 1 -> 0..movie.len], keyed : SUBSET (0..r - 1), end : 0..r]
    BY <1>2, <2>1, <2>3, <2>4, <2>5
  <2> QED
    BY <1>2, <2>6 DEF RingInv, RingType
<1>6. Phases'
  BY <1>2, <1>3 DEF RingInv, Phases, Primed, Early, Roomy
<1>7. ChunksLeft'
  BY <1>2, RingNumbers DEF RingInv, ChunksLeft, Early
<1>8. LapInRing'
  BY <1>2 DEF LapInRing
<1>9. SilentCount'
  BY <1>2 DEF RingInv, SilentCount, Primed
<1>10. Window(n, p, w)'
  BY <1>1, <1>2, <1>4, WindowStays
<1>0. Primed /\ n > 0 /\ n \in Nat /\ 0 \in 0..n - 1 /\ n - 1 \in 0..n - 1
  BY <1>1, <1>2 DEF RingInv, Phases, Decoded, Window, Early
<1>11. Decoded(n, p, w)'
  <2>1. ring'.held[p[0]] = ring.held[p[0]] /\ ring'.held[p[n - 1]] = ring.held[p[n - 1]]
    BY <1>0, <1>4
  <2> QED
    BY <1>0, <1>1, <1>2, <2>1 DEF Decoded, Primed
<1>12. Sounding(n, p)'
  <2>1. \A j \in 1..n : j - 1 \in 0..n - 1
    BY <1>0
  <2>2. \A j \in 1..n : ring'.held[p[j - 1]] = ring.held[p[j - 1]]
    BY <1>4, <2>1
  <2> QED
    BY <1>0, <1>1, <1>2, <2>2 DEF Sounding, Primed
<1> QED
  BY <1>5, <1>6, <1>7, <1>8, <1>9, <1>10, <1>11, <1>12 DEF RingInv, Located
(* A chunk that has been read joins the window.                             *)
LEMMA ReadPayloadKeepsTheRing == ASSUME RingInv, CountInv', ReadPayload PROVE RingInv'
<1>1. PICK n, p, w : Window(n, p, w) /\ Decoded(n, p, w) /\ Sounding(n, p)
  BY DEF RingInv, Located
<1>2. /\ flag \in Flags /\ game \in Games /\ game.goal = "fill" /\ game.pc = "payload"
      /\ flag.buffered # 2 /\ at.fill # NoMore /\ Roomy /\ Primed
  BY DEF ReadPayload, RingInv, CountInv, CounterType, LapsAreLooped, Phases, Early
<1>3. /\ UNCHANGED <<movie, left, flag, seen, lost, drift>> /\ next' = next + 1
      /\ ring' = [ring EXCEPT !.held[at.fill] = next]
      /\ at' = [at EXCEPT !.fill = Past(at.fill, next)]
  BY DEF ReadPayload, Filled
<1>4. /\ game'.goal = game.goal /\ game'.todo = game.todo - 1
      /\ game'.pc = IF game.todo > 1 THEN "boundary" ELSE "tail"
  BY <1>2 DEF ReadPayload, Filled, Games
<1>5. next + game.todo = movie.len + 1 /\ game.todo >= 1 /\ next \in 1..movie.len
  <2>1. next + game.todo = movie.len + 1 /\ game.todo >= 1
    BY <1>2 DEF RingInv, ChunksLeft, Early
  <2> QED
    BY <2>1, RingNumbers
<1>6. /\ n > 0 /\ n \in Nat /\ p[n] = at.fill /\ p[n] \in Nat /\ p[n] + Stride <= ring.end
      /\ 0 \in 0..n - 1 /\ n - 1 \in 0..n - 1 /\ 0 \in 0..n /\ 1 \in 0..n /\ n \in 0..n
  BY <1>1, <1>2 DEF Window, Laid, Decoded
<1>7. \A k \in 0..n - 1 : p[k] # at.fill
  BY <1>1, <1>2, <1>5, WrappedIsBelow, WritingSparesTheWindow DEF RingInv
<1>8. /\ at.fill \in DOMAIN ring.held /\ Past(at.fill, next) \in Nat
      /\ Past(at.fill, next) = IF After(at.fill, next) + Stride > ring.end THEN 0
                               ELSE After(at.fill, next)
  BY <1>5, <1>6, SlotsAreInTheRing, SlotsFit DEF RingInv, Past
<1>9. /\ ring'.end = ring.end /\ ring'.held[at.fill] = next
      /\ \A k \in 0..n - 1 : ring'.held[p[k]] = ring.held[p[k]]
      /\ at'.fill = Past(at.fill, next) /\ at'.prev = at.prev /\ at'.cur = at.cur
      /\ at'.sound = at.sound
  BY <1>3, <1>7, <1>8 DEF RingInv, RingType
<1>10. RingType'
  <2>1. PICK r \in Nat : ring \in [held : [0..r - 1 -> 0..movie.len], keyed : SUBSET (0..r - 1),
                                   end : 0..r]
    BY DEF RingInv, RingType
  <2>2. [ring.held EXCEPT ![at.fill] = next] \in [0..r - 1 -> 0..movie.len]
    <3>1. ring.held \in [0..r - 1 -> 0..movie.len]
      BY <2>1
    <3>2. next \in 0..movie.len
      BY <1>5, RingNumbers
    <3> QED
      BY <3>1, <3>2
  <2>3. ring' = [held |-> [ring.held EXCEPT ![at.fill] = next], keyed |-> ring.keyed,
                 end |-> ring.end]
    BY <1>3, <2>1
  <2>4. ring' \in [held : [0..r - 1 -> 0..movie.len], keyed : SUBSET (0..r - 1), end : 0..r]
    BY <2>1, <2>2, <2>3
  <2>5. at' = [fill |-> Past(at.fill, next), prev |-> at.prev, cur |-> at.cur,
               sound |-> at.sound]
    BY <1>3 DEF RingInv, RingType
  <2>6. at' \in [fill : Int, prev : Nat, cur : Nat, sound : Int]
    BY <1>8, <2>5, RingNumbers
  <2> QED
    BY <1>3, <1>9, <2>4, <2>6 DEF RingInv, RingType
<1>11. Phases'
  <2>1. next' \in 1..movie.len + 1
    BY <1>3, <1>5, RingNumbers
  <2> QED
    BY <1>2, <1>3, <1>4, <1>8, <1>9, <2>1 DEF RingInv, Phases, Primed, Early, NoMore
<1>12. ChunksLeft'
  BY <1>2, <1>3, <1>4, <1>5, RingNumbers DEF ChunksLeft, Early
<1>13. LapInRing' /\ SilentCount'
  BY <1>2, <1>3, <1>4 DEF RingInv, LapInRing, SilentCount, Primed, RingType
<1>14. /\ ring.held[p[n - 1]] \in 1..movie.len
       /\ next = Succ(ring.held[p[n - 1]])
       /\ ~movie.looped => next = ring.held[p[0]] + n
  <2>1. /\ ring.held[p[n - 1]] \in 1..movie.len /\ ring.held[p[0]] \in 1..movie.len
        /\ ~movie.looped => ring.held[p[n - 1]] = ring.held[p[0]] + (n - 1)
    BY <1>1, <1>6 DEF Window, Chained
  <2>2. \/ next = ring.held[p[n - 1]] + 1
        \/ movie.looped /\ next = 1 /\ ring.held[p[n - 1]] = movie.len
    BY <1>1, <1>2, <1>6 DEF Decoded
  <2>3. next = Succ(ring.held[p[n - 1]])
    BY <1>5, <2>1, <2>2, RingNumbers DEF Succ
  <2>4. ~movie.looped => next = ring.held[p[0]] + n
    <3>1. \A h \in Int : h + (n - 1) + 1 = h + n
      BY <1>6
    <3>2. ring.held[p[0]] \in Int
      BY <2>1
    <3>3. ~movie.looped => next = ring.held[p[0]] + (n - 1) + 1
      BY <2>1, <2>2
    <3> QED
      BY <3>1, <3>2, <3>3
  <2> QED
    BY <2>1, <2>3, <2>4
<1>15. PICK q, v : Window(n + 1, q, v)' /\ \A k \in 0..n : q[k] = p[k]
  <2>1. w = n + 1 \/ at.fill + Stride < at.prev
    BY <1>1, <1>2, WrappedIsBelow DEF RingInv
  <2> QED
    BY SMTT(20), <1>1, <1>2, <1>3, <1>5, <1>8, <1>9, <1>10, <1>14, <2>1, WindowGrows DEF RingInv
<1>16. Decoded(n + 1, q, v)'
  <2>1. /\ q[0] = p[0] /\ q[1] = p[1] /\ q[(n + 1) - 1] = at.fill /\ (n + 1) - 1 = n
        /\ ring'.held[p[0]] = ring.held[p[0]]
    BY <1>6, <1>9, <1>15
  <2>2. Primed' /\ at.cur = p[1] /\ seen.frame = ring.held[p[0]]
    BY <1>1, <1>2, <1>9 DEF Decoded, Primed
  <2> QED
    BY <1>2, <1>3, <1>4, <1>6, <1>9, <2>1, <2>2 DEF Decoded
<1>17. Sounding(n + 1, q)'
  <2>1. CASE ~movie.sound
    BY <1>3, <2>1 DEF Sounding
  <2>2. CASE movie.sound
    <3>1. PICK j \in 1..n :
            /\ at.sound = p[j] /\ left.sound + ring.held[p[j - 1]] + 1 <= movie.len
            /\ seen.block = ring.held[p[j - 1]] /\ left.pending \in 0..j - 1
      BY <1>1, <1>2, <2>2 DEF Sounding
    <3>2. j \in 1..n + 1 /\ j \in 0..n /\ j - 1 \in 0..n - 1 /\ j - 1 \in 0..n
      BY <1>6, <3>1
    <3>3. q[j] = p[j] /\ q[j - 1] = p[j - 1] /\ ring'.held[p[j - 1]] = ring.held[p[j - 1]]
      BY <1>9, <1>15, <3>2
    <3> QED
      BY <1>3, <1>4, <1>9, <3>1, <3>2, <3>3 DEF Sounding
  <2> QED
    BY <2>1, <2>2
<1> QED
  BY <1>10, <1>11, <1>12, <1>13, <1>15, <1>16, <1>17 DEF RingInv, Located

(* So does one that is found there.                                         *)
LEMMA FindInRingKeepsTheRing == ASSUME RingInv, CountInv', FindInRing PROVE RingInv'
<1>1. PICK n, p, w : Window(n, p, w) /\ Decoded(n, p, w) /\ Sounding(n, p)
  BY DEF RingInv, Located
<1>2. /\ flag \in Flags /\ game \in Games /\ game.goal = "fill" /\ game.pc = "header"
      /\ flag.buffered = 2 /\ at.fill # NoMore /\ Roomy /\ Primed /\ movie.looped
      /\ ~movie.sound
  BY DEF FindInRing, RingInv, CountInv, CounterType, LapsAreLooped, Phases, Early
<1> DEFINE f == ring.held[at.fill]
<1>3. /\ UNCHANGED <<movie, left, next, seen, lost, drift>>
      /\ at' = [at EXCEPT !.fill = Past(at.fill, f)]
  BY DEF FindInRing, Filled
<1>4. /\ game'.goal = game.goal /\ game'.todo = game.todo - 1
      /\ game'.pc = IF game.todo > 1 THEN "boundary" ELSE "tail"
  BY <1>2 DEF FindInRing, Filled, Games
<1>5. /\ f \in 1..movie.len /\ f + game.todo = movie.len + 1 /\ at.fill \in DOMAIN ring.held
  BY <1>2 DEF RingInv, LapInRing, Early
<1>6. /\ n > 0 /\ n \in Nat /\ p[n] = at.fill /\ p[n] \in Nat /\ p[n] + Stride <= ring.end
      /\ 0 \in 0..n - 1 /\ n - 1 \in 0..n - 1 /\ 0 \in 0..n /\ 1 \in 0..n /\ n \in 0..n
      /\ p[n - 1] \in Nat /\ p[n - 1] + Stride <= ring.end /\ (n - 1) + 1 = n
  BY <1>1, <1>2 DEF Window, Laid, Decoded
<1>7. /\ ring'.held = ring.held /\ ring'.end = ring.end /\ flag'.buffered = flag.buffered
      /\ at'.fill = Past(at.fill, f) /\ at'.prev = at.prev /\ at'.cur = at.cur
      /\ at'.sound = at.sound
  <2>1. flag'.buffered = flag.buffered
    BY <1>2 DEF FindInRing, Flags
  <2>2. ring'.held = ring.held /\ ring'.end = ring.end
    BY DEF FindInRing, RingInv, RingType
  <2> QED
    BY <1>3, <2>1, <2>2 DEF RingInv, RingType
<1>8. /\ Past(at.fill, f) \in Nat /\ Past(at.fill, f) + Stride <= ring.end
      /\ Past(at.fill, f) = IF After(at.fill, f) + Stride > ring.end THEN 0
                            ELSE After(at.fill, f)
  BY <1>5, <1>6, SlotsFit DEF RingInv, Past
<1>9. RingType'
  <2>1. PICK r \in Nat : ring \in [held : [0..r - 1 -> 0..movie.len], keyed : SUBSET (0..r - 1),
                                   end : 0..r]
    BY DEF RingInv, RingType
  <2>2. at.fill \in 0..r - 1
    BY <1>5, <2>1
  <2>3. ring' = [held |-> ring.held, keyed |-> ring.keyed \cup Rekeyed, end |-> ring.end]
    BY <2>1 DEF FindInRing
  <2>4. ring' \in [held : [0..r - 1 -> 0..movie.len], keyed : SUBSET (0..r - 1), end : 0..r]
    BY <2>1, <2>2, <2>3 DEF Rekeyed
  <2>5. at' = [fill |-> Past(at.fill, f), prev |-> at.prev, cur |-> at.cur,
               sound |-> at.sound]
    BY <1>3 DEF RingInv, RingType
  <2>6. at' \in [fill : Int, prev : Nat, cur : Nat, sound : Int]
    BY <1>8, <2>5, RingNumbers
  <2> QED
    BY <1>3, <1>7, <2>4, <2>6 DEF RingInv, RingType
<1> HIDE DEF f
<1>10. Phases'
  BY <1>2, <1>3, <1>4, <1>7, <1>8 DEF RingInv, Phases, Primed, Early, NoMore
<1>11. ChunksLeft'
  BY <1>2, <1>3, <1>4, <1>7 DEF RingInv, ChunksLeft, Early
<1>12. LapInRing'
  <2>1. (\A x, y : Past(x, y)' = Past(x, y)) /\ \A x : Succ(x)' = Succ(x)
    BY <1>3, <1>7 DEF Past, After, Succ
  <2>2. \A a \in DOMAIN ring.held : ring.held[a] # 0 =>
          ring.held[Past(a, ring.held[a])] = Succ(ring.held[a])
    BY <1>2 DEF RingInv, LapInRing
  <2>3. ring.held[Past(at.fill, f)] = Succ(f)
    BY <1>5, <2>2 DEF f
  <2>4. Past(at.fill, f) \in DOMAIN ring.held
    BY <1>8, SlotsAreInTheRing DEF RingInv
  <2>5. Succ(f) = IF game.todo > 1 THEN f + 1 ELSE 1
    BY <1>5, RingNumbers DEF Succ
  <2>6. Succ(f) \in 1..movie.len
    BY <1>5, SuccIsNextInTheLap, RingNumbers
  <2>7. game.todo > 1 => Succ(f) + game'.todo = movie.len + 1
    BY <1>4, <1>5, <2>5, RingNumbers
  <2>8. ~(game.todo > 1) => Succ(f) = 1
    BY <2>5
  <2> QED
    BY <1>2, <1>3, <1>4, <1>7, <2>1, <2>2, <2>3, <2>4, <2>6, <2>7, <2>8 DEF LapInRing, Early
<1>13. SilentCount'
  BY <1>2, <1>3 DEF SilentCount
<1>14. /\ f = Succ(ring.held[p[n - 1]])
  <2>1. /\ ring.held[p[n - 1]] \in 1..movie.len
        /\ at.fill = Past(p[n - 1], ring.held[p[n - 1]])
    BY <1>1, <1>6 DEF Window, Chained
  <2>2. p[n - 1] \in DOMAIN ring.held
    BY <1>6, SlotsAreInTheRing DEF RingInv
  <2> QED
    BY <1>2, <2>1, <2>2 DEF RingInv, LapInRing, f
<1>15. PICK q, v : Window(n + 1, q, v)' /\ \A k \in 0..n : q[k] = p[k]
  <2>1. w = n + 1 \/ at.fill + Stride < at.prev
    BY <1>1, <1>2, WrappedIsBelow DEF RingInv
  <2>2. ring'.held[at.fill] = f
    BY <1>7 DEF f
  <2> QED
    BY <1>1, <1>2, <1>3, <1>5, <1>7, <1>8, <1>9, <1>14, <2>1, <2>2, WindowGrows DEF RingInv
<1>16. Decoded(n + 1, q, v)'
  <2>1. q[0] = p[0] /\ q[1] = p[1]
    BY <1>6, <1>15
  <2>2. Primed' /\ at.cur = p[1] /\ seen.frame = ring.held[p[0]]
    BY <1>1, <1>2, <1>7 DEF Decoded, Primed
  <2> QED
    BY <1>2, <1>3, <1>4, <1>6, <1>7, <2>1, <2>2 DEF Decoded
<1>17. Sounding(n + 1, q)'
  BY <1>2, <1>3 DEF Sounding
<1> QED
  BY <1>9, <1>10, <1>11, <1>12, <1>13, <1>15, <1>16, <1>17 DEF RingInv, Located
(* The preload lays the chunks one behind the other from the base, until a  *)
(* slot no longer fits or the file ends; a loop that fits closes the ring   *)
(* behind its last chunk.                                                   *)
LEMMA PreloadKeepsTheRing == ASSUME RingInv, CountInv', Preload PROVE RingInv'
<1>1. PICK n, p, w : Window(n, p, w) /\ Decoded(n, p, w) /\ Sounding(n, p)
  BY DEF RingInv, Located
<1> DEFINE fill == Past(at.fill, next)
           more == fill # 0 /\ game.todo > 1
           fits == fill # 0 /\ ~more /\ flag.buffered # 0
           g    == IF fits THEN 0 ELSE fill
<1>2. /\ game.pc = "preload" /\ next' = next + 1 /\ UNCHANGED <<movie, seen, lost, drift>>
      /\ ring' = [ring EXCEPT !.held[at.fill] = next,
                              !.end = IF fits THEN at.fill + Stride ELSE @]
      /\ at' = [at EXCEPT !.fill = g]
      /\ left' = IF more THEN [left EXCEPT !.ahead = @ + 1] ELSE Counted
      /\ flag' = [flag EXCEPT !.active = ~more, !.buffered = IF fits THEN 2 ELSE @]
      /\ game' = IF more THEN [game EXCEPT !.todo = @ - 1] ELSE [game EXCEPT !.pc = "opened"]
  BY DEF Preload
<1>3. /\ flag \in Flags /\ game \in Games /\ left \in Lefts /\ game.goal = "fill"
      /\ flag.buffered # 2 /\ at.fill # NoMore /\ ~Primed
  BY <1>2 DEF RingInv, CountInv, CounterType, LapsAreLooped, Phases, Early
<1>4. /\ next + game.todo = movie.len + 1 /\ game.todo >= 1 /\ left.ahead = next - 1
      /\ next \in 1..movie.len
  <2>1. next + game.todo = movie.len + 1 /\ game.todo >= 1 /\ left.ahead = next - 1
    BY <1>2 DEF RingInv, ChunksLeft
  <2> QED
    BY <2>1, RingNumbers
<1>5. /\ seen.frame = 0 /\ seen.block = 0 /\ at.prev = 0 /\ n = next - 1 /\ n \in Nat
      /\ n > 0 => ring.held[p[0]] = 1
      /\ w = n + 1 /\ p[0] = 0 /\ p[n] = at.fill
      /\ \A a \in DOMAIN ring.held : ring.held[a] # 0 => \E k \in 0..n - 1 : a = p[k]
  BY <1>1, <1>2, <1>3 DEF Decoded, Window
<1>6. /\ p[n] \in Nat /\ p[n] + Stride <= ring.end /\ n \in 0..n /\ 0 \in 0..n
      /\ (n + 1) - 1 = n
  BY <1>1, <1>5 DEF Window, Laid
<1>7. \A k \in 0..n - 1 : p[k] # at.fill
  BY <1>1, <1>3, <1>4, <1>5, WritingSparesTheWindow DEF RingInv
<1>8. /\ at.fill \in DOMAIN ring.held /\ fill \in Nat
      /\ fill = IF After(at.fill, next) + Stride > ring.end THEN 0 ELSE After(at.fill, next)
      /\ After(at.fill, next) \in Nat /\ at.fill < After(at.fill, next)
  BY <1>4, <1>5, <1>6, SlotsAreInTheRing, SlotsFit DEF RingInv, Past
<1> HIDE DEF fill
<1>9. /\ ring'.end = IF fits THEN at.fill + Stride ELSE ring.end
      /\ ring'.held[at.fill] = next /\ DOMAIN ring'.held = DOMAIN ring.held
      /\ \A a \in DOMAIN ring.held : a # at.fill => ring'.held[a] = ring.held[a]
      /\ at'.fill = g /\ at'.prev = at.prev /\ at'.cur = at.cur /\ at'.sound = at.sound
  BY <1>2, <1>8 DEF RingInv, RingType
<1>10. \A k \in 0..n - 1 : p[k] \in DOMAIN ring.held /\ ring'.held[p[k]] = ring.held[p[k]]
  <2>1. \A k \in 0..n - 1 : p[k] \in DOMAIN ring.held
    BY <1>1, <1>3, <1>4, <1>5, WritingSparesTheWindow DEF RingInv
  <2> QED
    BY <1>7, <1>9, <2>1
<1>11. g \in Nat /\ g = IF After(at.fill, next) + Stride > ring'.end THEN 0
                       ELSE After(at.fill, next)
  BY <1>5, <1>6, <1>8, <1>9, RingNumbers
<1>12. RingType'
  <2>1. PICK r \in Nat : ring \in [held : [0..r - 1 -> 0..movie.len], keyed : SUBSET (0..r - 1),
                                   end : 0..r]
    BY DEF RingInv, RingType
  <2>2. [ring.held EXCEPT ![at.fill] = next] \in [0..r - 1 -> 0..movie.len]
    <3>1. ring.held \in [0..r - 1 -> 0..movie.len]
      BY <2>1
    <3>2. next \in 0..movie.len
      BY <1>4, RingNumbers
    <3> QED
      BY <3>1, <3>2
  <2>3. ring'.end \in 0..r /\ Stride <= ring'.end
    <3>1. ring.end \in 0..r /\ Stride <= ring.end /\ r \in Nat
      BY <2>1 DEF RingInv, RingType
    <3> QED
      BY <1>5, <1>6, <1>9, <3>1, RingNumbers
  <2>4. ring' = [held |-> [ring.held EXCEPT ![at.fill] = next], keyed |-> ring.keyed,
                 end |-> ring'.end]
    BY <1>2, <2>1
  <2>5. ring' \in [held : [0..r - 1 -> 0..movie.len], keyed : SUBSET (0..r - 1), end : 0..r]
    BY SMTT(30), <2>1, <2>2, <2>3, <2>4
  <2>6. at' = [fill |-> g, prev |-> at.prev, cur |-> at.cur, sound |-> at.sound]
    BY <1>2 DEF RingInv, RingType
  <2>7. at' \in [fill : Int, prev : Nat, cur : Nat, sound : Int]
    BY <1>11, <2>6, RingNumbers
  <2> QED
    BY <1>2, <2>3, <2>5, <2>7 DEF RingInv, RingType
<1>13. /\ game'.pc = IF more THEN "preload" ELSE "opened"
       /\ game'.todo = IF more THEN game.todo - 1 ELSE game.todo
       /\ game'.goal = game.goal
  BY <1>2, <1>3 DEF Games
<1>14. /\ left'.ahead = next
       /\ ~more => left'.video = movie.len - 2 /\ left'.sound = movie.len - 2
  <2>1. left'.ahead = left.ahead + 1
    BY <1>2, <1>3 DEF Counted, Lefts
  <2>2. ~more => left'.video = movie.len - 2 /\ left'.sound = movie.len - 2
    BY <1>2, <1>3 DEF Counted, Lefts
  <2> QED
    BY <1>4, <2>1, <2>2
<1>15. flag'.buffered = IF fits THEN 2 ELSE flag.buffered
  BY <1>2, <1>3 DEF Flags
<1>16. ~more /\ fits => next = movie.len /\ movie.looped
  <2>1. fits => movie.looped
    BY DEF RingInv, Phases
  <2>2. ~more /\ fits => ~(game.todo > 1)
    OBVIOUS
  <2> QED
    BY <1>4, <2>1, <2>2, RingNumbers
<1> HIDE DEF more, g
<1>17. fits => ~more
  BY DEF fits
<1>18. more => game.todo > 1 /\ fill # 0 /\ g = fill
  BY DEF more, fits, g
<1> HIDE DEF fits
<1>19. Phases'
  <2>1. next' \in 1..movie.len + 1
    BY <1>2, <1>4, RingNumbers
  <2>2. g # NoMore
    BY <1>11 DEF NoMore
  <2> QED
    BY <1>2, <1>3, <1>9, <1>13, <1>15, <1>16, <1>17, <2>1, <2>2
    DEF RingInv, Phases, Primed, Early
<1>20. ChunksLeft'
  BY <1>2, <1>3, <1>4, <1>13, <1>14, <1>15, <1>16, <1>17, <1>18, RingNumbers
  DEF ChunksLeft, Early
<1>21. SilentCount'
  BY <1>2, <1>3, <1>9, <1>13, <1>14 DEF SilentCount, Primed
<1>22. n > 0 => /\ next = Succ(ring.held[p[n - 1]]) /\ ring.held[p[n - 1]] \in 1..movie.len
                /\ next = ring.held[p[n - 1]] + 1
  <2> SUFFICES ASSUME n > 0
               PROVE  /\ next = Succ(ring.held[p[n - 1]])
                      /\ ring.held[p[n - 1]] \in 1..movie.len
                      /\ next = ring.held[p[n - 1]] + 1
    OBVIOUS
  <2>1. ring.held[p[n - 1]] \in 1..movie.len
    <3>1. n - 1 \in 0..n - 1
      BY <1>5
    <3> QED
      BY <1>1, <3>1 DEF Window, Chained
  <2>2. next = ring.held[p[n - 1]] + 1
    BY <1>1, <1>3, <1>4, <1>5 DEF Decoded
  <2> QED
    BY <1>4, <2>1, <2>2, RingNumbers DEF Succ
<1>23. PICK q, v : Window(n + 1, q, v)' /\ \A k \in 0..n : q[k] = p[k]
  <2>1. ~movie.looped /\ n > 0 => next = ring.held[p[0]] + n
    BY <1>4, <1>5, RingNumbers
  <2>2. ring'.end = ring.end \/ (w = n + 1 /\ ring'.end = at.fill + Stride)
    BY <1>5, <1>9
  <2> QED
    BY <1>1, <1>2, <1>3, <1>4, <1>5, <1>9, <1>10, <1>11, <1>12, <1>22, <2>1, <2>2, WindowGrows
    DEF RingInv
<1>24. /\ q[0] = 0 /\ q[n] = at.fill /\ ring'.held[q[n]] = next /\ ring'.held[q[0]] = 1
       /\ q[n + 1] = g
  <2>1. q[0] = 0 /\ q[n] = at.fill /\ q[n + 1] = g
    BY SMTT(20), <1>3, <1>5, <1>6, <1>9, <1>11, <1>23 DEF Window, NoMore
  <2>2. CASE n = 0
    BY <1>4, <1>5, <1>9, <2>1, <2>2
  <2>3. CASE n > 0
    <3>1. 0 \in 0..n - 1
      BY <1>5, <2>3
    <3> QED
      BY <1>5, <1>9, <1>10, <2>1, <2>3, <3>1
  <2>4. n = 0 \/ n > 0
    <3>1. n \in Nat
      BY <1>5
    <3> QED
      BY <3>1
  <2> QED
    BY <2>2, <2>3, <2>4
<1>25. Decoded(n + 1, q, v)'
  <2>1. ASSUME more PROVE v = n + 2
    <3>1. v \in 1..n + 2
      BY <1>5, <1>23 DEF Window
    <3>2. v # n + 2 => q[n + 1] <= q[0]
      <4>1. v # n + 2 => v <= n + 1
        BY <1>5, <3>1
      <4> QED
        BY <1>23, <4>1 DEF Window, Laid
    <3>3. g \in Nat /\ g # 0
      BY <1>11, <1>18, <2>1
    <3> QED
      BY <1>24, <3>2, <3>3
  <2>2. ASSUME NEW a \in DOMAIN ring'.held, ring'.held[a] # 0
        PROVE  \E k \in 0..n : a = q[k]
    <3>1. CASE a = at.fill
      BY <1>6, <1>24, <3>1
    <3>2. CASE a # at.fill
      <4>1. PICK k \in 0..n - 1 : a = p[k]
        BY <1>5, <1>9, <2>2, <3>2
      <4>2. k \in 0..n /\ a = q[k]
        BY <1>5, <1>23, <4>1
      <4> QED
        BY <4>2
    <3> QED
      BY <3>1, <3>2
  <2>3. next' = ring'.held[q[(n + 1) - 1]] + 1 /\ n + 1 > 0 /\ n + 1 = next' - 1
        /\ (n + 1) + 1 = n + 2
    BY <1>2, <1>4, <1>5, <1>6, <1>24
  <2>4. at'.prev = 0 /\ seen'.frame = 0 /\ seen'.block = 0
    BY <1>2, <1>5, <1>9
  <2>5. ~Primed' /\ game'.goal = "fill" /\ game'.pc \in {"preload", "opened"}
    BY <1>3, <1>9, <1>13 DEF Primed
  <2>6. game'.pc = "preload" => more
    BY <1>13
  <2> QED
    BY <1>6, <1>24, <2>1, <2>2, <2>3, <2>4, <2>5, <2>6 DEF Decoded
<1>26. Sounding(n + 1, q)'
  BY <1>3, <1>9, <1>13, <1>14, <1>2, RingNumbers DEF Sounding, Primed
<1>27. LapInRing'
  <2>1. CASE ~fits
    BY <1>3, <1>15, <2>1 DEF LapInRing
  <2>2. CASE fits
    <3>1. g = 0 /\ next = movie.len /\ game'.pc = "opened" /\ game'.goal = "fill"
      BY <1>3, <1>13, <1>16, <1>17, <2>2 DEF g
    <3>2. ASSUME NEW a \in DOMAIN ring'.held, ring'.held[a] # 0
          PROVE  ring'.held[Past(a, ring.held[a])'] = Succ(ring'.held[a])
      <4>1. PICK k \in 0..n : a = q[k]
        <5>1. CASE a = at.fill
          BY <1>6, <1>24, <5>1
        <5>2. CASE a # at.fill
          <6>1. PICK k \in 0..n - 1 : a = p[k]
            BY <1>5, <1>9, <3>2, <5>2
          <6>2. k \in 0..n /\ a = q[k]
            BY <1>5, <1>23, <6>1
          <6> QED
            BY <6>2
        <5> QED
          BY <5>1, <5>2
      <4>2. q[k + 1] = Past(a, ring.held[a])'
        BY <1>6, <1>23, <4>1 DEF Window, Chained
      <4>3. CASE k = n
        BY <1>24, <3>1, <4>1, <4>2, <4>3 DEF Succ
      <4>4. CASE k # n
        <5>1. k + 1 \in 1..n /\ (k + 1) - 1 = k
          BY <1>5, <4>1, <4>4
        <5>2. ring'.held[q[k + 1]] = Succ(ring.held[q[(k + 1) - 1]])'
          BY <1>6, <1>23, <5>1 DEF Window, Chained
        <5>3. Succ(ring.held[q[(k + 1) - 1]])' = Succ(ring'.held[q[(k + 1) - 1]])
          BY <1>2 DEF Succ
        <5>4. Past(a, ring.held[a])' = q[k + 1]
          BY <4>2
        <5> QED
          BY <4>1, <5>1, <5>2, <5>3, <5>4
      <4> QED
        BY <4>3, <4>4
    <3>3. \A x : Succ(x)' = Succ(x)
      BY <1>2 DEF Succ
    <3>4. 0 \in DOMAIN ring'.held /\ ring'.held[0] = 1 /\ at'.fill = 0 /\ 1 \in 1..movie'.len
      <4>0. Stride <= ring.end
        BY DEF RingInv, RingType
      <4>1. 0 + Stride <= ring.end /\ 0 \in Nat
        BY <4>0, RingNumbers
      <4>2. 0 \in DOMAIN ring.held
        BY <4>1, SlotsAreInTheRing DEF RingInv
      <4> QED
        BY <1>2, <1>9, <1>24, <3>1, <4>2, RingNumbers
    <3> QED
      BY <3>1, <3>2, <3>3, <3>4 DEF LapInRing, Early
  <2> QED
    BY <2>1, <2>2
<1> QED
  BY <1>12, <1>19, <1>20, <1>21, <1>23, <1>25, <1>26, <1>27 DEF RingInv, Located
(* A movie that has been opened has nothing in its ring yet.                *)
LEMMA InitialRing == ASSUME Init PROVE RingInv
<1>1. CountInv
  BY InitialCounts
<1>2. PICK m \in Lengths, r \in RingSizes, s \in BOOLEAN, l \in BOOLEAN :
        /\ s => ~l
        /\ \E z \in [1..m -> Sizes] : movie = [sound |-> s, looped |-> l, len |-> m, size |-> z]
        /\ ring = [held |-> [b \in 0..r - 1 |-> 0], keyed |-> {}, end |-> r]
        /\ flag = [active |-> FALSE, playing |-> FALSE, rekey |-> FALSE,
                   buffered |-> IF l THEN 1 ELSE 0]
        /\ game = [pc |-> "preload", goal |-> "fill", todo |-> m, loaded |-> 0]
  BY DEF Init
<1>3. PICK z \in [1..m -> Sizes] : movie = [sound |-> s, looped |-> l, len |-> m, size |-> z]
  BY <1>2
<1>4. /\ at = [fill |-> 0, prev |-> 0, cur |-> 0, sound |-> Nowhere]
      /\ left = [video |-> 0, sound |-> 0, pending |-> 0, ahead |-> 0]
      /\ next = 1 /\ seen = [frame |-> 0, block |-> 0]
  BY DEF Init
<1>5. m \in Nat \ {0} /\ r \in Nat /\ Stride \in Nat \ {0} /\ Stride <= r
  BY MovieAssumption
<1>6. /\ movie.len = m /\ movie.size = z /\ movie.looped = l /\ ring.end = r
      /\ ring.held = [b \in 0..r - 1 |-> 0] /\ ring.keyed = {}
      /\ at.fill = 0 /\ at.prev = 0 /\ at.sound = Nowhere
      /\ game.pc = "preload" /\ game.goal = "fill" /\ game.todo = m
      /\ flag.buffered = IF l THEN 1 ELSE 0
  BY <1>2, <1>3, <1>4
<1>7. RingType
  <2>1. ring \in [held : [0..r - 1 -> 0..m], keyed : SUBSET (0..r - 1), end : 0..r]
    <3>1. [b \in 0..r - 1 |-> 0] \in [0..r - 1 -> 0..m] /\ r \in 0..r
      BY <1>5
    <3> QED
      BY <1>2, <3>1
  <2>2. at \in [fill : Int, prev : Nat, cur : Nat, sound : Int]
    BY <1>4 DEF Nowhere
  <2>3. \E x \in Nat : ring \in [held : [0..x - 1 -> 0..movie.len], keyed : SUBSET (0..x - 1),
                                 end : 0..x]
    BY <1>5, <1>6, <2>1
  <2> QED
    BY <1>5, <1>6, <2>2, <2>3 DEF RingType
<1>8. Phases
  <2>1. seen \in [frame : 0..m, block : Int] /\ next \in 1..m + 1
    BY <1>4, <1>5
  <2> QED
    BY <1>6, <2>1 DEF Phases, Early, Primed, Nowhere, NoMore
<1>9. ChunksLeft /\ LapInRing /\ SilentCount
  <2>1. ChunksLeft
    BY <1>4, <1>5, <1>6 DEF ChunksLeft, Early
  <2>2. LapInRing /\ SilentCount
    BY <1>6 DEF LapInRing, SilentCount, Primed
  <2> QED
    BY <2>1, <2>2
<1>10. Located
  <2>1. PICK p : p = [k \in 0..0 |-> 0]
    OBVIOUS
  <2>2. p \in [0..0 -> Nat] /\ p[0] = 0
    BY <2>1
  <2>3. Window(0, p, 1)
    <3>1. Chained(0, p)
      BY DEF Chained
    <3>2. Laid(0, p, 1)
      <4>1. \A k \in 0..0 : p[k] + Stride <= ring.end
        BY <1>5, <1>6, <2>2
      <4> QED
        BY <4>1 DEF Laid
    <3> QED
      BY <1>6, <2>2, <3>1, <3>2 DEF Window
  <2>4. Decoded(0, p, 1)
    <3>1. \A a \in DOMAIN ring.held : ring.held[a] = 0
      BY <1>6
    <3> QED
      BY <1>4, <1>6, <3>1 DEF Decoded, Primed
  <2>5. Sounding(0, p)
    BY <1>6 DEF Sounding, Primed
  <2> QED
    BY <2>3, <2>4, <2>5 DEF Located
<1> QED
  BY <1>1, <1>7, <1>8, <1>9, <1>10 DEF RingInv

(* The looks of the playback loop and its ends.                             *)
LEMMA LoopKeepsTheRing ==
  ASSUME RingInv, CountInv',
         Boundary \/ Skip \/ Again \/ Flushed \/ LookAbove \/ LookBelow \/ ReadFails
  PROVE  RingInv'
<1>1. CASE Boundary
  BY <1>1, GotoKeepsTheRing DEF Boundary, Mid
<1>2. CASE Skip
  BY <1>2, GotoKeepsTheRing DEF Skip, Mid
<1>3. CASE Again
  BY <1>3, GotoKeepsTheRing DEF Again, Mid
<1>4. CASE Flushed
  BY <1>4, GotoKeepsTheRing DEF Flushed, Mid
<1>5. CASE LookAbove
  BY <1>5, GotoKeepsTheRing DEF LookAbove, Granted, Mid, Roomy
<1>6. CASE LookBelow
  BY <1>6, GotoKeepsTheRing DEF LookBelow, Granted, Mid, Roomy
<1>7. CASE ReadFails
  BY <1>7, GotoKeepsTheRing DEF ReadFails, Mid
<1> QED
  BY <1>1, <1>2, <1>3, <1>4, <1>5, <1>6, <1>7

(* Every step keeps the ring's invariant.                                   *)
LEMMA RingHolds == ASSUME RingInv, [Next]_vars PROVE RingInv'
<1>0. CountInv'
  BY StepsKeepCounts DEF RingInv
<1>1. ASSUME UNCHANGED vars PROVE RingInv'
  <2>1. UNCHANGED <<movie, ring, at, left, flag, game, next, seen, lost, drift>>
    BY <1>1 DEF vars
  <2>2. PICK n, p, w : Window(n, p, w) /\ Decoded(n, p, w) /\ Sounding(n, p)
    BY DEF RingInv, Located
  <2>3. Window(n, p, w)'
    BY <2>1, <2>2, WindowStays
  <2>4. Decoded(n, p, w)' /\ Sounding(n, p)'
    BY <2>1, <2>2 DEF Decoded, Sounding, Primed
  <2>5. RingType' /\ Phases' /\ ChunksLeft' /\ SilentCount'
    <3>1. RingType'
      BY <2>1 DEF RingInv, RingType
    <3>2. Phases'
      BY <2>1 DEF RingInv, Phases, Primed, Roomy
    <3>3. ChunksLeft' /\ SilentCount'
      BY <2>1 DEF RingInv, ChunksLeft, SilentCount, Primed
    <3> QED
      BY <3>1, <3>2, <3>3
  <2>6. LapInRing'
    <3>1. (\A x, y : Past(x, y)' = Past(x, y)) /\ \A x : Succ(x)' = Succ(x)
      BY <2>1 DEF Past, After, Succ
    <3> QED
      BY <2>1, <3>1 DEF RingInv, LapInRing
  <2> QED
    BY <1>0, <2>3, <2>4, <2>5, <2>6 DEF RingInv, Located
<1>2. ASSUME Game PROVE RingInv'
  BY <1>0, <1>2, PreloadKeepsTheRing, QuietStepsKeepTheRing, PrimeKeepsTheRing,
     StartKeepsTheRing, DrainKeepsTheRing, StorePendingKeepsTheRing, LoopKeepsTheRing,
     FindInRingKeepsTheRing, ReadHeaderKeepsTheRing, ReadPayloadKeepsTheRing, TailKeepsTheRing,
     StoreLapKeepsTheRing DEF Game
<1> QED
  BY <1>0, <1>1, <1>2, SilentTickKeepsTheRing, SoundTickKeepsTheRing DEF Next

(* The ring's invariant holds of every movie and every ring.                *)
THEOREM RingIsAWindow == Spec => []RingInv
<1>1. Init => RingInv
  BY InitialRing
<1>2. RingInv /\ [Next]_vars => RingInv'
  BY RingHolds
<1> QED
  BY <1>1, <1>2, PTL DEF Spec
(* A frame or a block that differs from the last is the next one, however   *)
(* the tick falls between the reader's steps.                               *)
LEMMA StepsAreInOrder ==
  ASSUME RingInv, [Next]_vars
  PROVE  /\ seen'.frame # seen.frame => seen'.frame = (seen.frame % movie.len) + 1
         /\ seen'.block # seen.block => seen'.block = seen.block + 1 \/ game.pc = "start"
<1>1. PICK n, p, w : Window(n, p, w) /\ Decoded(n, p, w) /\ Sounding(n, p)
  BY DEF RingInv, Located
<1>2. movie.len \in Nat \ {0} /\ seen \in [frame : 0..movie.len, block : Int]
  BY RingNumbers DEF RingInv, Phases
<1>3. CASE PrimeFirstFrame
  <2>1. game.pc = "prime" /\ ~Primed
    BY <1>3 DEF PrimeFirstFrame, RingInv, Phases, Early
  <2>2. seen.frame = 0 /\ n > 0 /\ ring.held[p[0]] = 1 /\ p[0] = 0
    BY <1>1, <2>1 DEF Decoded, Window
  <2>3. seen' = [seen EXCEPT !.frame = 1]
    BY <1>3, <2>2 DEF PrimeFirstFrame
  <2>4. seen'.frame = 1 /\ seen'.block = seen.block
    BY <1>2, <2>3
  <2> QED
    BY <1>2, <2>2, <2>4, SuccIsNextInTheLap
<1>4. CASE Start
  <2>1. seen'.frame = seen.frame /\ game.pc = "start"
    BY <1>2, <1>4 DEF Start
  <2> QED
    BY <2>1
<1>5. CASE Drain
  <2>1. game.pc = "drain" /\ Primed /\ movie.sound
    BY <1>5 DEF Drain, RingInv, Phases, Early
  <2>2. CASE left.pending = 0
    BY <1>5, <2>2 DEF Drain
  <2>3. CASE left.pending # 0
    <3>1. seen' = [seen EXCEPT !.frame = ring.held[p[1]]]
      BY <1>1, <1>5, <2>1, <2>3 DEF Drain, Decoded
    <3>2. PICK j \in 1..n : left.pending \in 0..j - 1
      BY <1>1, <2>1 DEF Sounding
    <3>3. n \in Nat /\ 1 \in 1..n - 1 /\ 0 \in 0..n - 1 /\ 1 - 1 = 0
      BY <1>1, <2>3, <3>2 DEF Window
    <3>4. ring.held[p[0]] \in 1..movie.len /\ ring.held[p[1]] = Succ(ring.held[p[1 - 1]])
      BY <1>1, <3>3 DEF Window, Chained
    <3>5. seen.frame = ring.held[p[0]]
      BY <1>1, <2>1 DEF Decoded
    <3>6. seen'.frame = Succ(seen.frame) /\ seen'.block = seen.block
      BY <1>2, <3>1, <3>3, <3>4, <3>5
    <3> QED
      BY <1>2, <3>4, <3>5, <3>6, SuccIsNextInTheLap
  <2> QED
    BY <2>2, <2>3
<1>6. CASE SilentTick
  <2>1. /\ at.cur = p[1] /\ seen.frame = ring.held[p[0]] /\ ring.held[p[0]] \in 1..movie.len
        /\ ring.held[p[1]] = Succ(ring.held[p[0]])
    BY <1>1, <1>6, SilentTickFindsAChunk
  <2>2. seen' = [seen EXCEPT !.frame = ring.held[p[1]]]
    BY <1>6, <2>1 DEF SilentTick
  <2>3. seen'.frame = Succ(seen.frame) /\ seen'.block = seen.block
    BY <1>2, <2>1, <2>2
  <2> QED
    BY <1>2, <2>1, <2>3, SuccIsNextInTheLap
<1>7. CASE SoundTick
  <2>1. CASE ~Primed
    BY <1>7, <2>1 DEF SoundTick, Primed
  <2>2. CASE Primed
    <3>1. movie.sound
      BY <1>7 DEF SoundTick
    <3>2. PICK j \in 1..n :
            /\ at.sound = p[j] /\ left.sound + ring.held[p[j - 1]] + 1 <= movie.len
            /\ seen.block = ring.held[p[j - 1]] \/ game.pc = "start"
      BY <1>1, <2>2, <3>1 DEF Sounding
    <3>3. ring.held[p[j]] = ring.held[p[j - 1]] + 1
      BY <1>1, <1>7, <2>2, <3>2, SoundTickFindsAChunk
    <3>4. seen' = [seen EXCEPT !.block = ring.held[p[j]]]
      BY <1>7, <2>2, <3>2 DEF SoundTick, Primed
    <3>5. seen'.frame = seen.frame /\ seen'.block = ring.held[p[j]]
      BY <1>2, <3>4
    <3> QED
      BY <3>2, <3>3, <3>5
  <2> QED
    BY <2>1, <2>2
<1>8. CASE UNCHANGED seen
  BY <1>8
<1>9. PrimeFirstFrame \/ Start \/ Drain \/ SilentTick \/ SoundTick \/ UNCHANGED seen
  BY DEF Next, Game, vars, Preload, PreloadFails, BeginPlayback, Boundary, Skip, LoadPending,
         StorePending, Again, Flushed, LookAbove, LookBelow, FindInRing, ReadHeader, ReadPayload,
         ReadFails, Tail, LoadLap, StoreLap, Stop, Close, Goto
<1> QED
  BY <1>3, <1>4, <1>5, <1>6, <1>7, <1>8, <1>9

(* FramesInOrder: the reader that overwrites the ring (gdv_read_chunk) never*)
(* gets ahead of the decoder or the sound cursor, whatever the sizes of the *)
(* chunks and of the ring, and wherever the tick falls.                     *)
THEOREM FramesComeInOrder == Spec => FramesInOrder
<1>1. RingInv /\ [Next]_vars =>
        [/\ seen'.frame # seen.frame => seen'.frame = (seen.frame % movie.len) + 1
         /\ seen'.block # seen.block => seen'.block = seen.block + 1 \/ game.pc = "start"]_vars
  BY StepsAreInOrder
<1> QED
  BY <1>1, RingIsAWindow, PTL DEF Spec, FramesInOrder

-----------------------------------------------------------------------------
(* The marks.                                                               *)

(* A step that leaves the ring, the file and the request for a mark alone.  *)
LEMMA KeysStay ==
  ASSUME KeysAtTheStart, ring' = ring, movie' = movie, next' = next, at'.fill = at.fill,
         flag'.rekey = flag.rekey, flag'.buffered = flag.buffered,
         game'.pc # "payload" \/ game'.pc = game.pc,
         game'.pc \in Early \cup {"start"} => game.pc \in Early \cup {"start"},
         flag.rekey => game'.goal = "lap" \/ game'.pc \in {"header", "stop", "close", "done"}
  PROVE  KeysAtTheStart'
BY DEF KeysAtTheStart, KeyframesOnlyAtTheStart

(* Every step keeps the marks at the start of the lap.                      *)
LEMMA StepsKeepKeys == ASSUME RingInv, KeysAtTheStart, [Next]_vars PROVE KeysAtTheStart'
<1>1. /\ flag \in Flags /\ game \in Games /\ LapsAreLooped
      /\ at \in [fill : Int, prev : Nat, cur : Nat, sound : Int]
  BY DEF RingInv, CountInv, CounterType, RingType
<1> USE DEF KeysAtTheStart
<1>2. CASE \/ PreloadFails \/ BeginPlayback \/ Boundary \/ Skip \/ Again \/ Flushed \/ LookAbove
           \/ LookBelow \/ ReadFails
  <2>1. PICK a \in PCs, b \in PCs \ {"payload", "preload", "opened", "start"} :
          Goto(a, b) /\ (a = "header" => b = "stop") /\ (b = "prime" => a = "opened")
          /\ (a = "stop" => b = "close") /\ (a = "close" => b = "done")
          /\ (a = "done" => b = "done")
    BY <1>2 DEF PreloadFails, BeginPlayback, Boundary, Skip, Again, Flushed, LookAbove, LookBelow,
                ReadFails, PCs, Granted
  <2>2. /\ UNCHANGED <<movie, ring, at, left, flag, next>> /\ game.pc = a /\ game'.pc = b
        /\ game'.goal = game.goal
    BY <1>1, <2>1 DEF Goto, Games
  <2> QED
    BY <2>1, <2>2, KeysStay DEF Early
<1>3. CASE Drain \/ LoadPending \/ LoadLap
  <2>1. /\ UNCHANGED <<movie, ring, at, left, flag, next>> /\ game'.goal = game.goal
        /\ game.pc \in {"drain", "load", "lapload"}
        /\ game'.pc \in {"again", "load", "store", "lapstore"}
    BY <1>1, <1>3 DEF Drain, LoadPending, LoadLap, Games
  <2> QED
    BY <2>1, KeysStay DEF Early
<1>4. CASE PrimeFirstFrame \/ StorePending \/ SilentTick \/ SoundTick
  <2>1. UNCHANGED <<movie, ring, flag, next>> /\ at'.fill = at.fill
    BY <1>1, <1>4 DEF PrimeFirstFrame, StorePending, SilentTick, SoundTick, CurPassed, SoundPassed
  <2>2. \/ game' = game
        \/ /\ game'.goal = game.goal
           /\ \/ game.pc = "prime" /\ game'.pc = "start"
              \/ game.pc = "store" /\ game'.pc = "again"
    BY <1>1, <1>4 DEF PrimeFirstFrame, StorePending, SilentTick, SoundTick, Games
  <2> QED
    BY <2>1, <2>2, KeysStay DEF Early
<1>5. CASE Start \/ Stop \/ Close \/ StoreLap
  <2>1. /\ UNCHANGED <<movie, ring, at, next>> /\ flag'.rekey = flag.rekey
        /\ flag'.buffered = flag.buffered
    BY <1>1, <1>5 DEF Start, Stop, Close, StoreLap, Flags
  <2>2. \/ game.pc = "start" /\ game'.pc \in {"boundary", "tail"}
        \/ game.pc = "stop" /\ game'.pc = "close"
        \/ game.pc = "close" /\ game'.pc = "done"
        \/ game.pc = "lapstore" /\ game'.pc = "header"
    BY <1>1, <1>5 DEF Start, Stop, Close, StoreLap, Games
  <2>3. game.pc = "start" => ~flag.rekey
    OBVIOUS
  <2> QED
    BY <2>1, <2>2, <2>3, KeysStay DEF Early
<1>6. CASE Preload
  <2>1. ring'.keyed = {} /\ flag'.rekey = FALSE /\ game'.pc \in {"preload", "opened"}
    BY <1>1, <1>6 DEF Preload, RingInv, RingType, Flags, Games, Early
  <2> QED
    BY <2>1 DEF Early, KeyframesOnlyAtTheStart
<1>7. CASE Tail
  <2>1. /\ UNCHANGED <<movie, ring>> /\ game'.pc = "boundary" /\ flag'.buffered = flag.buffered
        /\ game.pc = "tail" /\ game.goal = "fill" /\ ~flag.rekey
    BY ZenonT(40), <1>1, <1>7 DEF Tail, Flags, Games, LapsAreLooped
  <2>2. flag.buffered # 2 => next = movie.len + 1
    BY <2>1, RingNumbers DEF RingInv, ChunksLeft, Early
  <2>3. flag.buffered = 2 => ring.held[at.fill] = 1
    BY <2>1 DEF RingInv, LapInRing
  <2>4. flag'.rekey => game'.goal = "lap" /\ at' = at /\ next' \in {1, next}
    BY <1>1, <1>7, <2>1 DEF Tail, Games
  <2> QED
    BY <2>1, <2>2, <2>3, <2>4 DEF Early, KeyframesOnlyAtTheStart
<1>8. CASE FindInRing
  <2>1. /\ game.pc = "header" /\ game'.pc \in {"boundary", "tail"} /\ flag'.rekey = FALSE
        /\ flag.buffered = 2 /\ ring'.held = ring.held /\ ring'.keyed = ring.keyed \cup Rekeyed
    BY <1>1, <1>8 DEF FindInRing, Filled, Flags, Games, RingInv, RingType
  <2>2. at.fill \in DOMAIN ring.held
    BY <2>1 DEF RingInv, LapInRing
  <2> QED
    BY <2>1, <2>2 DEF Early, KeyframesOnlyAtTheStart, Rekeyed
<1>9. CASE ReadHeader
  <2>1. /\ game'.pc = "payload" /\ flag'.rekey = FALSE /\ flag.buffered # 2
        /\ UNCHANGED <<movie, at, next>> /\ next \in 1..movie.len
    BY <1>1, <1>9, RingNumbers DEF ReadHeader, Flags, Games
  <2>2. /\ ring'.held = Spoilt(at.fill, next)
        /\ ring'.keyed = {b \in ring.keyed : ring'.held[b] # 0} \cup Rekeyed
    BY <1>9 DEF ReadHeader, RingInv, RingType
  <2>3. at.fill \in DOMAIN ring.held /\ at.fill \in Nat
    <3>1. PICK n, p, w : Window(n, p, w)
      BY DEF RingInv, Located
    <3>2. at.fill # NoMore
      BY <1>1, <1>9 DEF ReadHeader, LapsAreLooped, RingInv, Phases
    <3>3. at.fill \in Nat /\ at.fill + Stride <= ring.end
      BY <3>1, <3>2 DEF Window, Laid
    <3> QED
      BY <3>3, SlotsAreInTheRing DEF RingInv
  <2>4. /\ DOMAIN ring'.held = DOMAIN ring.held
        /\ \A b \in DOMAIN ring.held : ring'.held[b] \in {0, ring.held[b]}
    BY <2>2 DEF Spoilt
  <2>5. ring'.held[at.fill] = 0
    <3>1. ring.held[at.fill] # 0 => ring.held[at.fill] \in 1..movie.len
      BY SMTT(20), <2>3, RingNumbers DEF RingInv, RingType
    <3>2. at.fill < After(at.fill, next)
      BY <2>1, <2>3, SlotsFit DEF RingInv
    <3>3. ring.held[at.fill] # 0 => at.fill < After(at.fill, ring.held[at.fill])
      BY <2>3, <3>1, SlotsFit DEF RingInv
    <3> QED
      BY <2>2, <2>3, <3>2, <3>3 DEF Spoilt
  <2>6. flag.rekey => next = 1
    BY <2>1, RingNumbers
  <2>7. \A a \in ring'.keyed : a = at.fill \/ (a \in ring.keyed /\ ring'.held[a] = ring.held[a])
    BY <2>2, <2>4 DEF Rekeyed
  <2>8. at.fill \in ring'.keyed => flag.rekey
    BY <2>2, <2>5 DEF Rekeyed
  <2>9. ring'.keyed \subseteq DOMAIN ring'.held
    BY <2>3, <2>4, <2>7
  <2> QED
    BY <2>1, <2>5, <2>6, <2>7, <2>8, <2>9 DEF Early, KeyframesOnlyAtTheStart
<1>10. CASE ReadPayload
  <2>1. /\ game.pc = "payload" /\ game'.pc \in {"boundary", "tail"} /\ flag' = flag
        /\ game.goal = "fill" /\ ~flag.rekey
    BY <1>1, <1>10 DEF ReadPayload, Filled, Games, LapsAreLooped
  <2>2. ring' = [ring EXCEPT !.held[at.fill] = next]
    BY <1>10 DEF ReadPayload
  <2>3. ring'.keyed = ring.keyed /\ ring'.held = [ring.held EXCEPT ![at.fill] = next]
    BY <2>2 DEF RingInv, RingType
  <2> QED
    BY <2>1, <2>3 DEF Early, KeyframesOnlyAtTheStart
<1>11. CASE UNCHANGED vars
  BY <1>11, KeysStay DEF vars
<1> QED
  BY <1>2, <1>3, <1>4, <1>5, <1>6, <1>7, <1>8, <1>9, <1>10, <1>11 DEF Next, Game

(* KeyframesOnlyAtTheStart: the flag that gdv_decode_loop raises when it    *)
(* rewinds the file reaches the first chunk of the lap, whether that chunk  *)
(* is read again or found in the ring.                                      *)
THEOREM KeyframesStartTheLap == Spec => []KeyframesOnlyAtTheStart
<1>1. Init => KeysAtTheStart
  BY DEF Init, KeysAtTheStart, KeyframesOnlyAtTheStart
<1>2. RingInv /\ KeysAtTheStart /\ [Next]_vars => KeysAtTheStart'
  BY StepsKeepKeys
<1>3. KeysAtTheStart => KeyframesOnlyAtTheStart
  BY DEF KeysAtTheStart
<1> QED
  BY <1>1, <1>2, <1>3, RingIsAWindow, PTL DEF Spec
=============================================================================
