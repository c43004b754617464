------------------------------- MODULE Movie -------------------------------
(***************************************************************************)
(* The ring of chunks behind a movie and the cursors that chase each other *)
(* round it.                                                               *)
(*                                                                         *)
(* The game thread reads chunks from the file into the ring, ahead of the  *)
(* decoder.  In a silent movie the timer tick decodes them.  In a movie    *)
(* with sound the tick ships the sound of one chunk and leaves a pending   *)
(* frame, which the game thread decodes between two reads.  Two counters   *)
(* say how much is left, and the movie ends when the frames' counter       *)
(* reaches -1.  A looped movie (always silent) rewinds the file and adds a *)
(* whole lap to both; one that fits the ring is never read again.          *)
(*                                                                         *)
(* A tick is a signal on the game thread: it runs to its end between any   *)
(* two actions of the game.  The counters are volatile, so the game's      *)
(* "pending - 1" is a load and a store with room for a tick in between.    *)
(* Addresses are counted from the base of the ring.  A chunk being read    *)
(* spoils its whole slot from the start.  The codec, the pacing budgets    *)
(* (a tick finds a chunk due or does nothing) and the modes that no caller *)
(* asks for (timer-paced and streamed) are left out, and so is a movie     *)
(* that its reader cannot open.                                            *)
(***************************************************************************)
EXTENDS Integers

CONSTANTS
  Stride,     (* bytes a slot must hold: the largest chunk of the header     *)
  RingSizes,  (* sizes the ring may have; the code takes two strides or more *)
  Lengths,    (* number of frames of a movie                                 *)
  Sizes,      (* sizes of chunks                                             *)
  MaxDrift    (* bound: decrements of video that a new lap may overwrite     *)

ASSUME MovieAssumption ==
  /\ Stride \in Nat \ {0} /\ MaxDrift \in Nat
  /\ Sizes \subseteq 1..Stride /\ Lengths \subseteq Nat \ {0}
  /\ RingSizes \subseteq Nat /\ \A r \in RingSizes : r >= 2 * Stride

NoMore  == -1     \* fill once the last chunk has been read
Nowhere == -2     \* where sound stands until the first frame is up

VARIABLES
  movie,  \* the file: [sound, looped, len, size]
  ring,   \* [held, keyed, end]: the chunk that starts at an address (0: none
          \* or a spoilt one), the addresses whose chunk clears the picture
          \* and [91d5c]
  at,     \* cursors: [fill 91d60, prev 91d68, cur 91d6c, sound 91d70]
  left,   \* [video 91dba, sound 91db8, pending 91db4, ahead 91cb8]; not followed,
          \* because nothing reads them: ahead once playback has begun, and
          \* sound in a silent movie
  flag,   \* [active 91ddc, playing 91dd8, rekey 91dd6, buffered 91def]
  game,   \* game thread: [pc, goal, todo, loaded], todo being ECX
  next,   \* the chunk at the file's position
  seen,   \* history: [frame, block], last decoded and newest shipped
  lost,   \* history: pending frames that a store of the game wiped or may wipe
  drift   \* history: decrements of left.video that a new lap wiped
vars == <<movie, ring, at, left, flag, game, next, seen, lost, drift>>

\* What the game thread does next: read the movie on, wait for room to begin a
\* lap, or wait for the last frame.
Goals == {"fill", "lap", "flush"}
PCs == {"preload", "opened", "prime", "start", "tail", "boundary", "drain", "load", "store",
        "again", "flushed", "above", "below", "lapload", "lapstore", "header", "payload", "stop",
        "close", "done"}

\* The first byte past chunk f at address a, and the slot after it: the base
\* when a whole stride would not fit before the end.  (What is not a chunk has
\* no size that one could know.  FramesInOrder shows that none is met.)
After(a, f) == IF f = 0 THEN a ELSE a + movie.size[f]
Past(a, f)  == IF After(a, f) + Stride > ring.end THEN 0 ELSE After(a, f)

\* What is left of the ring when chunk f is written at address a.
Spoilt(a, f) ==
  [b \in DOMAIN ring.held |->
     IF ring.held[b] # 0 /\ b < After(a, f) /\ a < After(b, ring.held[b])
     THEN 0 ELSE ring.held[b]]

Init ==
  /\ \E n \in Lengths, r \in RingSizes, s, l \in BOOLEAN :
       /\ s => ~l
       /\ \E z \in [1..n -> Sizes] : movie = [sound |-> s, looped |-> l, len |-> n, size |-> z]
       /\ ring = [held |-> [b \in 0..r - 1 |-> 0], keyed |-> {}, end |-> r]
       /\ flag = [active |-> FALSE, playing |-> FALSE, rekey |-> FALSE,
                  buffered |-> IF l THEN 1 ELSE 0]
       /\ game = [pc |-> "preload", goal |-> "fill", todo |-> n, loaded |-> 0]
  /\ at = [fill |-> 0, prev |-> 0, cur |-> 0, sound |-> Nowhere]
  /\ left = [video |-> 0, sound |-> 0, pending |-> 0, ahead |-> 0]
  /\ next = 1 /\ seen = [frame |-> 0, block |-> 0] /\ lost = 0 /\ drift = 0

(*************************** Opening the movie *****************************)

\* The counters when the preload ends.
Counted == [left EXCEPT !.video = movie.len - 2, !.sound = movie.len - 2, !.ahead = @ + 1]

\* Nothing plays yet: chunks are read until the ring is full or the file ends.
\* A looped movie that fits is all in the ring, which then ends one stride
\* after the start of its last chunk.
Preload ==
  LET fill == Past(at.fill, next)
      more == fill # 0 /\ game.todo > 1
      fits == fill # 0 /\ ~more /\ flag.buffered # 0
  IN /\ game.pc = "preload"
     /\ next' = next + 1
     /\ ring' = [ring EXCEPT !.held[at.fill] = next, !.end = IF fits THEN at.fill + Stride ELSE @]
     /\ at' = [at EXCEPT !.fill = IF fits THEN 0 ELSE fill]
     /\ left' = IF more THEN [left EXCEPT !.ahead = @ + 1] ELSE Counted
     /\ flag' = [flag EXCEPT !.active = ~more, !.buffered = IF fits THEN 2 ELSE @]
     /\ game' = IF more THEN [game EXCEPT !.todo = @ - 1] ELSE [game EXCEPT !.pc = "opened"]
     /\ UNCHANGED <<movie, seen, lost, drift>>

\* A step of the game thread that only moves on.
Goto(from, to) == /\ game.pc = from /\ game' = [game EXCEPT !.pc = to]
                  /\ UNCHANGED <<movie, ring, at, left, flag, next, seen, lost, drift>>

\* The file cannot be read: the movie is not played.
PreloadFails == Goto("preload", "close")

\* The video mode is set, or it cannot be.
BeginPlayback == Goto("opened", "prime") \/ Goto("opened", "close")

(******************************** Decoding *********************************)

\* The cursors past the chunk under cur, and past the one under sound.
CurPassed   == [at EXCEPT !.prev = at.cur, !.cur = Past(at.cur, ring.held[at.cur])]
SoundPassed == [at EXCEPT !.sound = Past(at.sound, ring.held[at.sound])]

PrimeFirstFrame ==
  LET first == Past(0, ring.held[0])
  IN /\ game.pc = "prime"
     /\ seen' = [seen EXCEPT !.frame = ring.held[0]]
     /\ left' = [left EXCEPT !.pending = 0, !.ahead = @ - 1]
     /\ at' = [at EXCEPT !.prev = 0, !.cur = first, !.sound = first]
     /\ game' = [game EXCEPT !.pc = "start"]
     /\ UNCHANGED <<movie, ring, flag, next, lost, drift>>

\* The tick's slot is due.  Nothing that it would decode is being read.
CaughtUp(cursor) == at.fill # NoMore /\ at.fill = cursor

\* A silent movie: the tick decodes.  When the game is about to store the count
\* of a new lap, its decrement is wiped.
SilentTick ==
  /\ flag.active /\ ~movie.sound /\ flag.playing
  /\ left.video >= 0 /\ ~CaughtUp(at.cur)
  /\ game.pc = "lapstore" => drift < MaxDrift
  /\ seen' = [seen EXCEPT !.frame = ring.held[at.cur]]
  /\ left' = [left EXCEPT !.video = @ - 1]
  /\ at' = CurPassed
  /\ drift' = drift + (IF game.pc = "lapstore" THEN 1 ELSE 0)
  /\ UNCHANGED <<movie, ring, flag, game, next, lost>>

\* A movie with sound: the tick ships a block and leaves one more frame pending.
\* It does not ask whether playback has begun.  Until the first frame is up it
\* reads whatever address the movie before has left.
Unready == game.pc \in {"opened", "prime"}
SoundTick ==
  /\ flag.active /\ movie.sound
  /\ left.sound >= 0 /\ ~CaughtUp(at.sound)
  /\ left' = [left EXCEPT !.sound = @ - 1, !.pending = @ + 1]
  /\ IF at.sound = Nowhere
     THEN UNCHANGED <<at, seen>>
     ELSE seen' = [seen EXCEPT !.block = ring.held[at.sound]] /\ at' = SoundPassed
  /\ lost' = lost + (IF Unready \/ game.pc = "store" THEN 1 ELSE 0)
  /\ UNCHANGED <<movie, ring, flag, game, next, drift>>

(************************** The playback loop ******************************)

\* The movie begins and the sound of its first chunk is shipped.  What the
\* preload has left over is to be read.
Start ==
  LET todo == movie.len - 1 - left.ahead
  IN /\ game.pc = "start"
     /\ flag' = [flag EXCEPT !.playing = TRUE]
     /\ seen' = IF movie.sound /\ seen.block = 0 THEN [seen EXCEPT !.block = 1] ELSE seen
     /\ game' = [game EXCEPT !.todo = todo, !.pc = IF todo > 0 THEN "boundary" ELSE "tail"]
     /\ UNCHANGED <<movie, ring, at, left, next, lost, drift>>

\* The callback at a frame boundary: the player may end the movie.
Boundary == Goto("boundary", IF movie.sound THEN "drain" ELSE "again")
Skip     == Goto("boundary", "stop")

\* One pending frame is decoded.  The counter's decrement is a load and a store.
Drain ==
  /\ game.pc = "drain"
  /\ IF left.pending = 0
     THEN game' = [game EXCEPT !.pc = "again"] /\ UNCHANGED seen
     ELSE game' = [game EXCEPT !.pc = "load"] /\ seen' = [seen EXCEPT !.frame = ring.held[at.cur]]
  /\ UNCHANGED <<movie, ring, at, left, flag, next, lost, drift>>

LoadPending == /\ game.pc = "load"
               /\ game' = [game EXCEPT !.loaded = left.pending, !.pc = "store"]
               /\ UNCHANGED <<movie, ring, at, left, flag, next, seen, lost, drift>>

StorePendingOnly == /\ game.pc = "store"
                    /\ left' = [left EXCEPT !.pending = game.loaded - 1]
                    /\ at' = CurPassed
                    /\ game' = [game EXCEPT !.loaded = 0, !.pc = "again"]
                    /\ UNCHANGED <<movie, ring, flag, next, seen, lost, drift>>

\* The store, the frame off the count and the cursor in one step: a tick with
\* sound looks at neither of the two others.
StorePending == /\ game.pc = "store"
                /\ left' = [left EXCEPT !.pending = game.loaded - 1, !.video = @ - 1]
                /\ at' = CurPassed
                /\ game' = [game EXCEPT !.loaded = 0, !.pc = "again"]
                /\ UNCHANGED <<movie, ring, flag, next, seen, lost, drift>>

\* Two frames behind: on without reading.
Again ==
  \/ movie.sound /\ left.pending >= 2 /\ Goto("again", "drain")
  \/ ~(movie.sound /\ left.pending >= 2)
     /\ Goto("again", IF game.goal = "flush" THEN "flushed" ELSE "above")

\* After the last chunk: round and round until the counter of frames is -1.
Flushed == Goto("flushed", IF left.video = -1 THEN "stop" ELSE "boundary")

LookAboveOrAt ==
  Goto("above", IF at.fill >= at.prev THEN IF game.goal = "lap" THEN "lapload" ELSE "header"
                ELSE "below")

LookTwoBelow ==
  Goto("below", IF at.fill + 2 * Stride < at.prev
                THEN IF game.goal = "lap" THEN "lapload" ELSE "header" ELSE "boundary")

\* Is there room for a chunk, above the decoder's last chunk or below it?  The
\* tick may move prev between the two looks.
Granted == IF game.goal = "lap" THEN "lapload" ELSE "header"
LookAbove == Goto("above", IF at.fill > at.prev THEN Granted ELSE "below")
LookBelow == Goto("below", IF at.fill + Stride < at.prev THEN Granted ELSE "boundary")

\* A chunk has been read, or found in the ring: chunk f under fill.
Filled(f) == /\ at' = [at EXCEPT !.fill = Past(at.fill, f)]
             /\ game' = [game EXCEPT !.todo = @ - 1,
                                     !.pc = IF game.todo > 1 THEN "boundary" ELSE "tail"]

\* The mark for "clear the picture" goes to the next chunk.
Rekeyed == IF flag.rekey THEN {at.fill} ELSE {}

FindInRing == /\ game.pc = "header" /\ flag.buffered = 2
              /\ ring' = [ring EXCEPT !.keyed = @ \cup Rekeyed]
              /\ flag' = [flag EXCEPT !.rekey = FALSE]
              /\ Filled(ring.held[at.fill])
              /\ UNCHANGED <<movie, left, next, seen, lost, drift>>

ReadHeader == /\ game.pc = "header" /\ flag.buffered # 2 /\ next <= movie.len
              /\ LET held == Spoilt(at.fill, next)
                 IN ring' = [ring EXCEPT !.held = held,
                                         !.keyed = {b \in @ : held[b] # 0} \cup Rekeyed]
              /\ flag' = [flag EXCEPT !.rekey = FALSE]
              /\ game' = [game EXCEPT !.pc = "payload"]
              /\ UNCHANGED <<movie, at, left, next, seen, lost, drift>>

ReadPayload == /\ game.pc = "payload"
               /\ ring' = [ring EXCEPT !.held[at.fill] = next]
               /\ next' = next + 1
               /\ Filled(next)
               /\ UNCHANGED <<movie, left, flag, seen, lost, drift>>

\* Nine attempts have failed, as they must at the end of the file: playback is
\* over.
ReadFails == flag.buffered # 2 /\ (Goto("header", "stop") \/ Goto("payload", "stop"))

\* The last chunk is in the ring.  A looped movie rewinds the file and does not
\* ask whether that went well.
Tail ==
  /\ game.pc = "tail"
  /\ IF movie.looped
     THEN /\ flag' = [flag EXCEPT !.rekey = TRUE]
          /\ next' \in (IF flag.buffered = 2 THEN {next} ELSE {1, next})
          /\ game' = [game EXCEPT !.goal = "lap", !.pc = "boundary"]
          /\ UNCHANGED at
     ELSE /\ at' = [at EXCEPT !.fill = NoMore]
          /\ game' = [game EXCEPT !.goal = "flush", !.pc = "boundary"]
          /\ UNCHANGED <<flag, next>>
  /\ UNCHANGED <<movie, ring, left, seen, lost, drift>>

StoreLapKeepsTodo ==
  /\ game.pc = "lapstore"
  /\ left' = [left EXCEPT !.video = game.loaded + movie.len]
  /\ game' = [game EXCEPT !.loaded = 0, !.goal = "fill", !.pc = "header"]
  /\ UNCHANGED <<movie, ring, at, flag, next, seen, lost, drift>>

StoreLapUncounted ==
  /\ game.pc = "lapstore"
  /\ game' = [game EXCEPT !.loaded = 0, !.todo = movie.len, !.goal = "fill", !.pc = "header"]
  /\ UNCHANGED <<movie, ring, at, left, flag, next, seen, lost, drift>>

\* A lap is added to the counter, a load and a store, and its reading begins.
LoadLap == /\ game.pc = "lapload"
           /\ game' = [game EXCEPT !.loaded = left.video, !.pc = "lapstore"]
           /\ UNCHANGED <<movie, ring, at, left, flag, next, seen, lost, drift>>

StoreLap == /\ game.pc = "lapstore"
            /\ left' = [left EXCEPT !.video = game.loaded + movie.len]
            /\ game' = [game EXCEPT !.loaded = 0, !.todo = movie.len, !.goal = "fill",
                                    !.pc = "header"]
            /\ UNCHANGED <<movie, ring, at, flag, next, seen, lost, drift>>

Stop == /\ game.pc = "stop"
        /\ flag' = [flag EXCEPT !.playing = FALSE]
        /\ game' = [game EXCEPT !.pc = "close"]
        /\ UNCHANGED <<movie, ring, at, left, next, seen, lost, drift>>

Close == /\ game.pc = "close"
         /\ flag' = [flag EXCEPT !.active = FALSE]
         /\ game' = [game EXCEPT !.pc = "done"]
         /\ UNCHANGED <<movie, ring, at, left, next, seen, lost, drift>>

Game == \/ Preload \/ PreloadFails \/ BeginPlayback \/ PrimeFirstFrame \/ Start
        \/ Boundary \/ Skip \/ Drain \/ LoadPending \/ StorePending \/ Again \/ Flushed
        \/ LookAbove \/ LookBelow \/ FindInRing \/ ReadHeader \/ ReadPayload \/ ReadFails
        \/ Tail \/ LoadLap \/ StoreLap \/ Stop \/ Close

Next == Game \/ SilentTick \/ SoundTick

\* The game thread runs, and a chunk that may be decoded falls due.
Spec == Init /\ [][Next]_vars /\ WF_vars(Game) /\ WF_vars(SilentTick) /\ WF_vars(SoundTick)

(******************************* Properties ********************************)

\* Whenever another frame is decoded or another block shipped than the last, it
\* is the next one of the file, although the reader overwrites the ring under
\* the decoder and a tick may move the decoder between the reader's two looks.
\* (The same one twice running is not seen.  The first block is exempt: a tick
\* between the first frame and it ships the second block ahead of it.)
FramesInOrder ==
  [][/\ seen'.frame # seen.frame => seen'.frame = (seen.frame % movie.len) + 1
     /\ seen'.block # seen.block => seen'.block = seen.block + 1 \/ game.pc = "start"]_vars

\* In a loop only the first chunk of the lap is marked to clear the picture.
\* Clearing it under a later one leaves black where that chunk changes little.
KeyframesOnlyAtTheStart == \A a \in ring.keyed : ring.held[a] \in {0, 1}

\* With sound, every frame still to be shown has its block still to be shipped
\* or is pending, except those that a store of the game has wiped.
FramesAreAccounted ==
  movie.sound /\ flag.playing /\ game.pc # "store" =>
    left.video = left.sound + left.pending + lost

\* A movie that is opened ends without the player's help if its ring holds
\* three chunks (two are accepted) and no pending frame was wiped.
MovieEnds ==
  (flag.active /\ ~movie.looped /\ ring.end >= 3 * Stride) ~> (game.pc = "done" \/ lost > 0)

\* A loop comes round again unless it is stopped.  The ring must be as above; a
\* movie that is all in the ring must also be longer than a slot before its
\* last chunk, because the reader waits for the decoder to be that far.
LastStart(n) == CHOOSE a \in DOMAIN ring.held : ring.held[a] = n
LoopKeepsTurning ==
  (/\ flag.playing /\ movie.looped /\ seen.frame = movie.len
   /\ IF flag.buffered = 2 THEN LastStart(movie.len) > Stride ELSE ring.end >= 3 * Stride)
    ~> (seen.frame = 1 \/ game.pc = "done")
=============================================================================
