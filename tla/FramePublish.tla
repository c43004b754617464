---------------------------- MODULE FramePublish ----------------------------
(***************************************************************************)
(* How a rendered scene travels from the engine to the window.             *)
(*                                                                         *)
(* Three actors share memory without a lock:                               *)
(*   - the game thread draws scenes into a back buffer, flips, and at the  *)
(*     flip copies the back buffer into a snapshot; during a full-screen   *)
(*     cutscene it writes each decoded frame into the shared pixels itself;*)
(*   - the timer tick (a signal handler) preempts the game thread at any   *)
(*     instruction, publishes into the shared pixels and bumps `frame`;    *)
(*   - the SDL main thread runs on another processor, reads the pixels     *)
(*     between two reads of `frame`, and uploads what it read.             *)
(*                                                                         *)
(* A pixel is the record of what was drawn there: the scene it comes from, *)
(* whether the plugin overlay was composed over it, and the publication    *)
(* that wrote it.  The palette and the dimensions are left out.            *)
(***************************************************************************)
EXTENDS Naturals, FiniteSets

CONSTANTS
  NCells,    (* pixels of a frame, written and read in ascending order     *)
  Panel,     (* the cells that the open plugin overlay covers              *)
  Paths,     (* the publish paths this instance explores                   *)
  LfbModes,  (* whether its video mode has a linear frame buffer: the cases *)
  MaxTries,  (* reads of one frame before the reader presents regardless   *)
  MaxScene,  (* bound on the scenes drawn                                  *)
  MaxPub,    (* bound on the publications                                  *)
  Endless    (* TRUE: the counters wrap and the producer never stops       *)

AllPaths == {"vga13h", "flip", "popup", "corner", "gdv"}

ASSUME FrameAssumption ==
  /\ NCells \in Nat \ {0}
  /\ Panel \subseteq 1 .. NCells
  /\ Paths \subseteq AllPaths
  /\ LfbModes \subseteq BOOLEAN /\ Endless \in BOOLEAN
  /\ MaxTries \in Nat \ {0} /\ MaxScene \in Nat /\ MaxPub \in Nat

VARIABLES
  lfb,     \* the video mode has a linear frame buffer
  path,    \* which branch of shm_tick the engine's globals select
  scene,   \* the scene being drawn
  back,    \* the back buffer (in mode 13h, the VGA window): cell -> scene
  clean,   \* g_clean_frame: cell -> scene
  valid,   \* g_clean_valid
  shown,   \* history: the scene of the last finished snapshot
  game,    \* game thread: [pc, at]
  tick,    \* the tick handler: [pc, at]
  stage,   \* g_pub_stage, the frame a staged tick is about to publish
  pixels,  \* g_shm->pixels
  frame,   \* g_shm->frame
  pubs,    \* publications begun (numbers them)
  reader   \* SDL main thread: [pc, at, f0, tries, rgb]

vars == <<lfb, path, scene, back, clean, valid, shown, game, tick, stage,
          pixels, frame, pubs, reader>>

Cells == 1 .. NCells

Pixel(s, o, p) == [scene |-> s, over |-> o, pub |-> p]

\* Overlay panel composed over the cells it covers.
Composed(f) == [c \in Cells |-> IF c \in Panel THEN [f[c] EXCEPT !.over = TRUE]
                                               ELSE f[c]]

\* A counter that stops at its bound, or wraps when the instance is endless.
\* Ticks that publish nothing bump `frame` too, hence its bound is twice MaxPub.
Bump(n, max) == IF n < max THEN n + 1 ELSE 0
Room(n, max) == Endless \/ n < max
MaxFrame == 2 * MaxPub

Init ==
  /\ lfb \in LfbModes
  /\ path \in Paths
  /\ scene = 1
  /\ back = [c \in Cells |-> 0]
  /\ clean = [c \in Cells |-> 0]
  /\ valid = FALSE /\ shown = 0
  /\ game = [pc |-> "draw", at |-> 1]
  /\ tick = [pc |-> "idle", at |-> 1]
  /\ stage = [c \in Cells |-> Pixel(0, FALSE, 0)]
  /\ pixels = [c \in Cells |-> Pixel(0, FALSE, 0)]
  /\ frame = 0
  /\ pubs = 0
  /\ reader = [pc |-> "f0", at |-> 1, f0 |-> 0, tries |-> 0,
               rgb |-> [c \in Cells |-> Pixel(0, FALSE, 0)]]

-----------------------------------------------------------------------------
(* The game thread.  It runs only while the tick handler is not running.    *)

Preempted == tick.pc # "idle"

\* Between frames the engine may enter another video mode, a cutscene, the
\* inspect popup or the corner portrait.
SwitchPath ==
  /\ ~Preempted
  /\ game = [pc |-> "draw", at |-> 1]
  /\ \E p \in Paths \ {path} : path' = p
  /\ UNCHANGED <<lfb, shown, scene, back, clean, valid, game, tick, stage,
                 pixels, frame, pubs, reader>>

\* Draw the next cell of the scene; a finished scene is flipped (or, in a
\* cutscene, emitted).  The engine's drawing operations write the back buffer
\* rectangle by rectangle, as fill_rect_solid does.
DrawCell ==
  /\ ~Preempted
  /\ game.pc = "draw"
  /\ Room(scene, MaxScene)
  /\ back' = [back EXCEPT ![game.at] = scene]
  /\ game' = IF game.at < NCells THEN [pc |-> "draw", at |-> game.at + 1]
             ELSE [pc |-> IF path = "gdv" THEN "emit" ELSE "flip", at |-> 1]
  /\ UNCHANGED <<lfb, shown, path, scene, clean, valid, tick, stage, pixels,
                 frame, pubs, reader>>

\* host_flip_video_page in mode 13h: nothing is copied, the window is shown live.
FlipRaw ==
  /\ ~Preempted
  /\ game.pc = "flip"
  /\ path = "vga13h"
  /\ scene' = Bump(scene, MaxScene)
  /\ game' = [pc |-> "draw", at |-> 1]
  /\ UNCHANGED <<lfb, shown, path, back, clean, valid, tick, stage, pixels,
                 frame, pubs, reader>>

\* video_publish_composed at the flip: one memcpy of the back buffer into
\* g_clean_frame, which the tick can interrupt between any two cells.
SnapshotCell ==
  /\ ~Preempted
  /\ game.pc = "flip"
  /\ path # "vga13h"
  /\ clean' = [clean EXCEPT ![game.at] = back[game.at]]
  /\ game' = [game EXCEPT !.pc = IF game.at < NCells THEN @ ELSE "snapped",
                          !.at = IF game.at < NCells THEN @ + 1 ELSE 1]
  /\ UNCHANGED <<lfb, shown, path, scene, back, valid, tick, stage, pixels,
                 frame, pubs, reader>>

SnapshotDone ==
  /\ ~Preempted
  /\ game.pc = "snapped"
  /\ valid' = TRUE
  /\ scene' = Bump(scene, MaxScene)
  /\ game' = [pc |-> "draw", at |-> 1]
  /\ shown' = scene
  /\ UNCHANGED <<lfb, path, back, clean, tick, stage, pixels, frame,
                 pubs, reader>>

\* gdv_publish_frame: clear the canvas to the surround colour, in one step for
\* all cells: the colour is of no scene, so half a clearing shows no more ...
EmitClear ==
  /\ ~Preempted
  /\ game.pc = "emit"
  /\ Room(pubs, MaxPub)
  /\ pubs' = Bump(pubs, MaxPub)
  /\ pixels' = [c \in Cells |-> Pixel(0, FALSE, pubs')]
  /\ game' = [pc |-> "emitrow", at |-> 1]
  /\ UNCHANGED <<lfb, shown, path, scene, back, clean, valid, tick, stage,
                 frame, reader>>

\* ... then copy the decoded frame row by row ...
EmitRow ==
  /\ ~Preempted
  /\ game.pc = "emitrow"
  /\ pixels' = [pixels EXCEPT ![game.at] = Pixel(back[game.at], FALSE, pubs)]
  /\ game' = [pc |-> IF game.at < NCells THEN "emitrow" ELSE "emitted",
              at |-> IF game.at < NCells THEN game.at + 1 ELSE 1]
  /\ UNCHANGED <<lfb, shown, path, scene, back, clean, valid, tick, stage,
                 frame, pubs, reader>>

\* ... and count the frame.
EmitDone ==
  /\ ~Preempted
  /\ game.pc = "emitted"
  /\ frame' = Bump(frame, MaxFrame)
  /\ scene' = Bump(scene, MaxScene)
  /\ game' = [pc |-> "draw", at |-> 1]
  /\ UNCHANGED <<lfb, shown, path, back, clean, valid, tick, stage, pixels,
                 pubs, reader>>

-----------------------------------------------------------------------------
(* The tick: shm_tick runs to its end before the game thread goes on.       *)

\* Ships the live display page straight into g_shm->pixels (video_publish_lfb_page).
ShipsLivePage == path \in {"popup", "corner"} /\ lfb

\* Mutant: publish the buffer the engine is drawing into.
SnapshotOfBack == back

\* The snapshot this tick publishes; the popup without a linear frame buffer
\* refreshes it from the back buffer first.
Snapshot == IF path = "popup" THEN back ELSE clean

\* Mutant: the overlay is composed after the blit, over the shared pixels.
TickStageBare ==
  /\ tick.pc = "idle"
  /\ Room(pubs, MaxPub)
  /\ path # "gdv" /\ ~ShipsLivePage
  /\ path = "vga13h" \/ valid \/ path = "popup"
  /\ pubs' = Bump(pubs, MaxPub)
  /\ stage' = [c \in Cells |-> Pixel(Snapshot[c], FALSE, pubs')]
  /\ tick' = [pc |-> "blit", at |-> 1]
  /\ UNCHANGED <<lfb, shown, path, scene, back, clean, valid, game, pixels,
                 frame, reader>>

\* The staged paths build the whole frame, overlay included, in g_pub_stage.
TickStage ==
  /\ tick.pc = "idle"
  /\ Room(pubs, MaxPub)
  /\ path # "gdv" /\ ~ShipsLivePage
  /\ path = "vga13h" \/ valid \/ path = "popup"
  /\ pubs' = Bump(pubs, MaxPub)
  /\ stage' = LET src == IF path = "vga13h" THEN back ELSE Snapshot
              IN  Composed([c \in Cells |-> Pixel(src[c], FALSE, pubs')])
  /\ clean' = IF path = "vga13h" THEN clean ELSE Snapshot
  /\ valid' = (valid \/ path = "popup")
  /\ tick' = [pc |-> "blit", at |-> 1]
  /\ shown' = IF path = "popup" THEN back[NCells] ELSE shown
  /\ UNCHANGED <<lfb, path, scene, back, game, pixels, frame, reader>>

\* One memcpy from g_pub_stage to g_shm->pixels.
TickBlit ==
  /\ tick.pc = "blit"
  /\ pixels' = [pixels EXCEPT ![tick.at] = stage[tick.at]]
  /\ tick' = IF tick.at < NCells THEN [tick EXCEPT !.at = @ + 1]
                                 ELSE [pc |-> "bump", at |-> 1]
  /\ UNCHANGED <<lfb, shown, path, scene, back, clean, valid, game, stage,
                 frame, pubs, reader>>

\* The popup and the corner portrait copy the display page into the pixels.
TickLivePage ==
  /\ tick.pc = "idle"
  /\ Room(pubs, MaxPub)
  /\ ShipsLivePage
  /\ pubs' = Bump(pubs, MaxPub)
  /\ tick' = [pc |-> "live", at |-> 1]
  /\ UNCHANGED <<lfb, shown, path, scene, back, clean, valid, game, stage,
                 pixels, frame, reader>>

TickLiveCell ==
  /\ tick.pc = "live"
  /\ pixels' = [pixels EXCEPT ![tick.at] = Pixel(back[tick.at], FALSE, pubs)]
  /\ tick' = IF tick.at < NCells THEN [tick EXCEPT !.at = @ + 1]
                                 ELSE [pc |-> "compose", at |-> 1]
  /\ UNCHANGED <<lfb, shown, path, scene, back, clean, valid, game, stage,
                 frame, pubs, reader>>

\* In a cutscene the tick publishes nothing of its own; before the first flip
\* there is nothing to publish.
TickSkip ==
  /\ tick.pc = "idle"
  /\ \/ path = "gdv"
     \/ path \in {"flip", "corner"} /\ ~ShipsLivePage /\ ~valid
  /\ Room(frame, MaxPub)
  /\ tick' = [pc |-> "compose", at |-> 1]
  /\ UNCHANGED <<lfb, shown, path, scene, back, clean, valid, game, stage,
                 pixels, frame, pubs, reader>>

\* plugins_dispatch_compose_tick on a frame that was not staged.
TickCompose ==
  /\ tick.pc = "compose"
  /\ pixels' = Composed(pixels)
  /\ tick' = [pc |-> "bump", at |-> 1]
  /\ UNCHANGED <<lfb, shown, path, scene, back, clean, valid, game, stage,
                 frame, pubs, reader>>

\* Mutant: the frame counter is not bumped.
TickBumpForgets ==
  /\ tick.pc = "bump"
  /\ tick' = [pc |-> "idle", at |-> 1]
  /\ UNCHANGED <<lfb, shown, path, scene, back, clean, valid, game, stage,
                 pixels, frame, pubs, reader>>

TickBump ==
  /\ tick.pc = "bump"
  /\ frame' = Bump(frame, MaxFrame)
  /\ tick' = [pc |-> "idle", at |-> 1]
  /\ UNCHANGED <<lfb, shown, path, scene, back, clean, valid, game, stage,
                 pixels, pubs, reader>>

-----------------------------------------------------------------------------
(* The SDL main thread: one iteration of the present loop.                  *)

ReadF0 ==
  /\ reader.pc = "f0"
  /\ reader' = [reader EXCEPT !.pc = "read", !.f0 = frame, !.at = 1]
  /\ UNCHANGED <<lfb, shown, path, scene, back, clean, valid, game, tick,
                 stage, pixels, frame, pubs>>

ReadCell ==
  /\ reader.pc = "read"
  /\ reader' = [reader EXCEPT !.rgb[reader.at] = pixels[reader.at],
                              !.pc = IF reader.at < NCells THEN @ ELSE "f1",
                              !.at = IF reader.at < NCells THEN @ + 1 ELSE 1]
  /\ UNCHANGED <<lfb, shown, path, scene, back, clean, valid, game, tick,
                 stage, pixels, frame, pubs>>

\* while (f1 != f0 && ++tries < 2)
Retries == frame # reader.f0 /\ reader.tries + 1 < MaxTries

\* Mutant: retry until the two reads agree.
ReadF1Unbounded ==
  /\ reader.pc = "f1"
  /\ reader' = [reader EXCEPT !.pc = IF frame = reader.f0 THEN "stable" ELSE "f0"]
  /\ UNCHANGED <<lfb, shown, path, scene, back, clean, valid, game, tick,
                 stage, pixels, frame, pubs>>

ReadF1 ==
  /\ reader.pc = "f1"
  /\ reader' = IF Retries THEN [reader EXCEPT !.pc = "f0", !.tries = @ + 1]
               ELSE [reader EXCEPT !.pc = IF frame = reader.f0 THEN "stable"
                                                               ELSE "unstable"]
  /\ UNCHANGED <<lfb, shown, path, scene, back, clean, valid, game, tick,
                 stage, pixels, frame, pubs>>

\* SDL_UpdateTexture ... SDL_RenderPresent, whatever the guard said.
Present ==
  /\ reader.pc \in {"stable", "unstable"}
  /\ reader' = [reader EXCEPT !.pc = "f0", !.tries = 0]
  /\ UNCHANGED <<lfb, shown, path, scene, back, clean, valid, game, tick,
                 stage, pixels, frame, pubs>>

GameStep == \/ SwitchPath \/ DrawCell \/ FlipRaw \/ SnapshotCell
            \/ SnapshotDone \/ EmitClear \/ EmitRow \/ EmitDone
TickStep == \/ TickStage \/ TickBlit \/ TickLivePage \/ TickLiveCell
            \/ TickSkip \/ TickCompose \/ TickBump
ReaderStep == ReadF0 \/ ReadCell \/ ReadF1 \/ Present

Next == GameStep \/ TickStep \/ ReaderStep

\* The operating system keeps scheduling the SDL main thread.
Spec == Init /\ [][Next]_vars /\ WF_vars(ReaderStep)

-----------------------------------------------------------------------------
(* What the frame guard of the present loop does give (sdl_host.c, the      *)
(* do-while around the conversion): an upload whose two reads of `frame`    *)
(* agree mixes at most two consecutive publications, never older ones.      *)
StableUploadSpansTwoPublications ==
  reader.pc = "stable" =>
    \A c, d \in Cells : reader.rgb[c].pub <= reader.rgb[d].pub + 1

(* The overlay staging of traps.c: the panel never shows the bare world.    *)
(* Once the overlay was composed into the shared pixels, a panel cell loses *)
(* it only to a publication that is not staged (a cutscene frame or a live  *)
(* display page), and a staged tick always leaves it composed.              *)
PanelKeepsOverlay ==
  [][\A c \in Panel : pixels[c].over /\ ~pixels'[c].over
        => \/ game.pc \in {"emit", "emitrow"}
           \/ tick.pc = "live"]_vars

(* video_publish_composed runs at the page flip so that "the world renderer *)
(* is never caught mid-frame": outside the live display paths and mode 13h a *)
(* tick publishes cells of the flip copied last, or, when it lands inside   *)
(* the copy, of the one being copied, never of a scene whose drawing has    *)
(* not ended and never anything older, whatever cutscenes and other video   *)
(* modes came between the two flips.                                        *)
PublishesFinishedFlips ==
  tick.pc = "blit" /\ path \in {"flip", "corner"}
    => \A c \in Cells : \/ stage[c].scene = shown
                        \/ /\ stage[c].scene = scene
                           /\ game.pc \in {"flip", "snapped"}

(* The bounded retry of the present loop: however fast the producer bumps   *)
(* `frame`, the window is presented again and again.                        *)
PresentsForever == []<>(reader.pc \in {"stable", "unstable"})
=============================================================================
