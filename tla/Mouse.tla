------------------------------- MODULE Mouse -------------------------------
(***************************************************************************)
(* The mouse, from the window to the engine.                               *)
(*                                                                         *)
(* The SDL main thread adds the motion of each event to g_shm->mouse_dx    *)
(* and keeps the level of the buttons in g_shm->mouse_buttons.  The game   *)
(* thread, on another processor, polls both through INT 33h: function 0Bh  *)
(* subtracts what it read and returns its low 16 bits, function 3 returns  *)
(* the buttons, of which poll_mouse_input makes press edges.  Neither side *)
(* holds a lock, and both `+=` and `-=` are a load and a store.  One axis  *)
(* stands for the two.                                                     *)
(***************************************************************************)
EXTENDS Integers, FiniteSets

CONSTANTS
  Steps,      (* motion of one event                                       *)
  Half,       (* half the range of the motion register (2^15)              *)
  MaxMotion,  (* bound on the motion events                                *)
  MaxPresses, (* bound on the button presses                               *)
  MaxToggles  (* bound on the toggles of the button swap                   *)

ASSUME MouseAssumption ==
  /\ Steps \subseteq Int \ {0} /\ Half \in Nat \ {0}
  /\ MaxMotion \in Nat /\ MaxPresses \in Nat /\ MaxToggles \in Nat

VARIABLES
  dx,        \* g_shm->mouse_dx
  view,      \* SDL main thread in `mouse_dx += idx`: [pc, old, step]
  game,      \* game thread in AX=000B: [pc, dx, old]
  buttons,   \* g_shm->mouse_buttons
  prev,      \* g_mouse_buttons_prev
  swap,      \* g_mouse_button_swap
  events, presses, toggles,  \* history: counts, each with its bound
  added,     \* history: motion the viewer stored
  given,     \* history: motion the engine received
  stale,     \* history: a store wrote back a value that was no longer there
  clicks     \* history: press edges reported

motion == <<dx, view, game, events, added, given, stale>>
clicking == <<buttons, prev, swap, presses, toggles, clicks>>
mouseVars == <<motion, clicking>>

MouseInit ==
  /\ dx = 0 /\ events = 0 /\ added = 0 /\ given = 0 /\ stale = FALSE
  /\ view = [pc |-> "idle", old |-> 0, step |-> 0]
  /\ game = [pc |-> "idle", dx |-> 0, old |-> 0]
  /\ buttons = {} /\ prev = {} /\ swap \in BOOLEAN
  /\ presses = 0 /\ toggles = 0 /\ clicks = 0

-----------------------------------------------------------------------------
(* Motion.                                                                  *)

\* SDL_EVENT_MOUSE_MOTION: load the counter ...
ViewLoad ==
  /\ view.pc = "idle" /\ events < MaxMotion
  /\ \E s \in Steps : view' = [pc |-> "loaded", old |-> dx, step |-> s]
  /\ events' = events + 1
  /\ UNCHANGED <<dx, game, added, given, stale, clicking>>

\* ... and store the sum.
ViewStore ==
  /\ view.pc = "loaded"
  /\ dx' = view.old + view.step
  /\ added' = added + view.step
  /\ stale' = (stale \/ dx # view.old)
  /\ view' = [pc |-> "idle", old |-> 0, step |-> 0]
  /\ UNCHANGED <<game, events, given, clicking>>

\* dx = g_shm->mouse_dx
GameRead ==
  /\ game.pc = "idle"
  /\ game' = [pc |-> "read", dx |-> dx, old |-> 0]
  /\ UNCHANGED <<dx, view, events, added, given, stale, clicking>>

\* g_shm->mouse_dx -= dx: load the counter again ...
GameLoad ==
  /\ game.pc = "read"
  /\ game' = [game EXCEPT !.pc = "loaded", !.old = dx]
  /\ UNCHANGED <<dx, view, events, added, given, stale, clicking>>

\* CX holds the low 16 bits; poll_mouse_motion extends their sign.
SignExtended(n) == ((n + Half) % (2 * Half)) - Half

\* Mutant: the counter is cleared instead of reduced by what was read.
GameClears ==
  /\ game.pc = "loaded"
  /\ dx' = 0
  /\ given' = given + SignExtended(game.dx)
  /\ stale' = (stale \/ dx # game.old)
  /\ game' = [pc |-> "idle", dx |-> 0, old |-> 0]
  /\ UNCHANGED <<view, events, added, clicking>>

\* ... and store the difference; the engine gets what was read first.
GameStore ==
  /\ game.pc = "loaded"
  /\ dx' = game.old - game.dx
  /\ given' = given + SignExtended(game.dx)
  /\ stale' = (stale \/ dx # game.old)
  /\ game' = [pc |-> "idle", dx |-> 0, old |-> 0]
  /\ UNCHANGED <<view, events, added, clicking>>

-----------------------------------------------------------------------------
(* Buttons.                                                                 *)

\* SDL_EVENT_MOUSE_BUTTON_DOWN and _UP store the level of all the buttons.
Press ==
  /\ presses < MaxPresses
  /\ \E b \in {"left", "right"} \ buttons : buttons' = buttons \cup {b}
  /\ presses' = presses + 1
  /\ UNCHANGED <<motion, prev, swap, toggles, clicks>>

LetGo ==
  /\ \E b \in buttons : buttons' = buttons \ {b}
  /\ UNCHANGED <<motion, prev, swap, presses, toggles, clicks>>

\* The key that toggles the swap.
ToggleSwap ==
  /\ toggles < MaxToggles
  /\ swap' = ~swap
  /\ toggles' = toggles + 1
  /\ UNCHANGED <<motion, buttons, prev, presses, clicks>>

\* The primary button is the left one, or with the swap on the right one.
Polled == {b \in {"primary", "secondary"} :
             IF (b = "primary") # swap THEN "left" \in buttons
                                       ELSE "right" \in buttons}

\* Mutant: the buttons of this poll are not kept for the next one.
PollButtonsForgets ==
  /\ clicks' = clicks + Cardinality(Polled \ prev)
  /\ UNCHANGED <<motion, buttons, prev, swap, presses, toggles>>

\* poll_mouse_input
PollButtons ==
  /\ clicks' = clicks + Cardinality(Polled \ prev)
  /\ prev' = Polled
  /\ UNCHANGED <<motion, buttons, swap, presses, toggles>>

MouseNext == \/ ViewLoad \/ ViewStore \/ GameRead \/ GameLoad \/ GameStore
             \/ Press \/ LetGo \/ ToggleSwap \/ PollButtons

MouseSpec == MouseInit /\ [][MouseNext]_mouseVars

-----------------------------------------------------------------------------
(* Motion is neither lost nor repeated by a poll that reads the counter     *)
(* twice with an event in between, as long as no store overwrites the other *)
(* side's: up to whole turns of the 16-bit register (a window dragged for   *)
(* long between two polls), what was added was received or is still there.  *)
UncontendedMotionIsExact ==
  ~stale => (added - given - dx) % (2 * Half) = 0

(* A press makes at most one click however often it is polled; the only     *)
(* other source of clicks is the swap being toggled with a button down.     *)
ClicksComeFromPresses == clicks <= presses + toggles
=============================================================================
