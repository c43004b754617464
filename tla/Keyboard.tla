------------------------------ MODULE Keyboard ------------------------------
(***************************************************************************)
(* The path of a key event from the window to the engine.                  *)
(*                                                                         *)
(*   SDL main thread --push_key--> g_shm->key_ring --+                      *)
(*     timer tick, interactive:  iso_apply_scancode  |                      *)
(*     timer tick, otherwise:    8042 queue --IRQ 1--> keyboard_int9_isr    *)
(*                                                                         *)
(* Both ends apply an event to the held-key bitmap and, for a make of a    *)
(* key that is not a modifier, to a four-slot input ring that the game     *)
(* thread dequeues.  In the image-free program every tick is interactive;  *)
(* under the trap host a tick is interactive only while the game thread is *)
(* inside an interactive dispatch, where no interrupt can be injected.     *)
(***************************************************************************)
EXTENDS Integers, Sequences

CONSTANTS
  Keys,      (* the physical keys pressed in this instance                 *)
  CodeOf,    (* Keys -> the scancode after the shift fold                  *)
  Extended,  (* the keys sent with an E0 prefix                            *)
  Modifiers, (* the codes never put in the input ring                      *)
  ShmCap,    (* slots of g_shm->key_ring (ROTH_KEY_RING, 256)              *)
  QueueCap,  (* events the 8042 queue can hold (63)                        *)
  RingSlots, (* slots of the input ring (reset_input_ring: mask 3)         *)
  MaxSent    (* bound on the bytes pushed                                  *)

Codes == {CodeOf[k] : k \in Keys}

\* The prefix byte E0 is the scancode of no key.
ASSUME KeyboardAssumption ==
  /\ CodeOf \in [Keys -> Codes] /\ "e0" \notin Codes
  /\ Extended \subseteq Keys /\ Modifiers \subseteq Codes
  /\ ShmCap \in Nat \ {0} /\ QueueCap \in Nat /\ RingSlots \in Nat \ {0}
  /\ MaxSent \in Nat

VARIABLES
  standalone, \* g_standalone_boot: the image-free program, or the trap host
  down,      \* keys the user holds down
  out,       \* bytes send_key has still to push
  slot,      \* g_shm->key_ring
  written,   \* push_key has stored the byte, not yet bumped key_head
  khead,     \* g_shm->key_head
  ktail,     \* g_shm->key_tail
  queue,     \* g_kbd_q
  held,      \* g_key_state_bitmap
  buf,       \* the input ring's slots
  rhead, rtail,
  deq,       \* input_ring_dequeue in progress: the byte read, or <<>>
  mode,      \* game thread: "game", "handler" or "interactive"
  irq,       \* g_in_irq: "none", "timer" or "kbd"
  tick,      \* "idle", "reclaim", "drain", "irq"
  capture,   \* a plugin's on_scancode swallows every key
  sent, applied, queued, served,   \* history: bytes pushed, bytes applied,
             \* codes put in the input ring, codes dequeued from it
  spoiled    \* history: codes of which an event was dropped or swallowed

window == <<down, out, slot, written, khead, sent>>
engine == <<held, buf, rhead, applied, queued>>
consumer == <<rtail, deq, served>>
vars == <<window, engine, consumer, ktail, queue, mode, irq, tick, capture,
          spoiled, standalone>>

Event(c, make) == [code |-> c, make |-> make]
Prefix == Event("e0", TRUE)

Init ==
  /\ standalone \in BOOLEAN
  /\ down = {} /\ out = <<>> /\ written = FALSE
  /\ slot = [i \in 0 .. ShmCap - 1 |-> Prefix]
  /\ khead = 0 /\ ktail = 0 /\ queue = <<>>
  /\ held = {}
  /\ buf = [i \in 0 .. RingSlots - 1 |-> "e0"] /\ rhead = 0 /\ rtail = 0
  /\ deq = <<>>
  /\ mode = IF standalone THEN "interactive" ELSE "game"
  /\ irq = "none" /\ tick = "idle" /\ capture = FALSE
  /\ sent = <<>> /\ applied = <<>> /\ queued = <<>> /\ served = <<>>
  /\ spoiled = {}

-----------------------------------------------------------------------------
(* The SDL main thread, on a processor of its own.                          *)

Bytes(k, make) == IF k \in Extended THEN <<Prefix, Event(CodeOf[k], make)>>
                                    ELSE <<Event(CodeOf[k], make)>>

\* send_key for an SDL key event (key repeats are filtered by the caller).
SendKey ==
  /\ out = <<>>
  /\ \E k \in Keys :
       /\ Len(sent) + Len(Bytes(k, TRUE)) <= MaxSent
       /\ down' = IF k \in down THEN down \ {k} ELSE down \cup {k}
       /\ out' = Bytes(k, k \notin down)
  /\ UNCHANGED <<standalone, slot, written, khead, sent, engine, consumer,
                 ktail, queue, mode, irq, tick, capture, spoiled>>

\* Mutant: the head is bumped before the store.
PushStoreAhead ==
  /\ out # <<>> /\ ~written
  /\ slot' = [slot EXCEPT ![(khead + 1) % ShmCap] = Head(out)]
  /\ written' = TRUE
  /\ spoiled' = IF khead - ktail >= ShmCap THEN Codes ELSE spoiled
  /\ UNCHANGED <<standalone, down, out, khead, sent, engine, consumer, ktail,
                 queue, mode, irq, tick, capture>>

\* push_key stores the byte without looking at key_tail ...
PushStore ==
  /\ out # <<>> /\ ~written
  /\ slot' = [slot EXCEPT ![khead % ShmCap] = Head(out)]
  /\ written' = TRUE
  /\ spoiled' = IF khead - ktail >= ShmCap THEN Codes ELSE spoiled
  /\ UNCHANGED <<standalone, down, out, khead, sent, engine, consumer, ktail,
                 queue, mode, irq, tick, capture>>

\* ... and then publishes it.
PushBump ==
  /\ written
  /\ khead' = khead + 1
  /\ sent' = Append(sent, Head(out))
  /\ out' = Tail(out)
  /\ written' = FALSE
  /\ UNCHANGED <<standalone, down, slot, engine, consumer, ktail, queue, mode,
                 irq, tick, capture, spoiled>>

-----------------------------------------------------------------------------
(* Applying one event: iso_apply_scancode and keyboard_int9_isr.            *)

NextSlot(i) == (i + 1) % RingSlots

\* Mutant: a full ring takes the code all the same.
EnqueuesAlways(e) == e.make /\ e.code \notin Modifiers

\* A make is put in the input ring unless the ring is full.
Enqueues(e) == e.make /\ e.code \notin Modifiers /\ NextSlot(rhead) # rtail

\* Mutant: a break does not clear the held bit.
ApplySticky(e) ==
  /\ applied' = Append(applied, e)
  /\ IF e = Prefix \/ ~e.make
     THEN UNCHANGED <<held, buf, rhead, queued>>
     ELSE /\ held' = held \cup {e.code}
          /\ buf' = IF Enqueues(e) THEN [buf EXCEPT ![rhead] = e.code] ELSE buf
          /\ rhead' = IF Enqueues(e) THEN NextSlot(rhead) ELSE rhead
          /\ queued' = IF Enqueues(e) THEN Append(queued, e.code) ELSE queued

Apply(e) ==
  /\ applied' = Append(applied, e)
  /\ IF e = Prefix
     THEN UNCHANGED <<held, buf, rhead, queued>>
     ELSE /\ held' = IF e.make THEN held \cup {e.code} ELSE held \ {e.code}
          /\ buf' = IF Enqueues(e) THEN [buf EXCEPT ![rhead] = e.code] ELSE buf
          /\ rhead' = IF Enqueues(e) THEN NextSlot(rhead) ELSE rhead
          /\ queued' = IF Enqueues(e) THEN Append(queued, e.code) ELSE queued

\* The tick filters the event through the plugins first; the interrupt does not.
ApplyFiltered(e) ==
  IF capture
  THEN /\ applied' = Append(applied, e)
       /\ spoiled' = spoiled \cup {e.code}
       /\ UNCHANGED <<held, buf, rhead, queued>>
  ELSE Apply(e) /\ UNCHANGED spoiled

-----------------------------------------------------------------------------
(* The timer tick preempts the game thread and runs to its end.             *)

\* Mutant: what earlier ticks gave to the 8042 is not taken back.
TickBeginNoReclaim ==
  /\ tick = "idle"
  /\ tick' = "drain"
  /\ UNCHANGED <<standalone, window, engine, consumer, ktail, queue, mode,
                 irq, capture, spoiled>>

TickBegin ==
  /\ tick = "idle"
  /\ tick' = IF mode = "interactive" THEN "reclaim" ELSE "drain"
  /\ UNCHANGED <<standalone, window, engine, consumer, ktail, queue, mode,
                 irq, capture, spoiled>>

\* An interactive tick first takes back what earlier ticks gave to the 8042.
TickReclaim ==
  /\ tick = "reclaim"
  /\ queue # <<>>
  /\ queue' = Tail(queue)
  /\ ApplyFiltered(Head(queue))
  /\ UNCHANGED <<standalone, window, consumer, ktail, mode, irq, tick,
                 capture>>

TickReclaimed ==
  /\ tick = "reclaim"
  /\ queue = <<>>
  /\ tick' = "drain"
  /\ UNCHANGED <<standalone, window, engine, consumer, ktail, queue, mode,
                 irq, capture, spoiled>>

RingByte == slot[ktail % ShmCap]

TickApply ==
  /\ tick = "drain" /\ mode = "interactive"
  /\ ktail # khead
  /\ ktail' = ktail + 1
  /\ ApplyFiltered(RingByte)
  /\ UNCHANGED <<standalone, window, consumer, queue, mode, irq, tick,
                 capture>>

\* kbd_enqueue: a full queue drops the event.
TickEnqueue ==
  /\ tick = "drain" /\ mode # "interactive"
  /\ ktail # khead
  /\ ktail' = ktail + 1
  /\ queue' = IF Len(queue) < QueueCap THEN Append(queue, RingByte) ELSE queue
  /\ spoiled' = IF Len(queue) < QueueCap THEN spoiled
                ELSE spoiled \cup {RingByte.code}
  /\ UNCHANGED <<standalone, window, engine, consumer, mode, irq, tick,
                 capture>>

TickDrained ==
  /\ tick = "drain"
  /\ ktail = khead
  /\ tick' = IF standalone THEN "idle" ELSE "irq"
  /\ UNCHANGED <<standalone, window, engine, consumer, ktail, queue, mode,
                 irq, capture, spoiled>>

\* alarm_handler and inject_irq: the interrupt is dropped inside a dispatch,
\* inside another interrupt, with interrupts masked or outside game code.
TickIrq ==
  /\ tick = "irq"
  /\ tick' = "idle"
  /\ \/ UNCHANGED irq
     \/ /\ mode = "game" /\ irq = "none"
        /\ irq' = IF queue # <<>> THEN "kbd" ELSE "timer"
  /\ UNCHANGED <<standalone, window, engine, consumer, ktail, queue, mode,
                 capture, spoiled>>

-----------------------------------------------------------------------------
(* The game thread, between ticks.                                          *)

\* The int 9 handler of the original image reads port 0x60 and applies it.
KeyboardIsr ==
  /\ tick = "idle" /\ irq = "kbd"
  /\ irq' = "none"
  /\ IF queue = <<>> THEN UNCHANGED <<queue, engine>>
     ELSE queue' = Tail(queue) /\ Apply(Head(queue))
  /\ UNCHANGED <<standalone, window, consumer, ktail, mode, tick, capture,
                 spoiled>>

TimerIsr ==
  /\ tick = "idle" /\ irq = "timer"
  /\ irq' = "none"
  /\ UNCHANGED <<standalone, window, engine, consumer, ktail, queue, mode,
                 tick, capture, spoiled>>

\* Trap host: enter and leave a lifted function, interactive or not.
Dispatch ==
  /\ tick = "idle" /\ irq = "none" /\ ~standalone /\ deq = <<>>
  /\ mode' \in IF mode = "game" THEN {"handler", "interactive"} ELSE {"game"}
  /\ UNCHANGED <<standalone, window, engine, consumer, ktail, queue, irq,
                 tick, capture, spoiled>>

\* input_ring_dequeue: read the byte at the tail ...
DequeueRead ==
  /\ tick = "idle" /\ irq = "none" /\ deq = <<>>
  /\ rhead # rtail
  /\ deq' = <<buf[rtail]>>
  /\ UNCHANGED <<standalone, window, engine, rtail, served, ktail, queue,
                 mode, irq, tick, capture, spoiled>>

\* ... then advance the tail.
DequeueAdvance ==
  /\ tick = "idle" /\ irq = "none" /\ deq # <<>>
  /\ rtail' = NextSlot(rtail)
  /\ served' = served \o deq
  /\ deq' = <<>>
  /\ UNCHANGED <<standalone, window, engine, ktail, queue, mode, irq, tick,
                 capture, spoiled>>

\* A plugin overlay opens or closes (image-free builds load plugins).
ToggleCapture ==
  /\ tick = "idle" /\ standalone
  /\ capture' = ~capture
  /\ UNCHANGED <<standalone, window, engine, consumer, ktail, queue, mode,
                 irq, tick, spoiled>>

WindowStep == SendKey \/ PushStore \/ PushBump
TickStep == \/ TickBegin \/ TickReclaim \/ TickReclaimed \/ TickApply
            \/ TickEnqueue \/ TickDrained \/ TickIrq
GameStep == \/ KeyboardIsr \/ TimerIsr \/ Dispatch \/ DequeueRead
            \/ DequeueAdvance \/ ToggleCapture

Next == WindowStep \/ TickStep \/ GameStep

\* The interval timer keeps firing, and push_key finishes what it began.
Fairness == WF_vars(TickStep) /\ WF_vars(PushStore \/ PushBump)

Spec == Init /\ [][Next]_vars /\ Fairness

-----------------------------------------------------------------------------
\* Bytes in the shared ring, oldest first.
InShm == [i \in 1 .. khead - ktail |-> slot[(ktail + i - 1) % ShmCap]]

\* Codes in the input ring, oldest first.
RingLen == (rhead + RingSlots - rtail) % RingSlots
InRing == [i \in 1 .. RingLen |-> buf[(rtail + i - 1) % RingSlots]]

(* Events are applied in the order they were typed, across the switch       *)
(* between the interrupt path and the interactive tick: unless the shared   *)
(* ring lapped or the 8042 queue overflowed, what was applied, followed by  *)
(* the 8042 queue and the shared ring, is exactly what was pushed           *)
(* (shm_tick: "draining it first keeps make/break in order").               *)
EventsStayInOrder == spoiled = {} => applied \o queue \o InShm = sent

\* The last event pushed for a code, if any.
LastMake(c) ==
  LET is == {i \in 1 .. Len(sent) : sent[i].code = c}
  IN  is # {} /\ \E i \in is : sent[i].make /\ \A j \in is : j <= i

(* When every event is drained the held-key bitmap says of each code what   *)
(* its last event said, whichever of the two paths applied the events,      *)
(* unless a plugin or a full buffer took one of that code's events away.    *)
DrainedBitmapIsCurrent ==
  queue = <<>> /\ khead = ktail =>
    \A c \in Codes \ spoiled : c \in held <=> LastMake(c)

(* The four-slot input ring neither loses, repeats nor reorders a code that *)
(* it accepted, although the tick enqueues while the game thread is between *)
(* reading the byte and advancing the tail.                                 *)
InputRingConserves == queued = served \o InRing

(* The fix of the stuck movement key: once no key of a code is down and an  *)
(* interactive dispatch goes on for ever, the code's held bit clears and    *)
(* stays clear, although no interrupt can be injected any more.             *)
ReleasedKeyClears ==
  \A c \in Codes :
    <>[](/\ mode = "interactive" /\ c \notin spoiled
         /\ \A k \in down : CodeOf[k] # c)
      => <>[](c \notin held)
=============================================================================
