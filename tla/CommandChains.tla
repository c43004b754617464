--------------------------- MODULE CommandChains ---------------------------
(***************************************************************************)
(* The raw command interpreter: chains, conditions, dialogue, the deferred *)
(* queue, effects and timers (raw_commands.c, one level at a time).        *)
(*                                                                         *)
(* A level is a table of command records linked by `next`.  A trigger runs *)
(* a chain: each record dispatches a handler, and a handler may break the  *)
(* chain (interrupt), name a chain to fall back on (jump), fire a message, *)
(* list an effect or push a follow-up chain into the deferred queue.  A    *)
(* message is a dialogue record, which may itself run a chain before it    *)
(* returns: the interpreter is re-entered with its globals shared.         *)
(*                                                                         *)
(* The code is one thread of nested calls.  `agenda` is its stack: the     *)
(* call that runs now, then what its callers still have to do.  Triggers   *)
(* and ticks come only when it is empty.  What the records do to the map   *)
(* (light, textures, sound) is left out.  A Count's limit is its goal; its  *)
(* flag 0x08 and the xor step are left out.                                *)
(***************************************************************************)
EXTENDS Integers, Sequences, FiniteSets, FiniteSetsExt

CONSTANTS
  Levels,     (* the levels: sequences of records, see RecordType          *)
  QueueCap,   (* entries of a deferred queue: 0x10                         *)
  EffectCap,  (* effects the pool has room for                             *)
  TimerRetry  (* countdown of a timer that could not fire: 0x20            *)

Bases == {"contact", "click", "sector", "hook", "act", "toggle", "jump",
          "latch", "talk", "if", "give", "indexed", "count", "modify",
          "delay", "effect", "timer"}

\* next, arg: record numbers, 0 for none.  len: ticks of a delay or a timer,
\* the goal of a Count, the step of a Modify Count, of a toggle what it forces:
\* above 0 the bit, below 0 its absence.  once: the record retires when it has
\* acted (of a toggle: its flag 0x20 is off).  multi: modifier 0x04, of a
\* Count its wrap flag.  authored: bit 0x01.
RecordType(n) == [base: Bases, next: 0..n, arg: 0..n, len: Int,
                  once: BOOLEAN, multi: BOOLEAN, authored: BOOLEAN]

ASSUME CommandAssumption ==
  /\ {QueueCap, EffectCap, TimerRetry} \subseteq Nat \ {0}
  /\ \A l \in Levels : l \in Seq(RecordType(Len(l)))

VARIABLES
  level,      \* the table of the map that is loaded
  skipped,    \* records with modifier bit 0x08
  armed,      \* ... with bit 0x20: an effect of theirs is listed
  kept,       \* ... with bit 0x01: active as authored
  count,      \* the Counts' word +0xa
  front,      \* *0x71f40, the deferred queue: [at, served]
  effects,    \* g_active_effect_pool: [rec, left], newest first
  timers,     \* the timer queue at 0x89fc0: [rec, left]
  agenda,     \* the call stack: [do, at, back]
  interrupt,  \* g_command_chain_interrupt
  saved,      \* 0x8a0c8: where a failed condition continues
  nextActive, \* 0x8a0cc: what the last jump named
  pending,    \* g_pending_command_record: the message a failure fires
  acted,      \* 0x8a138: some handler acted
  picked,     \* g_item_autoselected_flag
  head,       \* 0x8a10c while 0x8a134 is set: head of a clicked chain
  step,       \* g_anim_step_mode and its delta; 0 is plain increment
  promise     \* history: the chain a failed condition has yet to run

bits == <<level, skipped, armed, kept>>
lists == <<effects, timers>>
chain == <<interrupt, saved, nextActive, pending, acted, picked, head, step>>
vars == <<bits, count, front, lists, agenda, chain, promise>>

Rec == DOMAIN level
Of(base) == {r \in Rec : level[r].base = base}
Idle == agenda = <<>>
Top == Head(agenda)
Item(do, at) == [do |-> do, at |-> at, back |-> FALSE]

\* The caller of everything on the agenda will drain the queue: a chain that
\* a trigger runs, and the tick.
Served == \E i \in DOMAIN agenda : agenda[i].do = "process"

Fresh(r) == [rec |-> r, left |-> level[r].len]

\* The numbers in set, in increasing order.
InOrder(set) ==
  [i \in 1..Cardinality(set) |->
     CHOOSE x \in set : Cardinality({y \in set : y <= x}) = i]

\* What the init handlers list at load, each for its records in their order:
\* the effects that are active as authored, while there is room, and the timers
\* (of which a level has at most 0x20, the entries of their queue).
Reruns(l) == {r \in DOMAIN l : l[r].base = "effect" /\ l[r].authored}
AuthoredEffects(l) ==
  LET seq == InOrder(Reruns(l))
      n   == Min({Len(seq), EffectCap})
  IN  [i \in 1..n |-> [rec |-> seq[n + 1 - i], left |-> l[seq[n + 1 - i]].len]]
AuthoredTimers(l) ==
  LET seq == InOrder({r \in DOMAIN l : l[r].base = "timer"})
  IN  [i \in DOMAIN seq |-> [rec |-> seq[i], left |-> l[seq[i]].len + 1]]

Init ==
  /\ level \in Levels
  /\ skipped = {} /\ armed = Reruns(level) /\ kept = armed
  /\ count = [r \in Rec |-> 0] /\ front = <<>>
  /\ effects = AuthoredEffects(level) /\ timers = AuthoredTimers(level)
  /\ agenda = <<>> /\ interrupt = 0 /\ saved = 0 /\ nextActive = 0
  /\ pending = 0 /\ acted = FALSE /\ picked = FALSE /\ head = 0 /\ step = 0
  /\ promise = 0

-----------------------------------------------------------------------------
(* The flow pre-pass: a chain is gated by an armed Delay anywhere in it.    *)

Links(r) == {level[r].next} \cup
            (IF level[r].base = "modify" THEN {level[r].arg} ELSE {})

Reach(i) ==
  LET within[n \in 0..Len(level)] ==
        IF n = 0 THEN {i} \ {0}
        ELSE LET near == within[n-1]
             IN  near \cup (UNION {Links(r) : r \in near} \ {0})
  IN  within[Len(level)]

Blocked(i) == \E r \in Reach(i) \cap Of("delay") :
                 ~level[r].multi /\ r \in armed \cup kept

-----------------------------------------------------------------------------
(* The loop over a chain: "exec" is rawcmd_exec_loop, "inner" the copy that *)
(* base 0x40 runs.  `back` says that the handler of `at` has returned.      *)

Loops == {"exec", "inner"}
NextOf(r) == IF level[r].base = "delay" THEN 0 ELSE level[r].next
Goto(i) == agenda' = <<[Top EXCEPT !.at = i, !.back = FALSE]>> \o Tail(agenda)

At(base) == /\ ~Idle /\ Top.do \in Loops /\ ~Top.back /\ Top.at # 0
            /\ Top.at \notin skipped /\ level[Top.at].base = base

\* What the loop does before the dispatch; the copy does not.
Saved == IF Top.do = "exec" THEN nextActive ELSE saved
Named == IF Top.do = "exec" THEN 0 ELSE nextActive
Shift == saved' = Saved /\ nextActive' = Named

\* A handler that returns at once: what it returned, and the interrupt.
Return(ret, int) ==
  /\ acted' = (acted \/ ret) /\ interrupt' = int
  /\ Goto(IF int # 0 THEN 0 ELSE NextOf(Top.at))

\* A handler that calls: the calls, and then the rest of the loop.
Call(items) == /\ agenda' = items \o <<[Top EXCEPT !.back = TRUE]>> \o Tail(agenda)
               /\ acted' = acted

Retire(r) == skipped' = IF level[r].once THEN skipped \cup {r} ELSE skipped

SkipRecord ==
  /\ ~Idle /\ Top.do \in Loops /\ ~Top.back /\ Top.at \in skipped
  /\ Goto(NextOf(Top.at))
  /\ UNCHANGED <<bits, count, front, lists, chain, promise>>

Resume ==
  /\ ~Idle /\ Top.do \in Loops /\ Top.back
  /\ Goto(IF interrupt # 0 THEN 0 ELSE NextOf(Top.at))
  /\ UNCHANGED <<bits, count, front, lists, chain, promise>>

InnerDone ==
  /\ ~Idle /\ Top.do = "inner" /\ ~Top.back /\ Top.at = 0
  /\ agenda' = Tail(agenda)
  /\ UNCHANGED <<bits, count, front, lists, chain, promise>>

\* Defect: the jump is read from the register of the next record.
FallsBackToNext == interrupt = 2 /\ nextActive # 0

\* A failed condition continues at the chain the jump before it named.
FallsBack == interrupt = 2 /\ saved # 0

ExecDone ==
  /\ ~Idle /\ Top.do = "exec" /\ ~Top.back /\ Top.at = 0
  /\ saved' = 0
  /\ IF FallsBack
     THEN /\ interrupt' = 0 /\ Goto(saved)
          /\ promise' = IF promise = saved THEN 0 ELSE promise
          /\ UNCHANGED <<skipped, picked>>
     ELSE /\ agenda' = Tail(agenda) /\ picked' = FALSE
          /\ IF head # 0 /\ (acted \/ interrupt = 1) /\ ~picked
             THEN Retire(head) ELSE UNCHANGED skipped
          /\ UNCHANGED <<interrupt, promise>>
  /\ UNCHANGED <<level, armed, kept, count, front, lists, nextActive, pending,
                 acted, head, step>>

\* Defect: the queue is emptied as in run_command_chain.
ResetEmptiesQueue ==
  /\ ~Idle /\ Top.do = "reset"
  /\ agenda' = <<Item("exec", Top.at)>> \o Tail(agenda)
  /\ acted' = FALSE /\ interrupt' = 0 /\ head' = 0 /\ nextActive' = 0
  /\ promise' = 0 /\ front' = <<>>
  /\ UNCHANGED <<bits, count, lists, saved, pending, picked, step>>

\* `saved` is not among what a reset resets.
Reset ==
  /\ ~Idle /\ Top.do = "reset"
  /\ agenda' = <<Item("exec", Top.at)>> \o Tail(agenda)
  /\ acted' = FALSE /\ interrupt' = 0 /\ head' = 0 /\ nextActive' = 0
  /\ promise' = 0
  /\ UNCHANGED <<bits, count, front, lists, saved, pending, picked, step>>

-----------------------------------------------------------------------------
(* Messages.  Firing the message of record m evaluates a dialogue record,   *)
(* which may run the chain at arg before it returns to "told".              *)

Message(m) == IF level[m].arg = 0 THEN <<>> ELSE <<Item("reset", level[m].arg)>>
Pending == Message(pending) \o <<Item("told", pending)>>

\* run_command_dbase100_record consumes the record if the dialogue acted.
Told ==
  /\ ~Idle /\ Top.do = "told"
  /\ Retire(Top.at) \/ UNCHANGED skipped
  /\ pending' = 0 /\ agenda' = Tail(agenda)
  /\ UNCHANGED <<level, armed, kept, count, front, lists, interrupt, saved,
                 nextActive, acted, picked, head, step, promise>>

Talk ==
  /\ At("talk") /\ Shift
  /\ Call(Message(Top.at) \o <<Item("talked", Top.at)>>)
  /\ UNCHANGED <<bits, count, front, lists, interrupt, pending, picked, head,
                 step, promise>>

Talked ==
  /\ ~Idle /\ Top.do = "talked"
  /\ \/ Retire(Top.at) /\ pending' = 0 /\ acted' = TRUE
     \/ UNCHANGED <<skipped, pending, acted>>
  /\ agenda' = Tail(agenda)
  /\ UNCHANGED <<level, armed, kept, count, front, lists, interrupt, saved,
                 nextActive, picked, head, step, promise>>

-----------------------------------------------------------------------------
(* Conditions: a jump and a latch arm what a failure does.                  *)

Jump ==
  /\ At("jump") /\ Return(FALSE, interrupt)
  /\ saved' = Saved /\ nextActive' = level[Top.at].arg
  /\ UNCHANGED <<bits, count, front, lists, pending, picked, head, step, promise>>

Latch ==
  /\ At("latch") /\ Return(FALSE, interrupt) /\ Shift
  /\ pending' = Top.at /\ picked' = FALSE
  /\ UNCHANGED <<bits, count, front, lists, head, step, promise>>

\* The condition holds: both consume tails.
Pass ==
  /\ At("if") /\ Shift
  /\ \E ret \in BOOLEAN : Return(ret, interrupt)
  /\ Retire(Top.at) /\ pending' = 0
  /\ UNCHANGED <<level, armed, kept, count, front, lists, picked, head, step,
                 promise>>

\* It fails: the latched message is fired first, then the chain is broken.
Fail ==
  /\ At("if") /\ Shift
  /\ promise' = Saved
  /\ IF pending = 0 THEN Return(FALSE, 2)
     ELSE Call(Pending \o <<Item("failed", Top.at)>>) /\ UNCHANGED interrupt
  /\ UNCHANGED <<bits, count, front, lists, pending, picked, head, step>>

Failed ==
  /\ ~Idle /\ Top.do = "failed"
  /\ interrupt' = 2 /\ agenda' = Tail(agenda)
  /\ UNCHANGED <<bits, count, front, lists, saved, nextActive, pending, acted,
                 picked, head, step, promise>>

\* The query picked an item for the player: the chain waits for the choice.
Wait ==
  /\ At("if") /\ Shift
  /\ Return(FALSE, 1) /\ picked' = TRUE
  /\ UNCHANGED <<bits, count, front, lists, pending, head, step, promise>>

Give ==
  /\ At("give") /\ Shift
  /\ \/ Return(TRUE, interrupt) /\ UNCHANGED promise
     \/ Return(FALSE, 2) /\ promise' = Saved
  /\ UNCHANGED <<bits, count, front, lists, pending, picked, head, step>>

-----------------------------------------------------------------------------
(* Records that act on the map, on other records, or run a chain inline.    *)

Act ==
  /\ At("act") /\ Shift /\ Return(TRUE, interrupt) /\ Retire(Top.at)
  /\ UNCHANGED <<level, armed, kept, count, front, lists, pending, picked,
                 head, step, promise>>

\* Bit 0x08 of the target is flipped, set or cleared.  (Of a target of base
\* 0x06 or 0x2c it is bit 0x02, which is not followed.)
Switched(r) ==
  LET target == {level[r].arg} IN
  CASE level[r].len = 0 -> SymDiff(skipped, target)
    [] level[r].len > 0 -> skipped \cup target
    [] OTHER            -> skipped \ target

Toggle ==
  /\ At("toggle") /\ Shift /\ Return(level[Top.at].arg # 0, interrupt)
  /\ LET r == Top.at IN
     skipped' = IF level[r].arg = 0 THEN skipped
                ELSE Switched(r) \cup (IF level[r].once THEN {r} ELSE {})
  /\ UNCHANGED <<level, armed, kept, count, front, lists, pending, picked,
                 head, step, promise>>

Indexed ==
  /\ At("indexed") /\ Shift
  /\ Call(<<Item("inner", level[Top.at].arg)>>)
  /\ UNCHANGED <<bits, count, front, lists, interrupt, pending, picked, head,
                 step, promise>>

\* Defect: only bit 0x01 is tested.
GuardedAsAuthored(r) == r \in kept

\* Delays and effects: armed records are left alone, a multiple Delay never
\* arms, and an exhausted pool refuses.  A light whose effect is listed is
\* refreshed instead, which is to act.
Guarded(r) == ~(level[r].base = "delay" /\ level[r].multi) /\ r \in armed \cup kept

Register ==
  /\ At("delay") \/ At("effect")
  /\ Shift
  /\ LET r == Top.at
         ok == ~Guarded(r) /\ Len(effects) < EffectCap
         lit == level[r].base = "effect" /\ \E k \in DOMAIN effects : effects[k].rec = r
     IN  /\ \E refreshed \in {FALSE, lit} : Return(ok \/ refreshed, interrupt)
         /\ effects' = IF ok THEN <<Fresh(r)>> \o effects ELSE effects
         /\ armed' = IF ok /\ ~level[r].multi THEN armed \cup {r} ELSE armed
  /\ UNCHANGED <<level, skipped, kept, count, front, timers, pending, picked,
                 head, step, promise>>

-----------------------------------------------------------------------------
(* Counts.  A Count breaks its chain until it reaches its goal.  Modify     *)
(* Count steps another record's Count and queues what follows it.           *)

Goal(t) == level[t].len
Over(t) == count[t] >= Goal(t) /\ ~level[t].multi
Stepped(t, by) ==
  LET seed == IF count[t] >= Goal(t) THEN 0 ELSE count[t]
      next == IF by = 0 THEN seed + 1 ELSE seed + by
  IN  IF next < 0 THEN next + Goal(t) ELSE next
Reaches(t, by) == ~Over(t) /\ Stepped(t, by) = Goal(t)
StepCount(t, by) ==
  count' = IF Over(t) THEN count ELSE [count EXCEPT ![t] = Stepped(t, by)]

CountStep ==
  /\ At("count") /\ Shift /\ StepCount(Top.at, step)
  /\ \/ /\ Reaches(Top.at, step)
        /\ Return(TRUE, 0) /\ pending' = 0 /\ step' = 0
     \/ /\ ~Reaches(Top.at, step) /\ pending = 0
        /\ Return(FALSE, 1) /\ step' = 0 /\ UNCHANGED pending
     \/ /\ ~Reaches(Top.at, step) /\ pending # 0
        /\ interrupt' = 1 /\ Call(Pending \o <<Item("counted", Top.at)>>)
        /\ UNCHANGED <<pending, step>>
  /\ UNCHANGED <<bits, front, lists, picked, head, promise>>

Counted ==
  /\ ~Idle /\ Top.do = "counted"
  /\ step' = 0 /\ agenda' = Tail(agenda)
  /\ UNCHANGED <<bits, count, front, lists, interrupt, saved, nextActive,
                 pending, acted, picked, head, promise>>

\* Defect: the last entry is not used.
RoomShort == Len(front) + 1 < QueueCap

Room == Len(front) < QueueCap
Push(i, served) == front' = Append(front, [at |-> i, served |-> served])

\* Defect: the interrupt is not looked at.
FollowUpAlways(t, counting) ==
  IF Room THEN Push(level[t].next, Served) ELSE UNCHANGED front

\* The target has returned: unless it is still counting, queue what follows.
FollowUp(t, counting) ==
  IF ~counting /\ Room THEN Push(level[t].next, Served) ELSE UNCHANGED front
Modifies(counting) == counting \/ Room

Modify ==
  /\ At("modify") /\ Shift
  /\ LET t == level[Top.at].arg
         by == level[Top.at].len
     IN \/ /\ t = 0 \/ t \notin Of("count")
           /\ step' = (IF t = 0 THEN by ELSE 0) /\ Return(FALSE, 0)
           /\ UNCHANGED <<count, front, pending>>
        \/ /\ t \in Of("count") /\ Reaches(t, by)
           /\ StepCount(t, by) /\ FollowUp(t, FALSE)
           /\ Return(Modifies(FALSE), 0) /\ pending' = 0 /\ step' = 0
        \/ /\ t \in Of("count") /\ ~Reaches(t, by) /\ pending = 0
           /\ StepCount(t, by) /\ Return(TRUE, 0) /\ step' = 0
           /\ UNCHANGED <<front, pending>>
        \/ /\ t \in Of("count") /\ ~Reaches(t, by) /\ pending # 0
           /\ StepCount(t, by) /\ interrupt' = 1 /\ step' = by
           /\ Call(Pending \o <<Item("modified", t)>>)
           /\ UNCHANGED <<front, pending>>
  /\ UNCHANGED <<bits, lists, picked, head, promise>>

\* The message may have run a chain, which resets the interrupt.
Modified ==
  /\ ~Idle /\ Top.do = "modified"
  /\ FollowUp(Top.at, interrupt # 0)
  /\ acted' = (acted \/ Modifies(interrupt # 0))
  /\ interrupt' = 0 /\ step' = 0 /\ agenda' = Tail(agenda)
  /\ UNCHANGED <<bits, count, lists, saved, nextActive, pending, picked, head,
                 promise>>

-----------------------------------------------------------------------------
(* The deferred queue.                                                      *)

\* process_deferred_command_queue: the buffers are swapped, so that what the
\* drained chains push waits in the new front.
Process ==
  /\ ~Idle /\ Top.do = "process"
  /\ agenda' = [i \in DOMAIN front |-> Item("drain", front[i].at)] \o Tail(agenda)
  /\ front' = <<>> /\ head' = 0
  /\ UNCHANGED <<bits, count, lists, interrupt, saved, nextActive, pending,
                 acted, picked, step, promise>>

Drain ==
  /\ ~Idle /\ Top.do = "drain"
  /\ saved' = 0
  /\ agenda' = <<Item("reset", Top.at)>> \o Tail(agenda)
  /\ UNCHANGED <<bits, count, front, lists, interrupt, nextActive, pending,
                 acted, picked, head, step, promise>>

\* The end of a trigger: register_command_save_link, fire_sector_trigger.
Finish ==
  /\ ~Idle /\ Top.do = "finish"
  /\ IF acted THEN Retire(Top.at) ELSE UNCHANGED skipped
  /\ agenda' = Tail(agenda)
  /\ UNCHANGED <<level, armed, kept, count, front, lists, chain, promise>>

Fires(h) == <<Item("reset", level[h].next), Item("process", 0), Item("finish", h)>>
Live(h) == h \notin skipped \cup armed \cup kept

-----------------------------------------------------------------------------
(* Triggers.                                                                *)

Contact ==
  \E h \in Of("contact") :
    /\ Idle /\ Live(h)
    /\ pending' = 0
    /\ agenda' = IF Blocked(level[h].next) THEN <<>> ELSE Fires(h)
    /\ UNCHANGED <<bits, count, front, lists, interrupt, saved, nextActive,
                   acted, picked, head, step, promise>>

\* run_leftclick_object_trigger and run_command_chain: nextActive is not
\* reset, and the queue is emptied first.
Click ==
  \E h \in Of("click") :
    /\ Idle /\ h \notin skipped
    /\ pending' = 0 /\ acted' = FALSE /\ interrupt' = 0
    /\ IF Blocked(level[h].next)
       THEN UNCHANGED <<front, agenda, head>>
       ELSE /\ front' = <<>> /\ head' = h
            /\ agenda' = <<Item("exec", level[h].next), Item("process", 0)>>
    /\ UNCHANGED <<bits, count, lists, saved, nextActive, picked, step, promise>>

\* The renderer's texture hooks and run_object_commands_by_id only run.
Hook ==
  \E h \in Of("hook") :
    /\ Idle /\ h \notin skipped
    /\ agenda' = <<Item("reset", level[h].next)>>
    /\ UNCHANGED <<bits, count, front, lists, chain, promise>>

-----------------------------------------------------------------------------
(* The tick: tick_world_effects, once a frame.                              *)

\* Step 3 may fire the trigger of the player's sector.
Tick ==
  /\ Idle
  /\ \/ agenda' = <<Item("world", 0)>>
     \/ \E h \in Of("sector") :
          /\ Live(h) /\ ~Blocked(level[h].next)
          /\ agenda' = Append(Fires(h), Item("world", 0))
  /\ UNCHANGED <<bits, count, front, lists, chain, promise>>

World ==
  /\ ~Idle /\ Top.do = "world"
  /\ front' = <<>>
  /\ agenda' =
       (IF effects # <<>> THEN <<Item("walk", 1)>> ELSE <<>>) \o
       (IF timers # <<>> THEN <<Item("timers", 1)>> ELSE <<>>) \o
       (IF effects # <<>> \/ timers # <<>> THEN <<Item("process", 0)>> ELSE <<>>)
  /\ UNCHANGED <<bits, count, lists, chain, promise>>

Walking(k) == ~Idle /\ Top.do = "walk" /\ Top.at = k
Walked == Walking(Len(effects) + 1)

WalkOn == agenda' = <<[Top EXCEPT !.at = @ + 1]>> \o Tail(agenda)

\* An effect that ends is unlinked and its record may be armed again.
Ends(k) ==
  LET r == effects[k].rec IN
  /\ effects' = SubSeq(effects, 1, k - 1) \o SubSeq(effects, k + 1, Len(effects))
  /\ IF level[r].base = "delay" /\ level[r].multi
     THEN UNCHANGED <<armed, kept>>
     ELSE armed' = armed \ {r} /\ kept' = kept \ {r}
  /\ UNCHANGED agenda

WalkEnd ==
  /\ Walked /\ agenda' = Tail(agenda)
  /\ UNCHANGED <<bits, count, front, lists, chain, promise>>

\* tick_delay_timer: an expired Delay queues what follows it, or waits for
\* room in the queue.
WalkDelay ==
  \E k \in DOMAIN effects :
    LET e == effects[k] IN
    /\ Walking(k) /\ level[e.rec].base = "delay"
    /\ \/ /\ e.left > 1 /\ WalkOn
          /\ effects' = [effects EXCEPT ![k].left = @ - 1]
          /\ UNCHANGED <<armed, kept, front>>
       \/ /\ e.left <= 1 /\ Room
          /\ Push(level[e.rec].next, Served) /\ Ends(k)
       \/ /\ e.left <= 1 /\ ~Room /\ WalkOn
          /\ UNCHANGED <<effects, armed, kept, front>>
    /\ UNCHANGED <<level, skipped, count, timers, chain, promise>>

\* Any other effect goes on or ends; a texture that has arrived may retire
\* its record.
WalkEffect ==
  \E k \in DOMAIN effects :
    LET r == effects[k].rec IN
    /\ Walking(k) /\ level[r].base = "effect"
    /\ \/ WalkOn /\ UNCHANGED <<effects, armed, kept, skipped>>
       \/ Ends(k) /\ Retire(r)
    /\ UNCHANGED <<level, count, front, timers, chain, promise>>

\* tick_command_timer_queue and fire_queued_command.
Timing(k) == ~Idle /\ Top.do = "timers" /\ Top.at = k

TimerStep ==
  \E k \in DOMAIN timers :
    LET r == timers[k].rec
        due == timers[k].left = 0
    IN
    /\ Timing(k) /\ WalkOn
    /\ \/ /\ r \in skipped /\ UNCHANGED <<timers, front>>
       \/ /\ r \notin skipped /\ ~due
          /\ timers' = [timers EXCEPT ![k].left = @ - 1] /\ UNCHANGED front
       \/ /\ r \notin skipped /\ due /\ (Blocked(level[r].next) \/ ~Room)
          /\ timers' = [timers EXCEPT ![k].left = TimerRetry] /\ UNCHANGED front
       \/ /\ r \notin skipped /\ due /\ ~Blocked(level[r].next) /\ Room
          /\ timers' = [timers EXCEPT ![k].left = level[r].len + 1]
          /\ Push(level[r].next, Served)
    /\ UNCHANGED <<bits, count, effects, chain, promise>>

TimersEnd ==
  /\ Timing(Len(timers) + 1) /\ agenda' = Tail(agenda)
  /\ UNCHANGED <<bits, count, front, lists, chain, promise>>

-----------------------------------------------------------------------------
Loop == SkipRecord \/ Resume \/ InnerDone \/ ExecDone \/ Reset
Handler == \/ Told \/ Talk \/ Talked \/ Jump \/ Latch \/ Pass \/ Fail \/ Failed
           \/ Wait \/ Give \/ Act \/ Toggle \/ Indexed \/ Register
           \/ CountStep \/ Counted \/ Modify \/ Modified
Queue == Process \/ Drain \/ Finish
Walk == World \/ WalkEnd \/ WalkDelay \/ WalkEffect \/ TimerStep \/ TimersEnd
Running == Loop \/ Handler \/ Queue \/ Walk
Trigger == Contact \/ Click \/ Hook
=============================================================================
