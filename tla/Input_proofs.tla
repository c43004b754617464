---------------------------- MODULE Input_proofs ----------------------------
(***************************************************************************)
(* Proofs about the two paths of the input, Keyboard and Mouse.            *)
(*                                                                         *)
(* The keyboard: events are applied in the order they were typed, the      *)
(* drained bitmap is that of the last events, and the input ring conserves *)
(* the codes it accepted.  The mouse: motion is exact up to whole turns of *)
(* the register as long as no store overwrites the other side's, and every *)
(* click comes from a press or a toggle of the swap.                       *)
(***************************************************************************)
EXTENDS Keyboard, Mouse, SequenceTheorems, FiniteSetTheorems, TLAPS

\* What a byte of the path can be.
Byte == Codes \cup {"e0"}
Ev == [code : Byte, make : BOOLEAN]

-----------------------------------------------------------------------------
(* Arithmetic of the two rings.                                             *)

(* An index a lap at most past the end of a ring wraps by one subtraction.  *)
LEMMA Wraps ==
  ASSUME NEW N \in Nat \ {0}, NEW x \in 0..2 * N - 1
  PROVE  x % N = IF x < N THEN x ELSE x - N
<1>1. N \in Int /\ N > 0 /\ x \in Int
  OBVIOUS
<1>2. x = N * (x \div N) + (x % N) /\ x \div N \in Int /\ x % N \in 0..N - 1
  BY <1>1
<1> DEFINE q == x \div N
<1>3. q \in Int /\ x = N * q + (x % N)
  BY <1>2
<1> HIDE DEF q
<1>4. q >= 2 => N * q >= 2 * N
  BY <1>1, <1>3
<1>5. q <= -1 => N * q <= -N
  BY <1>1, <1>3
<1>6. q \in {0, 1}
  BY <1>1, <1>2, <1>3, <1>4, <1>5
<1>7. N * 0 = 0 /\ N * 1 = N
  BY <1>1
<1> QED
  BY <1>1, <1>2, <1>3, <1>6, <1>7

(* Two different indices less than a lap apart are different slots.         *)
LEMMA SlotsDiffer ==
  ASSUME NEW N \in Nat \ {0}, NEW a \in Nat, NEW b \in Nat, a < b, b - a < N
  PROVE  a % N # b % N
<1>1. N \in Int /\ N > 0
  OBVIOUS
<1>2. /\ a = N * (a \div N) + (a % N) /\ a \div N \in Int /\ a % N \in 0..N - 1
      /\ b = N * (b \div N) + (b % N) /\ b \div N \in Int /\ b % N \in 0..N - 1
  BY <1>1
<1> DEFINE d == (b \div N) - (a \div N)
<1>3. ASSUME a % N = b % N PROVE d \in Int /\ b - a = N * d
  BY <1>1, <1>2, <1>3
<1> HIDE DEF d
<1>4. ASSUME a % N = b % N PROVE FALSE
  <2>1. d \in Int /\ b - a = N * d
    BY <1>3, <1>4
  <2>2. d >= 1 => N * d >= N
    BY <1>1, <2>1
  <2>3. d <= 0 => N * d <= 0
    BY <1>1, <2>1
  <2> QED
    BY <1>1, <2>1, <2>2, <2>3
<1> QED
  BY <1>4

(* The remainder names a slot.                                              *)
LEMMA SlotOfIndex ==
  ASSUME NEW N \in Nat \ {0}, NEW x \in Int
  PROVE  x % N \in 0..N - 1
OBVIOUS

-----------------------------------------------------------------------------
(* Sequences, by their elements.                                            *)

(* Appending puts the element last.                                         *)
LEMMA AppendElements ==
  ASSUME NEW S, NEW s \in Seq(S), NEW e \in S
  PROVE  /\ Append(s, e) \in Seq(S) /\ Len(Append(s, e)) = Len(s) + 1
         /\ \A i \in 1..Len(s) : Append(s, e)[i] = s[i]
         /\ Append(s, e)[Len(s) + 1] = e
OBVIOUS

-----------------------------------------------------------------------------
(* What the path holds.                                                     *)

\* The events wherever they are, and the codes in the input ring.
KeyTypes ==
  /\ out \in Seq(Ev) /\ written \in BOOLEAN /\ (written => out # <<>>)
  /\ (out # <<>> => Codes # {})
  /\ slot \in [0..ShmCap - 1 -> Ev] /\ sent \in Seq(Ev)
  /\ queue \in Seq(Ev) /\ applied \in Seq(Ev)
  /\ khead \in Nat /\ ktail \in Nat /\ ktail <= khead /\ khead = Len(sent)

RingTypes ==
  /\ buf \in [0..RingSlots - 1 -> Byte]
  /\ rhead \in 0..RingSlots - 1 /\ rtail \in 0..RingSlots - 1
  /\ queued \in Seq(Byte) /\ served \in Seq(Byte)

\* An event is applied, or swallowed by a plugin.
Takes(e) ==
  \/ Apply(e) /\ UNCHANGED spoiled
  \/ /\ applied' = Append(applied, e) /\ spoiled' = spoiled \cup {e.code}
     /\ UNCHANGED <<held, buf, rhead, queued>>

\* Either reader of the 8042 queue.
Pop ==
  /\ queue # <<>> /\ queue' = Tail(queue) /\ Takes(Head(queue))
  /\ UNCHANGED <<window, consumer, ktail>>

\* Steps that move no event.
Quiet == UNCHANGED <<window, engine, consumer, ktail, queue, spoiled>>

(* Every step moves at most one event, in one of eight ways.                *)
LEMMA KindsOfStep ==
  ASSUME [Next]_vars
  PROVE  \/ SendKey \/ PushStore \/ PushBump \/ Pop \/ TickApply \/ TickEnqueue
         \/ DequeueRead \/ DequeueAdvance \/ Quiet
<1>1. CASE TickReclaim
  BY <1>1 DEF TickReclaim, ApplyFiltered, Pop, Takes
<1>2. CASE KeyboardIsr
  <2>1. CASE queue = <<>>
    BY <1>2, <2>1 DEF KeyboardIsr, Quiet
  <2>2. CASE queue # <<>>
    BY <1>2, <2>2 DEF KeyboardIsr, Pop, Takes
  <2> QED
    BY <2>1, <2>2
<1>3. CASE TickBegin \/ TickReclaimed \/ TickDrained \/ TickIrq \/ TimerIsr \/ Dispatch
  BY <1>3 DEF TickBegin, TickReclaimed, TickDrained, TickIrq, TimerIsr, Dispatch, Quiet
<1>4. CASE ToggleCapture \/ UNCHANGED vars
  BY <1>4 DEF ToggleCapture, vars, Quiet
<1> QED
  BY <1>1, <1>2, <1>3, <1>4 DEF Next, WindowStep, TickStep, GameStep

(* What is in the slot the tick reads next is an event.                     *)
LEMMA RingByteIsAnEvent ==
  ASSUME KeyTypes
  PROVE  RingByte \in Ev
<1>1. ShmCap \in Nat \ {0} /\ ktail \in Int
  BY KeyboardAssumption DEF KeyTypes
<1>2. ktail % ShmCap \in 0..ShmCap - 1
  BY <1>1, SlotOfIndex
<1> QED
  BY <1>2 DEF KeyTypes, RingByte

(* The bytes of a key are events.                                           *)
LEMMA BytesAreEvents ==
  ASSUME NEW k \in Keys, NEW make \in BOOLEAN
  PROVE  Bytes(k, make) \in Seq(Ev) /\ Codes # {}
<1>1. CodeOf[k] \in Codes
  BY DEF Codes
<1>2. Event(CodeOf[k], make) \in Ev /\ Prefix \in Ev
  BY <1>1 DEF Event, Prefix, Ev, Byte
<1> HIDE DEF Ev
<1>3. <<Prefix, Event(CodeOf[k], make)>> \in Seq(Ev) /\ <<Event(CodeOf[k], make)>> \in Seq(Ev)
  BY <1>2
<1> QED
  BY <1>1, <1>3 DEF Bytes

(* Every step keeps the types of what the path holds.                       *)
LEMMA StepsKeepKeyTypes ==
  ASSUME KeyTypes, [Next]_vars
  PROVE  KeyTypes'
<1> USE DEF KeyTypes
<1>0. ShmCap \in Nat \ {0}
  BY KeyboardAssumption
<1>1. CASE SendKey
  <2>1. PICK k \in Keys : out' = Bytes(k, k \notin down)
    BY <1>1 DEF SendKey
  <2>2. UNCHANGED <<slot, written, khead, sent, queue, applied, ktail>> /\ out = <<>>
    BY <1>1 DEF SendKey, engine
  <2>3. out' \in Seq(Ev) /\ Codes # {}
    BY <2>1, BytesAreEvents
  <2> QED
    BY <2>2, <2>3
<1>2. CASE PushStore
  <2>1. /\ out # <<>> /\ written' = TRUE /\ slot' = [slot EXCEPT ![khead % ShmCap] = Head(out)]
        /\ UNCHANGED <<out, khead, sent, queue, applied, ktail>>
    BY <1>2 DEF PushStore, engine
  <2>2. Head(out) \in Ev
    BY <2>1, HeadTailProperties
  <2>3. slot' \in [0..ShmCap - 1 -> Ev]
    BY <2>1, <2>2
  <2> QED
    BY <2>1, <2>3
<1>3. CASE PushBump
  <2>1. /\ out # <<>> /\ written' = FALSE /\ khead' = khead + 1 /\ sent' = Append(sent, Head(out))
        /\ out' = Tail(out) /\ UNCHANGED <<slot, queue, applied, ktail>>
    BY <1>3 DEF PushBump, engine
  <2>2. Head(out) \in Ev /\ out' \in Seq(Ev)
    BY <2>1, HeadTailProperties
  <2>3. sent' \in Seq(Ev) /\ Len(sent') = Len(sent) + 1
    BY <2>1, <2>2, AppendElements
  <2>4. khead' \in Nat /\ ktail' \in Nat /\ ktail' <= khead' /\ khead' = Len(sent')
    BY <2>1, <2>3
  <2>5. Codes # {} /\ slot' \in [0..ShmCap - 1 -> Ev]
    BY <2>1
  <2>6. queue' \in Seq(Ev) /\ applied' \in Seq(Ev) /\ written' = FALSE
    BY <2>1
  <2> HIDE DEF Ev
  <2> QED
    BY <2>2, <2>3, <2>4, <2>5, <2>6
<1>4. CASE Pop
  <2>1. /\ queue # <<>> /\ queue' = Tail(queue) /\ applied' = Append(applied, Head(queue))
        /\ UNCHANGED <<out, written, slot, sent, khead, ktail>>
    BY <1>4 DEF Pop, Takes, Apply, window
  <2>2. Head(queue) \in Ev /\ queue' \in Seq(Ev)
    BY <2>1, HeadTailProperties
  <2>3. applied' \in Seq(Ev)
    BY <2>1, <2>2, AppendElements
  <2> QED
    BY <2>1, <2>2, <2>3
<1>5. CASE TickApply
  <2>1. /\ ktail # khead /\ ktail' = ktail + 1 /\ applied' = Append(applied, RingByte)
        /\ UNCHANGED <<out, written, slot, sent, khead, queue>>
    BY <1>5 DEF TickApply, ApplyFiltered, Apply, window
  <2>2. applied' \in Seq(Ev)
    BY <2>1, RingByteIsAnEvent, AppendElements
  <2> QED
    BY <2>1, <2>2
<1>6. CASE TickEnqueue
  <2>1. /\ ktail # khead /\ ktail' = ktail + 1
        /\ queue' = IF Len(queue) < QueueCap THEN Append(queue, RingByte) ELSE queue
        /\ UNCHANGED <<out, written, slot, sent, khead, applied>>
    BY <1>6 DEF TickEnqueue, window, engine
  <2>2. queue' \in Seq(Ev)
    BY <2>1, RingByteIsAnEvent, AppendElements
  <2> QED
    BY <2>1, <2>2
<1>7. CASE DequeueRead \/ DequeueAdvance \/ Quiet
  BY <1>7 DEF DequeueRead, DequeueAdvance, Quiet, window, engine
<1> QED
  BY <1>1, <1>2, <1>3, <1>4, <1>5, <1>6, <1>7, KindsOfStep

(* The path starts empty.                                                   *)
LEMMA InitialKeyTypes ==
  ASSUME Init
  PROVE  KeyTypes
<1>1. ShmCap \in Nat \ {0}
  BY KeyboardAssumption
<1>2. Prefix \in Ev
  BY DEF Prefix, Event, Ev, Byte
<1>3. slot \in [0..ShmCap - 1 -> Ev]
  BY <1>2 DEF Init
<1>4. <<>> \in Seq(Ev) /\ Len(<<>>) = 0
  BY EmptySeq
<1>5. /\ out = <<>> /\ written = FALSE /\ khead = 0 /\ ktail = 0 /\ queue = <<>>
      /\ sent = <<>> /\ applied = <<>>
  BY DEF Init
<1>6. out \in Seq(Ev) /\ sent \in Seq(Ev) /\ queue \in Seq(Ev) /\ applied \in Seq(Ev)
  BY <1>4, <1>5, Zenon
<1>7. Len(sent) = 0
  BY <1>4, <1>5, Zenon
<1>8. khead \in Nat /\ ktail \in Nat /\ ktail <= khead /\ khead = Len(sent)
  BY <1>5, <1>7
<1>9. written \in BOOLEAN /\ ~written /\ out = <<>>
  BY <1>5
<1> QED
  BY <1>3, <1>6, <1>8, <1>9, Zenon DEF KeyTypes


-----------------------------------------------------------------------------
(* The shared ring.                                                         *)

\* Something of every code was lost: the window wrote over what was unread.
Lapped == Codes # {} /\ Codes \subseteq spoiled

\* The unread slots are the last bytes pushed, and one more may be stored.
ShmHolds ==
  /\ khead - ktail <= ShmCap
  /\ written => khead - ktail < ShmCap /\ slot[khead % ShmCap] = Head(out)
  /\ \A i \in ktail..khead - 1 : slot[i % ShmCap] = sent[i + 1]

ShmInv == Lapped \/ ShmHolds

(* No step forgets that an event of a code was lost.                        *)
LEMMA SpoiledCodesStay ==
  ASSUME [Next]_vars
  PROVE  spoiled \cap Codes \subseteq spoiled'
<1>1. CASE SendKey \/ PushStore \/ PushBump
  BY <1>1 DEF SendKey, PushStore, PushBump
<1>2. CASE Pop
  BY <1>2 DEF Pop, Takes
<1>3. CASE TickApply
  BY <1>3 DEF TickApply, ApplyFiltered
<1>4. CASE TickEnqueue \/ DequeueRead \/ DequeueAdvance \/ Quiet
  BY <1>4 DEF TickEnqueue, DequeueRead, DequeueAdvance, Quiet
<1> QED
  BY <1>1, <1>2, <1>3, <1>4, KindsOfStep

(* An unread byte is the next of those pushed.                              *)
LEMMA RingByteIsNext ==
  ASSUME KeyTypes, ShmHolds, ktail # khead
  PROVE  RingByte = sent[ktail + 1]
<1>1. ktail \in ktail..khead - 1
  BY DEF KeyTypes
<1> QED
  BY <1>1 DEF ShmHolds, RingByte

(* Pushing and draining keep the unread slots.                              *)
LEMMA StepsKeepShm ==
  ASSUME KeyTypes, ShmInv, [Next]_vars
  PROVE  ShmInv'
<1>0. /\ ShmCap \in Nat \ {0} /\ khead \in Nat /\ ktail \in Nat /\ ktail <= khead
      /\ khead = Len(sent) /\ slot \in [0..ShmCap - 1 -> Ev]
  BY KeyboardAssumption DEF KeyTypes
<1>1. CASE Lapped
  BY <1>1, SpoiledCodesStay DEF ShmInv, Lapped
<1>2. CASE ShmHolds /\ SendKey
  BY <1>2 DEF SendKey, ShmInv, ShmHolds, KeyTypes
<1>3. CASE ShmHolds /\ PushStore
  <2>1. CASE khead - ktail >= ShmCap
    <3>1. Codes # {} /\ spoiled' = Codes
      BY <1>3, <2>1 DEF PushStore, KeyTypes
    <3> QED
      BY <3>1 DEF ShmInv, Lapped
  <2>2. CASE khead - ktail < ShmCap
    <3>1. /\ slot' = [slot EXCEPT ![khead % ShmCap] = Head(out)]
          /\ UNCHANGED <<out, khead, ktail, sent>>
      BY <1>3 DEF PushStore
    <3>2. khead % ShmCap \in 0..ShmCap - 1
      BY <1>0, SlotOfIndex
    <3>3. slot'[khead % ShmCap] = Head(out)
      BY <1>0, <3>1, <3>2
    <3>4. ASSUME NEW i \in ktail..khead - 1 PROVE slot'[i % ShmCap] = sent[i + 1]
      <4>1. i \in Nat /\ i < khead /\ khead - i < ShmCap
        BY <1>0, <2>2
      <4>2. i % ShmCap # khead % ShmCap
        BY <1>0, <4>1, SlotsDiffer
      <4>3. i % ShmCap \in 0..ShmCap - 1
        BY <1>0, <4>1, SlotOfIndex
      <4>4. slot[i % ShmCap] = sent[i + 1]
        BY <1>3 DEF ShmHolds
      <4> QED
        BY <1>0, <3>1, <4>2, <4>3, <4>4
    <3>5. khead' = khead /\ ktail' = ktail /\ out' = out /\ sent' = sent
      BY <3>1
    <3>6. \A i \in ktail'..khead' - 1 : slot'[i % ShmCap] = sent'[i + 1]
      BY <3>4, <3>5
    <3>7. khead' - ktail' < ShmCap /\ khead' - ktail' <= ShmCap
      BY <1>0, <2>2, <3>5
    <3>8. slot'[khead' % ShmCap] = Head(out')
      BY <3>3, <3>5
    <3> QED
      BY <3>6, <3>7, <3>8 DEF ShmInv, ShmHolds
  <2> QED
    BY <1>0, <2>1, <2>2
<1>4. CASE ShmHolds /\ PushBump
  <2>1. /\ khead' = khead + 1 /\ sent' = Append(sent, Head(out)) /\ written' = FALSE
        /\ UNCHANGED <<slot, ktail>> /\ out # <<>>
    BY <1>4 DEF PushBump, KeyTypes
  <2>2. Head(out) \in Ev /\ sent \in Seq(Ev)
    BY <2>1, HeadTailProperties DEF KeyTypes
  <2>3. khead - ktail < ShmCap /\ slot[khead % ShmCap] = Head(out)
    BY <1>4 DEF ShmHolds, PushBump
  <2>4. ASSUME NEW i \in ktail..khead PROVE slot[i % ShmCap] = sent'[i + 1]
    <3>1. CASE i = khead
      <4>1. sent'[Len(sent) + 1] = Head(out)
        BY <2>1, <2>2, AppendElements
      <4> QED
        BY <1>0, <2>3, <3>1, <4>1
    <3>2. CASE i # khead
      <4>1. i \in ktail..khead - 1 /\ i + 1 \in 1..Len(sent)
        BY <1>0, <3>2
      <4>2. sent'[i + 1] = sent[i + 1]
        BY <2>1, <2>2, <4>1, AppendElements
      <4>3. slot[i % ShmCap] = sent[i + 1]
        BY <1>4, <4>1 DEF ShmHolds
      <4> QED
        BY <4>2, <4>3
    <3> QED
      BY <3>1, <3>2
  <2>5. khead' - 1 = khead /\ khead' - ktail' <= ShmCap
    BY <1>0, <2>1, <2>3
  <2>6. \A i \in ktail'..khead' - 1 : slot'[i % ShmCap] = sent'[i + 1]
    BY <2>1, <2>4, <2>5
  <2> QED
    BY <2>1, <2>5, <2>6 DEF ShmInv, ShmHolds
<1>5. CASE ShmHolds /\ (TickApply \/ TickEnqueue)
  <2>1. ktail' = ktail + 1 /\ UNCHANGED <<khead, slot, sent, written, out>> /\ ktail # khead
    BY <1>5 DEF TickApply, TickEnqueue, window
  <2>2. khead - ktail <= ShmCap
    BY <1>5 DEF ShmHolds
  <2>3. khead' - ktail' < ShmCap
    BY <1>0, <2>1, <2>2
  <2>4. written' => slot'[khead' % ShmCap] = Head(out')
    BY <1>5, <2>1 DEF ShmHolds
  <2>5. ktail'..khead' - 1 \subseteq ktail..khead - 1
    BY <1>0, <2>1
  <2>6. \A i \in ktail'..khead' - 1 : slot'[i % ShmCap] = sent'[i + 1]
    BY <1>5, <2>1, <2>5 DEF ShmHolds
  <2>7. khead' - ktail' <= ShmCap
    BY <1>0, <2>1, <2>2
  <2> QED
    BY <2>3, <2>4, <2>6, <2>7 DEF ShmInv, ShmHolds
<1>6. CASE ShmHolds /\ (Pop \/ DequeueRead \/ DequeueAdvance \/ Quiet)
  <2>1. UNCHANGED <<khead, ktail, slot, sent, written, out>>
    BY <1>6 DEF Pop, DequeueRead, DequeueAdvance, Quiet, window
  <2> QED
    BY <1>6, <2>1 DEF ShmInv, ShmHolds
<1> QED
  BY <1>1, <1>2, <1>3, <1>4, <1>5, <1>6, KindsOfStep DEF ShmInv

(* A tick that drains into the engine has emptied the 8042 queue, and only  *)
(* another tick could fill it.                                              *)
Drains == tick = "drain" /\ mode = "interactive" => queue = <<>>

(* TickBegin sends an interactive tick to the queue first.                  *)
LEMMA StepsKeepDrains ==
  ASSUME Drains, [Next]_vars
  PROVE  Drains'
<1>1. CASE SendKey \/ PushStore \/ PushBump
  BY <1>1 DEF Drains, SendKey, PushStore, PushBump
<1>2. CASE TickBegin \/ TickReclaim \/ TickReclaimed
  BY <1>2 DEF Drains, TickBegin, TickReclaim, TickReclaimed
<1>3. CASE TickApply \/ TickEnqueue \/ TickDrained \/ TickIrq
  BY <1>3 DEF Drains, TickApply, TickEnqueue, TickDrained, TickIrq
<1>4. CASE GameStep \/ UNCHANGED vars
  BY <1>4 DEF Drains, GameStep, KeyboardIsr, TimerIsr, Dispatch, DequeueRead, DequeueAdvance,
              ToggleCapture, vars
<1> QED
  BY <1>1, <1>2, <1>3, <1>4 DEF Next, WindowStep, TickStep

-----------------------------------------------------------------------------
(* Order.                                                                   *)

\* What was applied and what waits in the 8042 queue are the bytes taken.
OrderInv ==
  spoiled = {} =>
    /\ ktail = Len(applied) + Len(queue)
    /\ \A i \in 1..Len(applied) : applied[i] = sent[i]
    /\ \A i \in 1..Len(queue) : queue[i] = sent[Len(applied) + i]

(* No step takes a byte out of turn.                                        *)
LEMMA StepsKeepOrder ==
  ASSUME KeyTypes, ShmInv, Drains, OrderInv, [Next]_vars
  PROVE  OrderInv'
<1>0. /\ khead \in Nat /\ ktail \in Nat /\ ktail <= khead /\ khead = Len(sent)
      /\ Len(applied) \in Nat /\ Len(queue) \in Nat
      /\ sent \in Seq(Ev) /\ applied \in Seq(Ev) /\ queue \in Seq(Ev)
  BY LenProperties DEF KeyTypes
<1> SUFFICES ASSUME spoiled' = {}
             PROVE  /\ ktail' = Len(applied') + Len(queue')
                    /\ \A i \in 1..Len(applied') : applied'[i] = sent'[i]
                    /\ \A i \in 1..Len(queue') : queue'[i] = sent'[Len(applied') + i]
  BY DEF OrderInv
<1>1. CASE SendKey \/ DequeueRead \/ DequeueAdvance \/ Quiet
  <2>1. UNCHANGED <<ktail, applied, queue, sent, spoiled>>
    BY <1>1 DEF SendKey, DequeueRead, DequeueAdvance, Quiet, window, engine
  <2> QED
    BY <2>1 DEF OrderInv
<1>2. CASE PushStore
  <2>1. UNCHANGED <<ktail, applied, queue, sent>>
    BY <1>2 DEF PushStore, engine
  <2>2. out # <<>> /\ (spoiled' = Codes \/ spoiled' = spoiled)
    BY <1>2 DEF PushStore
  <2>3. spoiled = {}
    BY <2>2 DEF KeyTypes
  <2> QED
    BY <2>1, <2>3 DEF OrderInv
<1>3. CASE PushBump
  <2>1. /\ UNCHANGED <<ktail, applied, queue, spoiled>> /\ sent' = Append(sent, Head(out))
        /\ out # <<>>
    BY <1>3 DEF PushBump, engine, KeyTypes
  <2>2. Head(out) \in Ev
    BY <2>1, HeadTailProperties DEF KeyTypes
  <2>3. \A i \in 1..Len(sent) : sent'[i] = sent[i]
    BY <1>0, <2>1, <2>2, AppendElements
  <2>4. /\ ktail = Len(applied) + Len(queue)
        /\ \A i \in 1..Len(applied) : applied[i] = sent[i]
        /\ \A i \in 1..Len(queue) : queue[i] = sent[Len(applied) + i]
    BY <2>1 DEF OrderInv
  <2>5. ASSUME NEW i \in 1..Len(applied) PROVE applied[i] = sent'[i]
    BY <1>0, <2>3, <2>4
  <2>6. ASSUME NEW i \in 1..Len(queue) PROVE queue[i] = sent'[Len(applied) + i]
    <3>1. Len(applied) + i \in 1..Len(sent)
      BY <1>0, <2>4
    <3> QED
      BY <2>3, <2>4, <3>1
  <2> QED
    BY <2>1, <2>4, <2>5, <2>6
<1>4. CASE Pop
  <2>1. /\ queue # <<>> /\ queue' = Tail(queue) /\ applied' = Append(applied, Head(queue))
        /\ UNCHANGED <<ktail, sent>>
    BY <1>4 DEF Pop, Takes, Apply, window
  <2>2. spoiled = {}
    BY <1>4 DEF Pop, Takes
  <2>3. /\ ktail = Len(applied) + Len(queue)
        /\ \A i \in 1..Len(applied) : applied[i] = sent[i]
        /\ \A i \in 1..Len(queue) : queue[i] = sent[Len(applied) + i]
    BY <2>2 DEF OrderInv
  <2>4. /\ Head(queue) \in Ev /\ Len(queue') = Len(queue) - 1 /\ Head(queue) = queue[1]
        /\ \A i \in 1..Len(queue') : queue'[i] = queue[i + 1]
    BY <1>0, <2>1, HeadTailProperties
  <2>5. /\ Len(applied') = Len(applied) + 1 /\ applied'[Len(applied) + 1] = Head(queue)
        /\ \A i \in 1..Len(applied) : applied'[i] = applied[i]
    BY <1>0, <2>1, <2>4, AppendElements
  <2>6. Len(queue) >= 1
    BY <1>0, <2>1, EmptySeq
  <2>7. ktail' = Len(applied') + Len(queue')
    BY <1>0, <2>1, <2>3, <2>4, <2>5
  <2>8. ASSUME NEW i \in 1..Len(applied') PROVE applied'[i] = sent'[i]
    <3>1. CASE i = Len(applied) + 1
      <4>1. queue[1] = sent[Len(applied) + 1]
        BY <1>0, <2>3, <2>6
      <4> QED
        BY <2>1, <2>4, <2>5, <3>1, <4>1
    <3>2. CASE i # Len(applied) + 1
      <4>1. i \in 1..Len(applied)
        BY <1>0, <2>5, <3>2
      <4> QED
        BY <2>1, <2>3, <2>5, <4>1
    <3> QED
      BY <3>1, <3>2
  <2>9. ASSUME NEW i \in 1..Len(queue') PROVE queue'[i] = sent'[Len(applied') + i]
    <3>1. i + 1 \in 1..Len(queue) /\ Len(applied) + (i + 1) = Len(applied') + i
      BY <1>0, <2>4, <2>5
    <3>2. queue[i + 1] = sent[Len(applied) + (i + 1)]
      BY <2>3, <3>1
    <3> QED
      BY <2>1, <2>4, <3>1, <3>2
  <2> QED
    BY <2>7, <2>8, <2>9
<1>5. CASE TickApply \/ TickEnqueue
  <2>1. spoiled = {} /\ ktail' = ktail + 1 /\ ktail # khead /\ UNCHANGED sent
    BY <1>5 DEF TickApply, TickEnqueue, ApplyFiltered, window
  <2>2. /\ ktail = Len(applied) + Len(queue)
        /\ \A i \in 1..Len(applied) : applied[i] = sent[i]
        /\ \A i \in 1..Len(queue) : queue[i] = sent[Len(applied) + i]
    BY <2>1 DEF OrderInv
  <2>3. ShmHolds
    <3>1. ~Lapped
      BY <2>1 DEF Lapped
    <3> QED
      BY <3>1 DEF ShmInv
  <2>4. RingByte = sent[ktail + 1] /\ RingByte \in Ev
    BY <2>1, <2>3, RingByteIsNext, RingByteIsAnEvent
  <2>5. CASE TickApply
    <3>1. queue = <<>> /\ UNCHANGED queue /\ applied' = Append(applied, RingByte)
      BY <2>5 DEF TickApply, ApplyFiltered, Apply, Drains
    <3>2. Len(queue) = 0
      BY <3>1, EmptySeq, Zenon
    <3>3. /\ Len(applied') = Len(applied) + 1 /\ applied'[Len(applied) + 1] = RingByte
          /\ \A i \in 1..Len(applied) : applied'[i] = applied[i]
      BY <1>0, <2>4, <3>1, AppendElements
    <3>4. Len(queue') = 0 /\ ktail' = Len(applied') + Len(queue')
      BY <1>0, <2>1, <2>2, <3>1, <3>2, <3>3
    <3>5. ASSUME NEW i \in 1..Len(applied') PROVE applied'[i] = sent'[i]
      <4>1. CASE i = Len(applied) + 1
        <5>1. ktail + 1 = Len(applied) + 1
          BY <1>0, <2>2, <3>2
        <5> QED
          BY <2>1, <2>4, <3>3, <4>1, <5>1
      <4>2. CASE i # Len(applied) + 1
        <5>1. i \in 1..Len(applied)
          BY <1>0, <3>3, <4>2
        <5> QED
          BY <2>1, <2>2, <3>3, <5>1
      <4> QED
        BY <4>1, <4>2
    <3> QED
      BY <3>4, <3>5
  <2>6. CASE TickEnqueue
    <3>1. Len(queue) < QueueCap
      BY <2>6 DEF TickEnqueue
    <3>2. queue' = Append(queue, RingByte) /\ UNCHANGED applied
      BY <2>6, <3>1 DEF TickEnqueue, engine
    <3>3. /\ Len(queue') = Len(queue) + 1 /\ queue'[Len(queue) + 1] = RingByte
          /\ \A i \in 1..Len(queue) : queue'[i] = queue[i]
      BY <1>0, <2>4, <3>2, AppendElements
    <3>4. ktail' = Len(applied') + Len(queue')
      BY <1>0, <2>1, <2>2, <3>2, <3>3
    <3>5. ASSUME NEW i \in 1..Len(queue') PROVE queue'[i] = sent'[Len(applied') + i]
      <4>1. CASE i = Len(queue) + 1
        <5>1. ktail + 1 = Len(applied) + i
          BY <1>0, <2>2, <4>1
        <5> QED
          BY <2>1, <2>4, <3>2, <3>3, <4>1, <5>1
      <4>2. CASE i # Len(queue) + 1
        <5>1. i \in 1..Len(queue)
          BY <1>0, <3>3, <4>2
        <5> QED
          BY <2>1, <2>2, <3>2, <3>3, <5>1
      <4> QED
        BY <4>1, <4>2
    <3> QED
      BY <2>1, <2>2, <3>2, <3>4, <3>5
  <2> QED
    BY <1>5, <2>5, <2>6
<1> QED
  BY <1>1, <1>2, <1>3, <1>4, <1>5, KindsOfStep

\* The invariant of the events.
KeyInv == KeyTypes /\ ShmInv /\ Drains /\ OrderInv

(* The path starts with nothing pushed.                                     *)
LEMMA InitialKeys ==
  ASSUME Init
  PROVE  KeyInv
<1>1. KeyTypes
  BY InitialKeyTypes
<1>2. /\ written = FALSE /\ khead = 0 /\ ktail = 0 /\ queue = <<>> /\ applied = <<>>
      /\ tick = "idle"
  BY DEF Init
<1>3. Drains
  BY <1>2 DEF Drains
<1>4. ShmCap \in Nat
  BY KeyboardAssumption
<1>5. ShmInv
  BY <1>2, <1>4 DEF ShmInv, ShmHolds
<1>6. Len(applied) = 0 /\ Len(queue) = 0
  BY <1>2, EmptySeq, Zenon
<1>7. OrderInv
  BY <1>2, <1>6 DEF OrderInv
<1> QED
  BY <1>1, <1>3, <1>5, <1>7 DEF KeyInv

(* Whatever the window, the ticks and the game thread do in turn, the bytes *)
(* between push_key and the engine stay in the slots and in the queue.      *)
THEOREM KeyboardInvariant == Spec => []KeyInv
<1>1. Init => KeyInv
  BY InitialKeys
<1>2. KeyInv /\ [Next]_vars => KeyInv'
  BY StepsKeepKeyTypes, StepsKeepShm, StepsKeepDrains, StepsKeepOrder DEF KeyInv
<1> QED
  BY <1>1, <1>2, PTL DEF Spec

(* The shared ring is a sequence of as many events as were not taken.       *)
LEMMA InShmIsASequence ==
  ASSUME KeyTypes
  PROVE  InShm \in Seq(Ev) /\ Len(InShm) = khead - ktail
<1>0. /\ ShmCap \in Nat \ {0} /\ khead - ktail \in Nat /\ ktail \in Nat
      /\ slot \in [0..ShmCap - 1 -> Ev]
  BY KeyboardAssumption DEF KeyTypes
<1>1. ASSUME NEW i \in 1..khead - ktail PROVE slot[(ktail + i - 1) % ShmCap] \in Ev
  <2>1. ktail + i - 1 \in Int
    BY <1>0
  <2>2. (ktail + i - 1) % ShmCap \in 0..ShmCap - 1
    BY <1>0, <2>1, SlotOfIndex
  <2> QED
    BY <1>0, <2>2
<1>2. InShm \in [1..khead - ktail -> Ev]
  BY <1>1 DEF InShm
<1>3. InShm \in Seq(Ev)
  BY <1>0, <1>2, SeqDef
<1>4. DOMAIN InShm = 1..khead - ktail
  BY DEF InShm
<1>5. Len(InShm) \in Nat /\ DOMAIN InShm = 1..Len(InShm)
  BY <1>3, LenProperties
<1> QED
  BY <1>0, <1>3, <1>4, <1>5

(* EventsStayInOrder: unless an event was lost, what the engine applied,    *)
(* followed by the 8042 queue and the shared ring, is what was pushed,      *)
(* however the interrupt path and the interactive ticks alternate.          *)
THEOREM KeyEventsStayInOrder == Spec => []EventsStayInOrder
<1>1. KeyInv => EventsStayInOrder
  <2> SUFFICES ASSUME KeyInv, spoiled = {}
               PROVE  applied \o queue \o InShm = sent
    BY DEF EventsStayInOrder
  <2>0. /\ khead \in Nat /\ ktail \in Nat /\ ktail <= khead /\ khead = Len(sent)
        /\ Len(applied) \in Nat /\ Len(queue) \in Nat
        /\ sent \in Seq(Ev) /\ applied \in Seq(Ev) /\ queue \in Seq(Ev)
    BY LenProperties DEF KeyInv, KeyTypes
  <2>1. ShmHolds
    BY DEF KeyInv, ShmInv, Lapped
  <2>2. InShm \in Seq(Ev) /\ Len(InShm) = khead - ktail
    BY InShmIsASequence DEF KeyInv
  <2>3. /\ ktail = Len(applied) + Len(queue)
        /\ \A i \in 1..Len(applied) : applied[i] = sent[i]
        /\ \A i \in 1..Len(queue) : queue[i] = sent[Len(applied) + i]
    BY DEF KeyInv, OrderInv
  <2> DEFINE a == applied \o queue
  <2>4. /\ a \in Seq(Ev) /\ Len(a) = ktail
        /\ \A i \in 1..ktail : a[i] = IF i <= Len(applied) THEN applied[i]
                                                           ELSE queue[i - Len(applied)]
    BY <2>0, <2>3, ConcatProperties
  <2> HIDE DEF a
  <2>5. ASSUME NEW i \in 1..ktail PROVE a[i] = sent[i]
    <3>1. CASE i <= Len(applied)
      BY <2>0, <2>3, <2>4, <3>1
    <3>2. CASE i > Len(applied)
      <4>1. i - Len(applied) \in 1..Len(queue) /\ Len(applied) + (i - Len(applied)) = i
        BY <2>0, <2>3, <3>2
      <4>2. queue[i - Len(applied)] = sent[i]
        BY <2>3, <4>1
      <4>3. a[i] = queue[i - Len(applied)]
        BY <2>0, <2>4, <3>2
      <4> QED
        BY <4>2, <4>3
    <3> QED
      BY <2>0, <3>1, <3>2
  <2>6. /\ a \o InShm \in Seq(Ev) /\ Len(a \o InShm) = ktail + (khead - ktail)
        /\ \A i \in 1..ktail + (khead - ktail) :
             (a \o InShm)[i] = IF i <= ktail THEN a[i] ELSE InShm[i - ktail]
    <3>1. /\ a \o InShm \in Seq(Ev) /\ Len(a \o InShm) = Len(a) + Len(InShm)
          /\ \A i \in 1..Len(a) + Len(InShm) :
               (a \o InShm)[i] = IF i <= Len(a) THEN a[i] ELSE InShm[i - Len(a)]
      BY <2>2, <2>4, ConcatProperties
    <3>2. Len(a) = ktail /\ Len(InShm) = khead - ktail
      BY <2>2, <2>4
    <3> HIDE DEF Ev
    <3> QED
      BY <3>1, <3>2, Zenon
  <2>7. ktail + (khead - ktail) = khead
    BY <2>0
  <2>8. ASSUME NEW i \in 1..khead PROVE (a \o InShm)[i] = sent[i]
    <3>1. CASE i <= ktail
      BY <2>0, <2>5, <2>6, <2>7, <3>1
    <3>2. CASE i > ktail
      <4>1. i - ktail \in 1..khead - ktail /\ ktail + (i - ktail) - 1 = i - 1
        BY <2>0, <3>2
      <4>2. InShm[i - ktail] = slot[(i - 1) % ShmCap]
        BY <4>1 DEF InShm
      <4>3. i - 1 \in ktail..khead - 1 /\ (i - 1) + 1 = i
        BY <2>0, <3>2
      <4>4. slot[(i - 1) % ShmCap] = sent[i]
        BY <2>1, <4>3 DEF ShmHolds
      <4>5. (a \o InShm)[i] = InShm[i - ktail]
        BY <2>0, <2>6, <2>7, <3>2
      <4> QED
        BY <4>2, <4>4, <4>5
    <3>3. i <= ktail \/ i > ktail
      BY <2>0
    <3> QED
      BY <3>1, <3>2, <3>3
  <2>9. a \o InShm = sent
    BY <2>0, <2>6, <2>7, <2>8, SeqEqual
  <2> QED
    BY <2>9 DEF a
<1> QED
  BY <1>1, KeyboardInvariant, PTL

-----------------------------------------------------------------------------
(* The bitmap.                                                              *)

\* What the first n events of s leave of the level b of a code.
Level(s, n, c, b) ==
  IF \E i \in 1..n : s[i].code = c
  THEN \E i \in 1..n : /\ s[i].code = c /\ s[i].make
                       /\ \A j \in 1..n : s[j].code = c => j <= i
  ELSE b

(* The level depends on the events only.                                    *)
LEMMA LevelOfSameEvents ==
  ASSUME NEW s, NEW t, NEW n \in Nat, NEW c, NEW b, \A i \in 1..n : t[i] = s[i]
  PROVE  Level(t, n, c, b) <=> Level(s, n, c, b)
BY DEF Level

(* The last event sets the level of its code.                               *)
LEMMA LevelAfterTheLast ==
  ASSUME NEW s, NEW t, NEW n \in Nat, NEW c, NEW b, \A i \in 1..n : t[i] = s[i]
  PROVE  Level(t, n + 1, c, b) <=> IF t[n + 1].code = c THEN t[n + 1].make ELSE Level(s, n, c, b)
<1>1. CASE t[n + 1].code = c
  <2>1. n + 1 \in 1..n + 1
    OBVIOUS
  <2>2. \A i \in 1..n + 1 : n + 1 <= i => i = n + 1
    OBVIOUS
  <2>3. \A j \in 1..n + 1 : j <= n + 1
    OBVIOUS
  <2>4. Level(t, n + 1, c, b) <=>
          \E i \in 1..n + 1 : /\ t[i].code = c /\ t[i].make
                              /\ \A j \in 1..n + 1 : t[j].code = c => j <= i
    BY <1>1, <2>1 DEF Level
  <2>5. ASSUME NEW i \in 1..n + 1, t[i].make, \A j \in 1..n + 1 : t[j].code = c => j <= i
        PROVE  t[n + 1].make
    BY <1>1, <2>1, <2>2, <2>5
  <2>6. t[n + 1].make => \E i \in 1..n + 1 : /\ t[i].code = c /\ t[i].make
                              /\ \A j \in 1..n + 1 : t[j].code = c => j <= i
    BY <1>1, <2>1, <2>3
  <2> QED
    BY <1>1, <2>4, <2>5, <2>6
<1>2. CASE t[n + 1].code # c
  <2>1. \A i \in 1..n + 1 : t[i].code = c => i \in 1..n
    BY <1>2
  <2>2. \A i \in 1..n : i \in 1..n + 1
    OBVIOUS
  <2>3. (\E i \in 1..n + 1 : t[i].code = c) <=> (\E i \in 1..n : s[i].code = c)
    BY <2>1, <2>2
  <2>4. (\E i \in 1..n + 1 : /\ t[i].code = c /\ t[i].make
                             /\ \A j \in 1..n + 1 : t[j].code = c => j <= i)
        <=> (\E i \in 1..n : /\ s[i].code = c /\ s[i].make
                             /\ \A j \in 1..n : s[j].code = c => j <= i)
    BY <2>1, <2>2
  <2> QED
    BY <1>2, <2>3, <2>4 DEF Level
<1> QED
  BY <1>1, <1>2

(* The first event sets the level that the others start from.               *)
LEMMA LevelAfterTheFirst ==
  ASSUME NEW s, NEW t, NEW n \in Nat, NEW c, NEW b, \A i \in 1..n : t[i] = s[i + 1]
  PROVE  Level(s, n + 1, c, b) <=> Level(t, n, c, IF s[1].code = c THEN s[1].make ELSE b)
<1>1. \A i \in 1..n + 1 : i # 1 => i - 1 \in 1..n /\ s[i] = t[i - 1]
  <2> TAKE i \in 1..n + 1
  <2> HAVE i # 1
  <2>1. i - 1 \in 1..n /\ (i - 1) + 1 = i
    OBVIOUS
  <2> QED
    BY <2>1
<1>2. \A i \in 1..n : i + 1 \in 1..n + 1 /\ t[i] = s[i + 1] /\ i + 1 # 1
  OBVIOUS
<1>3. 1 \in 1..n + 1
  OBVIOUS
<1>4. CASE \E i \in 1..n : t[i].code = c
  <2>1. \E i \in 1..n + 1 : s[i].code = c
    BY <1>2, <1>4
  <2>2. ASSUME NEW i \in 1..n, t[i].code = c, t[i].make, \A j \in 1..n : t[j].code = c => j <= i
        PROVE  \E k \in 1..n + 1 : /\ s[k].code = c /\ s[k].make
                                   /\ \A j \in 1..n + 1 : s[j].code = c => j <= k
    <3>1. ASSUME NEW j \in 1..n + 1, s[j].code = c PROVE j <= i + 1
      <4>1. CASE j = 1
        BY <4>1
      <4>2. CASE j # 1
        <5>1. j - 1 <= i
          BY <1>1, <2>2, <3>1, <4>2
        <5> QED
          BY <5>1
      <4> QED
        BY <4>1, <4>2
    <3>2. i + 1 \in 1..n + 1 /\ s[i + 1].code = c /\ s[i + 1].make
      BY <1>2, <2>2
    <3> QED
      BY <3>1, <3>2
  <2>3. ASSUME NEW k \in 1..n + 1, s[k].code = c, s[k].make,
               \A j \in 1..n + 1 : s[j].code = c => j <= k
        PROVE  \E i \in 1..n : /\ t[i].code = c /\ t[i].make
                               /\ \A j \in 1..n : t[j].code = c => j <= i
    <3>1. PICK m \in 1..n : t[m].code = c
      BY <1>4
    <3>2. m + 1 <= k
      BY <1>2, <2>3, <3>1
    <3>3. k # 1
      BY <3>2
    <3>4. k - 1 \in 1..n /\ t[k - 1].code = c /\ t[k - 1].make
      BY <1>1, <2>3, <3>3
    <3>5. ASSUME NEW j \in 1..n, t[j].code = c PROVE j <= k - 1
      <4>1. j + 1 <= k
        BY <1>2, <2>3, <3>5
      <4> QED
        BY <4>1
    <3> QED
      BY <3>4, <3>5
  <2> QED
    BY <1>4, <2>1, <2>2, <2>3 DEF Level
<1>5. CASE ~ \E i \in 1..n : t[i].code = c
  <2>1. \A i \in 1..n + 1 : s[i].code = c => i = 1
    BY <1>1, <1>5
  <2>2. Level(t, n, c, IF s[1].code = c THEN s[1].make ELSE b)
          <=> IF s[1].code = c THEN s[1].make ELSE b
    BY <1>5 DEF Level
  <2>3. CASE s[1].code = c
    <3>1. \A j \in 1..n + 1 : s[j].code = c => j <= 1
      BY <2>1
    <3>2. Level(s, n + 1, c, b) <=> s[1].make
      BY <1>3, <2>1, <2>3, <3>1 DEF Level
    <3> QED
      BY <2>2, <2>3, <3>2
  <2>4. CASE s[1].code # c
    <3>1. Level(s, n + 1, c, b) <=> b
      BY <2>1, <2>4 DEF Level
    <3> QED
      BY <2>2, <2>4, <3>1
  <2> QED
    BY <2>3, <2>4
<1> QED
  BY <1>4, <1>5

\* The bitmap, after what is queued, is that of all the bytes taken.
BitmapInv ==
  \A c \in Codes \ spoiled :
    Level(queue, Len(queue), c, c \in held) <=> Level(sent, ktail, c, FALSE)

(* An event that is applied sets the level of its code.                     *)
LEMMA TakingSetsTheLevel ==
  ASSUME NEW e \in Ev, Takes(e), NEW c \in Codes \ spoiled'
  PROVE  (c \in held') <=> IF e.code = c THEN e.make ELSE c \in held
<1>1. CASE e.code # c /\ UNCHANGED held
  BY <1>1
<1>2. CASE Apply(e)
  <2>1. CASE e = Prefix
    <3>1. e.code = "e0" /\ "e0" # c
      BY <2>1, KeyboardAssumption DEF Prefix, Event
    <3> QED
      BY <1>2, <2>1, <3>1 DEF Apply
  <2>2. CASE e # Prefix
    BY <1>2, <2>2 DEF Apply
  <2> QED
    BY <2>1, <2>2
<1> QED
  BY <1>1, <1>2 DEF Takes

(* The tick, the interrupt and the plugins keep the bitmap current.         *)
LEMMA StepsKeepBitmap ==
  ASSUME KeyInv, BitmapInv, [Next]_vars
  PROVE  BitmapInv'
<1>0. /\ khead \in Nat /\ ktail \in Nat /\ ktail <= khead /\ khead = Len(sent)
      /\ Len(queue) \in Nat /\ sent \in Seq(Ev) /\ queue \in Seq(Ev)
  BY LenProperties DEF KeyInv, KeyTypes
<1> SUFFICES ASSUME NEW c \in Codes \ spoiled'
             PROVE  Level(queue', Len(queue'), c, c \in held') <=> Level(sent', ktail', c, FALSE)
  BY DEF BitmapInv, Level
<1>1. /\ c \in Codes \ spoiled
      /\ Level(queue, Len(queue), c, c \in held) <=> Level(sent, ktail, c, FALSE)
  BY SpoiledCodesStay DEF BitmapInv
<1>2. CASE SendKey \/ PushStore \/ DequeueRead \/ DequeueAdvance \/ Quiet
  <2>1. ktail' = ktail /\ held' = held /\ queue' = queue /\ sent' = sent
    BY <1>2 DEF SendKey, PushStore, DequeueRead, DequeueAdvance, Quiet, window, engine
  <2> QED
    BY <1>1, <2>1
<1>3. CASE PushBump
  <2>1. /\ UNCHANGED <<ktail, held, queue>> /\ sent' = Append(sent, Head(out)) /\ out # <<>>
    BY <1>3 DEF PushBump, engine, KeyInv, KeyTypes
  <2>2. Head(out) \in Ev
    BY <2>1, HeadTailProperties DEF KeyInv, KeyTypes
  <2>3. \A i \in 1..Len(sent) : sent'[i] = sent[i]
    BY <1>0, <2>1, <2>2, AppendElements
  <2>4. \A i \in 1..ktail : sent'[i] = sent[i]
    BY <1>0, <2>3
  <2>5. Level(sent', ktail, c, FALSE) <=> Level(sent, ktail, c, FALSE)
    BY <1>0, <2>4, LevelOfSameEvents
  <2> QED
    BY <1>1, <2>1, <2>5
<1>4. CASE Pop
  <2>1. queue # <<>> /\ queue' = Tail(queue) /\ UNCHANGED <<ktail, sent>> /\ Takes(Head(queue))
    BY <1>4 DEF Pop, window
  <2>2. /\ Head(queue) \in Ev /\ Head(queue) = queue[1] /\ Len(queue') = Len(queue) - 1
        /\ \A i \in 1..Len(queue') : queue'[i] = queue[i + 1]
    BY <1>0, <2>1, HeadTailProperties
  <2> DEFINE n == Len(queue')
  <2>3. n \in Nat /\ Len(queue) = n + 1
    <3>1. Len(queue) >= 1
      BY <1>0, <2>1, EmptySeq
    <3> QED
      BY <1>0, <2>2, <3>1
  <2>4. (c \in held') <=> IF queue[1].code = c THEN queue[1].make ELSE c \in held
    BY <2>1, <2>2, TakingSetsTheLevel
  <2> DEFINE h == IF queue[1].code = c THEN queue[1].make ELSE c \in held
  <2>5. Level(queue, n + 1, c, c \in held) <=> Level(queue', n, c, h)
    BY <2>2, <2>3, LevelAfterTheFirst
  <2>6. Level(queue', n, c, h) <=> Level(queue', n, c, c \in held')
    BY <2>4 DEF Level
  <2> QED
    BY <1>1, <2>1, <2>3, <2>5, <2>6
<1>5. CASE TickApply \/ TickEnqueue
  <2>1. ktail' = ktail + 1 /\ ktail # khead /\ sent' = sent
    BY <1>5 DEF TickApply, TickEnqueue, window
  <2>2. ShmHolds
    <3>1. ~Lapped
      BY <1>1 DEF Lapped
    <3> QED
      BY <3>1 DEF KeyInv, ShmInv
  <2> DEFINE e == RingByte
  <2>3. e = sent[ktail + 1] /\ e \in Ev
    BY <2>1, <2>2, RingByteIsNext, RingByteIsAnEvent DEF KeyInv
  <2> HIDE DEF e
  <2>4. Level(sent', ktail', c, FALSE)
          <=> IF e.code = c THEN e.make ELSE Level(sent, ktail, c, FALSE)
    <3>1. \A i \in 1..ktail : sent[i] = sent[i]
      OBVIOUS
    <3>2. Level(sent, ktail + 1, c, FALSE)
            <=> IF sent[ktail + 1].code = c THEN sent[ktail + 1].make
                                            ELSE Level(sent, ktail, c, FALSE)
      BY <1>0, <3>1, LevelAfterTheLast
    <3> QED
      BY <2>1, <2>3, <3>2
  <2>5. CASE TickApply
    <3>1. queue = <<>> /\ queue' = queue
      BY <2>5 DEF TickApply, KeyInv, Drains
    <3>2. Len(queue) = 0
      BY <3>1, EmptySeq, Zenon
    <3>3. Level(queue, Len(queue), c, c \in held) <=> c \in held
      BY <3>2 DEF Level
    <3>4. Level(queue', Len(queue'), c, c \in held') <=> c \in held'
      BY <3>1, <3>2 DEF Level
    <3>5. Takes(e)
      BY <2>5 DEF TickApply, ApplyFiltered, Takes, e
    <3>6. (c \in held') <=> IF e.code = c THEN e.make ELSE c \in held
      BY <2>3, <3>5, TakingSetsTheLevel
    <3> QED
      BY <1>1, <2>4, <3>3, <3>4, <3>6
  <2>6. CASE TickEnqueue
    <3>1. held' = held
      BY <2>6 DEF TickEnqueue, engine
    <3>2. CASE Len(queue) < QueueCap
      <4>1. queue' = Append(queue, e)
        BY <2>6, <3>2 DEF TickEnqueue, e
      <4>2. /\ Len(queue') = Len(queue) + 1 /\ queue'[Len(queue) + 1] = e
            /\ \A i \in 1..Len(queue) : queue'[i] = queue[i]
        BY <1>0, <2>3, <4>1, AppendElements
      <4> DEFINE n == Len(queue)
      <4>3. Level(queue', n + 1, c, c \in held)
              <=> IF queue'[n + 1].code = c THEN queue'[n + 1].make
                                            ELSE Level(queue, n, c, c \in held)
        BY <1>0, <4>2, LevelAfterTheLast
      <4> QED
        BY <1>1, <2>4, <3>1, <4>2, <4>3
    <3>3. CASE ~(Len(queue) < QueueCap)
      <4>1. queue' = queue /\ spoiled' = spoiled \cup {e.code}
        BY <2>6, <3>3 DEF TickEnqueue, e
      <4>2. e.code # c
        BY <4>1
      <4> QED
        BY <1>1, <2>4, <3>1, <4>1, <4>2
    <3> QED
      BY <3>2, <3>3
  <2> QED
    BY <1>5, <2>5, <2>6
<1> QED
  BY <1>2, <1>3, <1>4, <1>5, KindsOfStep

(* DrainedBitmapIsCurrent: whichever path applied its events, the held bit  *)
(* of a code is that of the last event the window pushed for it, once every *)
(* event is drained and unless one of the code's own events was lost.       *)
THEOREM DrainedKeysAreTheLastOnes == Spec => []DrainedBitmapIsCurrent
<1>1. Init => BitmapInv
  <2> SUFFICES ASSUME Init PROVE BitmapInv
    OBVIOUS
  <2>1. queue = <<>> /\ sent = <<>> /\ ktail = 0 /\ held = {}
    BY DEF Init
  <2>2. Len(queue) = 0
    BY <2>1, EmptySeq, Zenon
  <2> QED
    BY <2>1, <2>2 DEF BitmapInv, Level
<1>2. KeyInv /\ BitmapInv /\ [Next]_vars => BitmapInv'
  BY StepsKeepBitmap
<1>3. KeyInv /\ BitmapInv => DrainedBitmapIsCurrent
  <2> SUFFICES ASSUME KeyInv, BitmapInv, queue = <<>>, khead = ktail, NEW c \in Codes \ spoiled
               PROVE  c \in held <=> LastMake(c)
    BY DEF DrainedBitmapIsCurrent
  <2>1. Len(queue) = 0 /\ ktail = Len(sent)
    <3>1. Len(queue) = 0
      BY EmptySeq, Zenon
    <3> QED
      BY <3>1 DEF KeyInv, KeyTypes
  <2>2. c \in held <=> Level(sent, Len(sent), c, FALSE)
    BY <2>1 DEF BitmapInv, Level
  <2>3. Level(sent, Len(sent), c, FALSE) <=> LastMake(c)
    BY DEF Level, LastMake
  <2> QED
    BY <2>2, <2>3
<1> QED
  BY <1>1, <1>2, <1>3, KeyboardInvariant, PTL DEF Spec

-----------------------------------------------------------------------------
(* The input ring.                                                          *)

\* The ring is what was queued and not served, and the dequeue in progress
\* has read its first code.
RingInv ==
  /\ RingTypes
  /\ deq = <<>> \/ (rhead # rtail /\ deq = <<buf[rtail]>>)
  /\ Len(queued) = Len(served) + RingLen
  /\ \A i \in 1..Len(served) : queued[i] = served[i]
  /\ \A i \in 1..RingLen : queued[Len(served) + i] = buf[(rtail + i - 1) % RingSlots]

(* How many codes a pair of indices leaves in the ring, and which slots.    *)
LEMMA SlotsInUse ==
  ASSUME RingTypes
  PROVE  /\ RingSlots \in Nat \ {0} /\ rhead \in Nat /\ rtail \in Nat
         /\ rhead < RingSlots /\ rtail < RingSlots
         /\ RingLen = IF rhead >= rtail THEN rhead - rtail ELSE rhead + RingSlots - rtail
         /\ RingLen \in 0..RingSlots - 1
         /\ \A j \in 0..RingSlots - 1 :
              /\ NextSlot(j) = IF j = RingSlots - 1 THEN 0 ELSE j + 1
              /\ (rtail + j) % RingSlots =
                   IF rtail + j < RingSlots THEN rtail + j ELSE (rtail + j) - RingSlots
<1>1. /\ RingSlots \in Nat \ {0} /\ rhead \in Nat /\ rtail \in Nat
      /\ rhead < RingSlots /\ rtail < RingSlots
  BY KeyboardAssumption DEF RingTypes
<1>2. RingLen = IF rhead >= rtail THEN rhead - rtail ELSE rhead + RingSlots - rtail
  <2> DEFINE x == rhead + RingSlots - rtail
  <2>1. x \in 0..2 * RingSlots - 1
    BY <1>1
  <2>2. x % RingSlots = IF x < RingSlots THEN x ELSE x - RingSlots
    BY <1>1, <2>1, Wraps
  <2> QED
    BY <1>1, <2>2 DEF RingLen
<1>3. ASSUME NEW j \in 0..RingSlots - 1
      PROVE  /\ NextSlot(j) = IF j = RingSlots - 1 THEN 0 ELSE j + 1
             /\ (rtail + j) % RingSlots =
                  IF rtail + j < RingSlots THEN rtail + j ELSE (rtail + j) - RingSlots
  <2>1. j + 1 \in 0..2 * RingSlots - 1
    BY <1>1
  <2>2. (j + 1) % RingSlots = IF j + 1 < RingSlots THEN j + 1 ELSE (j + 1) - RingSlots
    BY <1>1, <2>1, Wraps, Zenon
  <2>3. (rtail + j) % RingSlots =
          IF rtail + j < RingSlots THEN rtail + j ELSE (rtail + j) - RingSlots
    <3>1. rtail + j \in 0..2 * RingSlots - 1
      BY <1>1
    <3> QED
      BY <1>1, <3>1, Wraps, Zenon
  <2>4. NextSlot(j) = IF j = RingSlots - 1 THEN 0 ELSE j + 1
    BY <1>1, <2>2 DEF NextSlot
  <2> QED
    BY <2>3, <2>4
<1>4. RingLen \in 0..RingSlots - 1
  BY <1>1, <1>2
<1> QED
  BY <1>1, <1>2, <1>3, <1>4

(* A byte that is put in the ring comes last and takes a free slot.         *)
LEMMA EnqueueKeepsTheRing ==
  ASSUME RingInv, NEW b \in Byte, NextSlot(rhead) # rtail,
         buf' = [buf EXCEPT ![rhead] = b], rhead' = NextSlot(rhead),
         queued' = Append(queued, b), UNCHANGED <<rtail, served, deq>>
  PROVE  RingInv'
<1>1. RingTypes
  BY DEF RingInv
<1>2. /\ RingSlots \in Nat \ {0} /\ rhead \in Nat /\ rtail \in Nat
      /\ rhead < RingSlots /\ rtail < RingSlots
      /\ RingLen = IF rhead >= rtail THEN rhead - rtail ELSE rhead + RingSlots - rtail
      /\ RingLen \in 0..RingSlots - 1
      /\ rhead' = IF rhead = RingSlots - 1 THEN 0 ELSE rhead + 1
  <2>1. rhead \in 0..RingSlots - 1
    BY <1>1 DEF RingTypes
  <2>2. NextSlot(rhead) = IF rhead = RingSlots - 1 THEN 0 ELSE rhead + 1
    BY <1>1, <2>1, SlotsInUse
  <2> QED
    BY <1>1, <2>2, SlotsInUse
<1>3. /\ Len(queued') = Len(queued) + 1 /\ queued' \in Seq(Byte)
      /\ \A i \in 1..Len(queued) : queued'[i] = queued[i]
      /\ queued'[Len(queued) + 1] = b /\ Len(queued) \in Nat /\ Len(served) \in Nat
  BY <1>1, AppendElements, LenProperties DEF RingTypes
<1>4. rhead' \in 0..RingSlots - 1 /\ buf' \in [0..RingSlots - 1 -> Byte]
  BY <1>1, <1>2 DEF RingTypes
<1>5. RingTypes'
  BY <1>1, <1>3, <1>4 DEF RingTypes
<1>6. RingLen' = IF rhead' >= rtail' THEN rhead' - rtail' ELSE rhead' + RingSlots - rtail'
  <2> DEFINE x == rhead' + RingSlots - rtail'
  <2>1. x \in 0..2 * RingSlots - 1
    BY <1>2, <1>4
  <2>2. x % RingSlots = IF x < RingSlots THEN x ELSE x - RingSlots
    BY <1>2, <2>1, Wraps
  <2> QED
    BY <1>2, <1>4, <2>2 DEF RingLen
<1>7. RingLen' = RingLen + 1
  BY <1>2, <1>6
<1>8. Len(queued') = Len(served') + RingLen'
  <2>1. Len(queued) = Len(served) + RingLen /\ served' = served
    BY DEF RingInv
  <2> QED
    BY <1>2, <1>3, <1>7, <2>1
<1>9. deq' = <<>> \/ (rhead' # rtail' /\ deq' = <<buf'[rtail']>>)
  <2>1. CASE deq = <<>>
    BY <2>1
  <2>2. CASE rhead # rtail /\ deq = <<buf[rtail]>>
    <3>1. buf'[rtail] = buf[rtail]
      BY <1>1, <2>2 DEF RingTypes
    <3> QED
      BY <2>2, <3>1
  <2> QED
    BY <2>1, <2>2 DEF RingInv
<1>10. ASSUME NEW i \in 1..Len(served') PROVE queued'[i] = served'[i]
  <2>1. i \in 1..Len(queued) /\ i \in 1..Len(served)
    BY <1>2, <1>3 DEF RingInv
  <2>2. queued[i] = served[i]
    BY <2>1 DEF RingInv
  <2> QED
    BY <1>3, <2>1, <2>2
<1>11. ASSUME NEW i \in 1..RingLen'
       PROVE  queued'[Len(served') + i] = buf'[(rtail' + i - 1) % RingSlots]
  <2>1. i \in Nat /\ i - 1 \in 0..RingSlots - 1 /\ rtail + (i - 1) = rtail' + i - 1
    BY <1>2, <1>7
  <2>2. (rtail' + i - 1) % RingSlots =
          IF rtail + (i - 1) < RingSlots THEN rtail + (i - 1) ELSE (rtail + (i - 1)) - RingSlots
    BY <1>1, <2>1, SlotsInUse
  <2>3. CASE i = RingLen + 1
    <3>1. (rtail' + i - 1) % RingSlots = rhead
      BY <1>2, <2>1, <2>2, <2>3
    <3>2. Len(served') + i = Len(queued) + 1
      BY SMTT(20), <1>2, <1>3, <2>3 DEF RingInv
    <3>3. buf'[rhead] = b
      BY <1>1 DEF RingTypes
    <3> QED
      BY <1>3, <3>1, <3>2, <3>3
  <2>4. CASE i # RingLen + 1
    <3>1. i \in 1..RingLen
      BY <1>2, <1>7, <2>4
    <3>2. (rtail' + i - 1) % RingSlots # rhead
      <4>1. CASE rtail + (i - 1) < RingSlots
        <5>1. rtail + (i - 1) # rhead
          BY <1>2, <2>1, <3>1, <4>1
        <5> QED
          BY <2>2, <4>1, <5>1
      <4>2. CASE ~(rtail + (i - 1) < RingSlots)
        <5>1. (rtail + (i - 1)) - RingSlots # rhead
          BY <1>2, <2>1, <3>1, <4>2
        <5> QED
          BY <2>2, <4>2, <5>1
      <4> QED
        BY <4>1, <4>2
    <3>3. queued[Len(served) + i] = buf[(rtail' + i - 1) % RingSlots]
      BY <3>1 DEF RingInv
    <3>4. Len(served) + i \in 1..Len(queued)
      BY <1>2, <1>3, <3>1 DEF RingInv
    <3>5. queued'[Len(served) + i] = queued[Len(served) + i]
      BY <1>3, <3>4
    <3>6. (rtail' + i - 1) % RingSlots \in 0..RingSlots - 1
      BY <1>2, <2>1, <2>2
    <3>7. buf'[(rtail' + i - 1) % RingSlots] = buf[(rtail' + i - 1) % RingSlots]
      BY <1>1, <3>2, <3>6 DEF RingTypes
    <3> QED
      BY <3>3, <3>5, <3>7
  <2> QED
    BY <2>3, <2>4
<1> QED
  BY <1>5, <1>8, <1>9, <1>10, <1>11 DEF RingInv

(* Advancing the tail serves the code that was read.                        *)
LEMMA AdvanceKeepsTheRing ==
  ASSUME RingInv, DequeueAdvance
  PROVE  RingInv'
<1>1. RingTypes
  BY DEF RingInv
<1>2. /\ deq # <<>> /\ rtail' = NextSlot(rtail) /\ served' = served \o deq /\ deq' = <<>>
      /\ UNCHANGED <<buf, rhead, queued>>
  BY DEF DequeueAdvance, engine
<1>3. rhead # rtail /\ deq = <<buf[rtail]>>
  BY <1>2 DEF RingInv
<1>4. /\ RingSlots \in Nat \ {0} /\ rhead \in Nat /\ rtail \in Nat
      /\ rhead < RingSlots /\ rtail < RingSlots
      /\ RingLen = IF rhead >= rtail THEN rhead - rtail ELSE rhead + RingSlots - rtail
      /\ RingLen \in 0..RingSlots - 1
      /\ rtail' = IF rtail = RingSlots - 1 THEN 0 ELSE rtail + 1
  <2>1. rtail \in 0..RingSlots - 1
    BY <1>1 DEF RingTypes
  <2>2. NextSlot(rtail) = IF rtail = RingSlots - 1 THEN 0 ELSE rtail + 1
    BY <1>1, <2>1, SlotsInUse
  <2> QED
    BY <1>1, <1>2, <2>2, SlotsInUse
<1>5. buf[rtail] \in Byte
  BY <1>1 DEF RingTypes
<1>6. /\ served \in Seq(Byte) /\ deq \in Seq(Byte) /\ Len(deq) = 1 /\ deq[1] = buf[rtail]
      /\ Len(served) \in Nat /\ Len(queued) \in Nat
  BY <1>1, <1>3, <1>5, LenProperties DEF RingTypes
<1>7. /\ served' \in Seq(Byte) /\ Len(served') = Len(served) + 1
      /\ \A i \in 1..Len(served) : served'[i] = served[i]
      /\ served'[Len(served) + 1] = buf[rtail]
  <2>1. /\ served \o deq \in Seq(Byte) /\ Len(served \o deq) = Len(served) + Len(deq)
        /\ \A i \in 1..Len(served) + Len(deq) : (served \o deq)[i] =
               IF i <= Len(served) THEN served[i] ELSE deq[i - Len(served)]
    BY <1>6, ConcatProperties
  <2>2. Len(served') = Len(served) + 1
    BY <1>2, <1>6, <2>1
  <2>3. \A i \in 1..Len(served) : served'[i] = served[i]
    BY <1>2, <1>6, <2>1
  <2>4. Len(served) + 1 \in 1..Len(served) + Len(deq) /\ (Len(served) + 1) - Len(served) = 1
    BY <1>6
  <2>5. served'[Len(served) + 1] = deq[1]
    BY <1>2, <1>6, <2>1, <2>4
  <2> QED
    BY <1>2, <1>6, <2>1, <2>2, <2>3, <2>5
<1>8. RingTypes'
  BY <1>1, <1>2, <1>4, <1>7 DEF RingTypes
<1>9. RingLen' = IF rhead' >= rtail' THEN rhead' - rtail' ELSE rhead' + RingSlots - rtail'
  <2> DEFINE x == rhead' + RingSlots - rtail'
  <2>1. x \in 0..2 * RingSlots - 1
    BY <1>2, <1>4
  <2>2. x % RingSlots = IF x < RingSlots THEN x ELSE x - RingSlots
    BY <1>4, <2>1, Wraps
  <2> QED
    BY <1>2, <1>4, <2>2 DEF RingLen
<1>10. RingLen' = RingLen - 1 /\ RingLen >= 1
  BY <1>2, <1>3, <1>4, <1>9
<1>11. Len(queued) = Len(served) + RingLen
  BY DEF RingInv
<1>12. Len(queued') = Len(served') + RingLen'
  <2>1. queued' = queued /\ Len(served') = Len(served) + 1 /\ RingLen' = RingLen - 1
    BY <1>2, <1>7, <1>10
  <2>2. RingLen \in Nat
    BY <1>4
  <2> QED
    BY <1>6, <1>11, <2>1, <2>2
<1>13. queued[Len(served) + 1] = buf[rtail]
  <2>1. 1 \in 1..RingLen /\ rtail + 1 - 1 = rtail
    BY <1>4, <1>10
  <2>2. queued[Len(served) + 1] = buf[rtail % RingSlots]
    BY <2>1 DEF RingInv
  <2>3. 0 \in 0..RingSlots - 1 /\ rtail + 0 = rtail
    BY <1>4
  <2>4. rtail % RingSlots = rtail
    BY <1>1, <1>4, <2>3, SlotsInUse
  <2> QED
    BY <2>2, <2>4
<1>14. ASSUME NEW i \in 1..Len(served') PROVE queued'[i] = served'[i]
  <2>1. CASE i = Len(served) + 1
    BY <1>2, <1>7, <1>13, <2>1
  <2>2. CASE i # Len(served) + 1
    <3>1. i \in 1..Len(served)
      BY <1>6, <1>7, <2>2
    <3>2. queued[i] = served[i]
      BY <3>1 DEF RingInv
    <3> QED
      BY <1>2, <1>7, <3>1, <3>2
  <2> QED
    BY <2>1, <2>2
<1>15. ASSUME NEW i \in 1..RingLen'
       PROVE  queued'[Len(served') + i] = buf'[(rtail' + i - 1) % RingSlots]
  <2>1. i \in Nat /\ i + 1 \in 1..RingLen /\ i \in 0..RingSlots - 1
    BY <1>4, <1>10
  <2>2. rtail + (i + 1) - 1 = rtail + i
    BY <1>4, <2>1
  <2>3. queued[Len(served) + (i + 1)] = buf[(rtail + i) % RingSlots]
    BY <2>1, <2>2 DEF RingInv
  <2>4. (rtail + i) % RingSlots =
          IF rtail + i < RingSlots THEN rtail + i ELSE rtail + i - RingSlots
    BY <1>1, <2>1, SlotsInUse
  <2> DEFINE y == rtail' + i - 1
  <2>5. y \in 0..2 * RingSlots - 1
    BY <1>4, <2>1
  <2>6. y % RingSlots = IF y < RingSlots THEN y ELSE y - RingSlots
    BY <1>4, <2>5, Wraps
  <2>7. y % RingSlots = (rtail + i) % RingSlots
    BY <1>4, <2>1, <2>4, <2>6
  <2>8. Len(served') + i = Len(served) + (i + 1)
    BY <1>6, <1>7, <2>1
  <2> QED
    BY <1>2, <2>3, <2>7, <2>8
<1> QED
  BY <1>2, <1>8, <1>12, <1>14, <1>15 DEF RingInv

(* Applying an event puts at most one byte in the ring.                     *)
LEMMA TakingKeepsTheRing ==
  ASSUME RingInv, NEW e \in Ev, Takes(e), UNCHANGED consumer
  PROVE  RingInv'
<1>1. UNCHANGED <<rtail, served, deq>>
  BY DEF consumer
<1>2. CASE UNCHANGED <<buf, rhead, queued>>
  BY <1>1, <1>2 DEF RingInv, RingTypes, RingLen
<1>3. CASE Apply(e) /\ e # Prefix /\ Enqueues(e)
  <2>1. e.code \in Byte
    BY DEF Ev
  <2>2. /\ NextSlot(rhead) # rtail /\ buf' = [buf EXCEPT ![rhead] = e.code]
        /\ rhead' = NextSlot(rhead) /\ queued' = Append(queued, e.code)
    BY <1>3 DEF Apply, Enqueues
  <2> QED
    BY <1>1, <2>1, <2>2, EnqueueKeepsTheRing
<1> QED
  BY <1>2, <1>3 DEF Takes, Apply

(* InputRingConserves: what was put in the input ring is what was dequeued, *)
(* followed by what is in the ring, in order, wherever between the read and *)
(* the advance of a dequeue the tick enqueues.                              *)
THEOREM InputRingLosesNothing == Spec => []InputRingConserves
<1>1. Init => RingInv
  <2> SUFFICES ASSUME Init PROVE RingInv
    OBVIOUS
  <2>1. /\ buf = [i \in 0..RingSlots - 1 |-> "e0"] /\ rhead = 0 /\ rtail = 0
        /\ deq = <<>> /\ queued = <<>> /\ served = <<>>
    BY DEF Init
  <2>2. RingSlots \in Nat \ {0}
    BY KeyboardAssumption
  <2>3. <<>> \in Seq(Byte) /\ Len(<<>>) = 0
    BY EmptySeq
  <2>4. queued \in Seq(Byte) /\ served \in Seq(Byte)
    BY <2>1, <2>3, Zenon
  <2>5. Len(queued) = 0 /\ Len(served) = 0
    BY <2>1, <2>3, Zenon
  <2>6. RingTypes
    BY <2>1, <2>2, <2>4 DEF RingTypes, Byte
  <2>7. RingLen = 0
    BY <2>1, <2>6, SlotsInUse
  <2> QED
    BY <2>1, <2>5, <2>6, <2>7 DEF RingInv
<1>2. KeyInv /\ RingInv /\ [Next]_vars => RingInv'
  <2> SUFFICES ASSUME KeyInv, RingInv, [Next]_vars PROVE RingInv'
    OBVIOUS
  <2>1. CASE SendKey \/ PushStore \/ PushBump \/ TickEnqueue \/ Quiet
    <3>1. UNCHANGED <<buf, rhead, rtail, queued, served, deq>>
      BY <2>1 DEF SendKey, PushStore, PushBump, TickEnqueue, Quiet, engine, consumer
    <3> QED
      BY <3>1 DEF RingInv, RingTypes, RingLen
  <2>2. CASE Pop
    <3>1. Head(queue) \in Ev
      BY <2>2, HeadTailProperties DEF Pop, KeyInv, KeyTypes
    <3> QED
      BY <2>2, <3>1, TakingKeepsTheRing DEF Pop
  <2>3. CASE TickApply
    <3>1. RingByte \in Ev
      BY RingByteIsAnEvent DEF KeyInv
    <3>2. Takes(RingByte) /\ UNCHANGED consumer
      BY <2>3 DEF TickApply, ApplyFiltered, Takes
    <3> QED
      BY <3>1, <3>2, TakingKeepsTheRing
  <2>4. CASE DequeueRead
    <3>1. /\ rhead # rtail /\ deq' = <<buf[rtail]>>
          /\ UNCHANGED <<buf, rhead, rtail, queued, served>>
      BY <2>4 DEF DequeueRead, engine
    <3> QED
      BY <3>1 DEF RingInv, RingTypes, RingLen
  <2>5. CASE DequeueAdvance
    BY <2>5, AdvanceKeepsTheRing
  <2> QED
    BY <2>1, <2>2, <2>3, <2>4, <2>5, KindsOfStep
<1>3. RingInv => InputRingConserves
  <2> SUFFICES ASSUME RingInv PROVE queued = served \o InRing
    BY DEF InputRingConserves
  <2>1. RingTypes
    BY DEF RingInv
  <2>2. RingSlots \in Nat \ {0} /\ rtail \in Nat /\ RingLen \in Nat
    BY <2>1, SlotsInUse
  <2>3. ASSUME NEW i \in 1..RingLen PROVE buf[(rtail + i - 1) % RingSlots] \in Byte
    <3>1. rtail + i - 1 \in Int
      BY <2>2
    <3>2. (rtail + i - 1) % RingSlots \in 0..RingSlots - 1
      BY <2>2, <3>1, SlotOfIndex
    <3> QED
      BY <2>1, <3>2 DEF RingTypes
  <2>4. InRing \in [1..RingLen -> Byte] /\ DOMAIN InRing = 1..RingLen
    BY <2>3 DEF InRing
  <2>5. InRing \in Seq(Byte)
    BY <2>2, <2>4, SeqDef
  <2>6. Len(InRing) = RingLen
    <3>1. Len(InRing) \in Nat /\ DOMAIN InRing = 1..Len(InRing)
      BY <2>5, LenProperties
    <3> QED
      BY <2>2, <2>4, <3>1
  <2>7. /\ served \in Seq(Byte) /\ queued \in Seq(Byte) /\ Len(served) \in Nat
        /\ Len(queued) = Len(served) + RingLen
    BY <2>1, LenProperties DEF RingTypes, RingInv
  <2>8. /\ served \o InRing \in Seq(Byte)
        /\ Len(served \o InRing) = Len(served) + Len(InRing)
        /\ \A i \in 1..Len(served) + Len(InRing) : (served \o InRing)[i] =
               IF i <= Len(served) THEN served[i] ELSE InRing[i - Len(served)]
    BY <2>5, <2>7, ConcatProperties
  <2>9. Len(served) + Len(InRing) = Len(queued)
    BY <2>6, <2>7
  <2>10. ASSUME NEW i \in 1..Len(queued) PROVE queued[i] = (served \o InRing)[i]
    <3>1. CASE i <= Len(served)
      <4>1. i \in 1..Len(served) /\ (served \o InRing)[i] = served[i]
        BY <2>7, <2>8, <2>9, <3>1
      <4> QED
        BY <4>1 DEF RingInv
    <3>2. CASE i > Len(served)
      <4>1. i - Len(served) \in 1..RingLen /\ Len(served) + (i - Len(served)) = i
        BY <2>2, <2>7, <3>2
      <4>2. (served \o InRing)[i] = InRing[i - Len(served)]
        BY <2>7, <2>8, <2>9, <3>2
      <4>3. InRing[i - Len(served)] = buf[(rtail + (i - Len(served)) - 1) % RingSlots]
        BY <4>1 DEF InRing
      <4>4. queued[i] = buf[(rtail + (i - Len(served)) - 1) % RingSlots]
        BY <4>1 DEF RingInv
      <4> QED
        BY <4>2, <4>3, <4>4
    <3>3. i <= Len(served) \/ i > Len(served)
      BY <2>7
    <3> QED
      BY <3>1, <3>2, <3>3
  <2> QED
    BY <2>7, <2>8, <2>9, <2>10, SeqEqual
<1> QED
  BY <1>1, <1>2, <1>3, KeyboardInvariant, PTL DEF Spec

-----------------------------------------------------------------------------
(* The motion of the mouse.                                                *)

\* What either side holds of the motion counter is a number.
MotionType ==
  /\ dx \in Int /\ added \in Int /\ given \in Int /\ stale \in BOOLEAN
  /\ view \in [pc : {"idle", "loaded"}, old : Int, step : Int]
  /\ game \in [pc : {"idle", "read", "loaded"}, dx : Int, old : Int]

\* Whole turns of the motion register.
Turns(n) == \E q \in Int : n = q * (2 * Half)

MotionInv == MotionType /\ (~stale => Turns(added - given - dx))

(* A turn is a positive number.                                             *)
LEMMA TurnIsPositive == Half \in Nat \ {0} /\ 2 * Half \in Nat \ {0}
<1>1. Half \in Nat \ {0}
  BY MouseAssumption
<1> QED
  BY <1>1

(* A number is so many whole turns of length T exactly when the remainder   *)
(* modulo T is zero.                                                        *)
LEMMA MultiplesHaveNoRemainder ==
  ASSUME NEW T \in Nat \ {0}, NEW n \in Int
  PROVE  /\ n \div T \in Int /\ n % T \in 0..T - 1 /\ n = (n \div T) * T + (n % T)
         /\ (\E q \in Int : n = q * T) <=> n % T = 0
<1>1. n \div T \in Int /\ n % T \in 0..T - 1 /\ n = (n \div T) * T + (n % T)
  OBVIOUS
<1>2. ASSUME NEW q \in Int, n = q * T PROVE n % T = 0
  <2> DEFINE d == q - (n \div T)
  <2>1. d \in Int /\ n % T = d * T
    BY <1>1, <1>2
  <2> HIDE DEF d
  <2>2. d >= 1 => d * T >= T
    BY <2>1
  <2>3. d <= -1 => d * T <= -T
    BY <2>1
  <2>4. d = 0
    BY <1>1, <2>1, <2>2, <2>3
  <2>5. 0 * T = 0
    OBVIOUS
  <2> QED
    BY <2>1, <2>4, <2>5
<1>3. n % T = 0 => n = (n \div T) * T
  BY <1>1
<1> QED
  BY <1>1, <1>2, <1>3

(* A number is so many turns exactly when it is none modulo a turn.         *)
LEMMA TurnsAreNoMotion ==
  ASSUME NEW n \in Int
  PROVE  Turns(n) <=> n % (2 * Half) = 0
BY TurnIsPositive, MultiplesHaveNoRemainder DEF Turns

(* What the engine gets of a poll differs from it by whole turns.           *)
LEMMA PollIsExactUpToTurns ==
  ASSUME NEW n \in Int
  PROVE  SignExtended(n) \in Int /\ Turns(n - SignExtended(n))
<1> DEFINE T == 2 * Half
           m == n + Half
<1>1. T \in Nat \ {0} /\ m \in Int /\ Half \in Nat
  BY TurnIsPositive
<1>2. SignExtended(n) = (m % T) - Half
  BY DEF SignExtended
<1>3. n = m - Half
  BY <1>1
<1> HIDE DEF T, m
<1>4. m \div T \in Int /\ m % T \in Int /\ m = (m \div T) * T + (m % T)
  BY <1>1, MultiplesHaveNoRemainder
<1>5. (m \div T) * T \in Int
  BY <1>1, <1>4
<1>6. n - SignExtended(n) = (m \div T) * T
  BY <1>1, <1>2, <1>3, <1>4, <1>5
<1>7. SignExtended(n) \in Int
  BY <1>1, <1>2, <1>4
<1> QED
  BY <1>4, <1>6, <1>7 DEF Turns, T

(* Turns add up.                                                            *)
LEMMA TurnsAddUp ==
  ASSUME NEW a \in Int, NEW b \in Int, Turns(a), Turns(b)
  PROVE  Turns(a + b)
<1>1. PICK q \in Int, r \in Int : a = q * (2 * Half) /\ b = r * (2 * Half)
  BY DEF Turns
<1>2. a + b = (q + r) * (2 * Half) /\ q + r \in Int
  BY <1>1, TurnIsPositive
<1> QED
  BY <1>2 DEF Turns

(* Every step of either side keeps the motion accounted for.                *)
LEMMA StepsKeepMotion ==
  ASSUME MotionInv, [MouseNext]_mouseVars
  PROVE  MotionInv'
<1> USE DEF MotionInv
<1>0. /\ dx \in Int /\ added \in Int /\ given \in Int /\ stale \in BOOLEAN
      /\ view.old \in Int /\ view.step \in Int /\ view.pc \in {"idle", "loaded"}
      /\ game.old \in Int /\ game.dx \in Int
  BY DEF MotionType
<1>1. CASE ViewLoad
  <2>1. PICK s \in Steps : view' = [pc |-> "loaded", old |-> dx, step |-> s]
    BY <1>1 DEF ViewLoad
  <2>2. s \in Int
    BY MouseAssumption
  <2>3. UNCHANGED <<dx, game, added, given, stale>>
    BY <1>1 DEF ViewLoad
  <2>4. MotionType'
    BY <1>0, <2>1, <2>2, <2>3 DEF MotionType
  <2> QED
    BY <2>3, <2>4 DEF Turns
<1>2. CASE ViewStore
  <2>1. /\ dx' = view.old + view.step /\ added' = added + view.step
        /\ stale' = (stale \/ dx # view.old) /\ UNCHANGED <<game, given>>
        /\ view' = [pc |-> "idle", old |-> 0, step |-> 0]
    BY <1>2 DEF ViewStore
  <2>2. MotionType'
    BY <1>0, <2>1 DEF MotionType
  <2>3. ASSUME ~stale' PROVE added' - given' - dx' = added - given - dx /\ ~stale
    <3>1. ~stale /\ dx = view.old
      BY <2>1, <2>3
    <3> QED
      BY <1>0, <2>1, <3>1
  <2> QED
    BY <2>2, <2>3 DEF Turns
<1>3. CASE GameRead
  <2>1. game' = [pc |-> "read", dx |-> dx, old |-> 0] /\ UNCHANGED <<dx, view, added, given, stale>>
    BY <1>3 DEF GameRead
  <2>2. MotionType'
    BY <1>0, <2>1 DEF MotionType
  <2> QED
    BY <2>1, <2>2 DEF Turns
<1>4. CASE GameLoad
  <2>1. /\ game' = [game EXCEPT !.pc = "loaded", !.old = dx]
        /\ UNCHANGED <<dx, view, added, given, stale>>
    BY <1>4 DEF GameLoad
  <2>2. game' = [pc |-> "loaded", dx |-> game.dx, old |-> dx]
    BY <2>1 DEF MotionType
  <2>3. MotionType'
    BY <1>0, <2>1, <2>2 DEF MotionType
  <2> QED
    BY <2>1, <2>3 DEF Turns
<1>5. CASE GameStore
  <2>1. /\ dx' = game.old - game.dx /\ given' = given + SignExtended(game.dx)
        /\ stale' = (stale \/ dx # game.old) /\ UNCHANGED <<view, added>>
        /\ game' = [pc |-> "idle", dx |-> 0, old |-> 0]
    BY <1>5 DEF GameStore
  <2>2. SignExtended(game.dx) \in Int /\ Turns(game.dx - SignExtended(game.dx))
    BY <1>0, PollIsExactUpToTurns
  <2>3. MotionType'
    BY <1>0, <2>1, <2>2 DEF MotionType
  <2>4. ASSUME ~stale' PROVE Turns(added' - given' - dx')
    <3>1. ~stale /\ dx = game.old
      BY <2>1, <2>4
    <3>2. added' - given' - dx' = (added - given - dx) + (game.dx - SignExtended(game.dx))
      BY <1>0, <2>1, <2>2, <3>1
    <3>3. added - given - dx \in Int /\ game.dx - SignExtended(game.dx) \in Int
      BY <1>0, <2>2
    <3>4. Turns(added - given - dx)
      BY <3>1
    <3>5. Turns((added - given - dx) + (game.dx - SignExtended(game.dx)))
      BY <2>2, <3>3, <3>4, TurnsAddUp
    <3> QED
      BY <3>2, <3>5
  <2> QED
    BY <2>3, <2>4 DEF Turns
<1>6. CASE Press \/ LetGo \/ ToggleSwap \/ PollButtons \/ UNCHANGED mouseVars
  <2>1. UNCHANGED <<dx, view, game, added, given, stale>>
    BY <1>6 DEF Press, LetGo, ToggleSwap, PollButtons, motion, mouseVars
  <2> QED
    BY <2>1 DEF MotionType, Turns
<1> QED
  BY <1>1, <1>2, <1>3, <1>4, <1>5, <1>6 DEF MouseNext

(* UncontendedMotionIsExact: the motion that the window stored is what the  *)
(* engine received and what is still in the register, up to whole turns of  *)
(* it, however the event's += and the poll's two loads fall.                *)
THEOREM UncontendedMotionArrives == MouseSpec => []UncontendedMotionIsExact
<1>1. MouseInit => MotionInv
  <2> SUFFICES ASSUME MouseInit PROVE MotionInv
    OBVIOUS
  <2>1. MotionType
    <3>1. /\ dx = 0 /\ added = 0 /\ given = 0 /\ stale = FALSE
          /\ view = [pc |-> "idle", old |-> 0, step |-> 0]
          /\ game = [pc |-> "idle", dx |-> 0, old |-> 0]
      BY DEF MouseInit
    <3>2. view \in [pc : {"idle", "loaded"}, old : Int, step : Int]
      BY <3>1
    <3>3. game \in [pc : {"idle", "read", "loaded"}, dx : Int, old : Int]
      BY <3>1
    <3> QED
      BY <3>1, <3>2, <3>3 DEF MotionType
  <2>2. added - given - dx = 0 /\ 0 = 0 * (2 * Half)
    BY TurnIsPositive DEF MouseInit
  <2> QED
    BY <2>1, <2>2 DEF MotionInv, Turns
<1>2. MotionInv /\ [MouseNext]_mouseVars => MotionInv'
  BY StepsKeepMotion
<1>3. MotionInv => UncontendedMotionIsExact
  <2>1. MotionInv => added - given - dx \in Int
    BY DEF MotionInv, MotionType
  <2> QED
    BY <2>1, TurnsAreNoMotion DEF MotionInv, UncontendedMotionIsExact
<1> QED
  BY <1>1, <1>2, <1>3, PTL DEF MouseSpec

-----------------------------------------------------------------------------
(* The buttons.                                                             *)

\* How many clicks the next poll would report, and where they come from.
Edge(b) == IF b \in Polled /\ b \notin prev THEN 1 ELSE 0
ClickInv ==
  /\ buttons \subseteq {"left", "right"} /\ prev \subseteq {"primary", "secondary"}
  /\ swap \in BOOLEAN /\ presses \in Nat /\ toggles \in Nat /\ clicks \in Nat
  /\ clicks + Edge("primary") + Edge("secondary") <= presses + toggles

(* The edges of a poll, counted.                                            *)
LEMMA EdgesAreCounted ==
  Cardinality(Polled \ prev) = Edge("primary") + Edge("secondary")
<1> DEFINE S == Polled \ prev
<1>1. Polled \subseteq {"primary", "secondary"}
  BY DEF Polled
<1>2. CASE "primary" \in S /\ "secondary" \in S
  <2>1. S = {"primary"} \cup {"secondary"}
    BY <1>1, <1>2
  <2>2. Cardinality({"primary"}) = 1 /\ IsFiniteSet({"primary"})
    BY FS_Singleton
  <2>3. Cardinality({"primary"} \cup {"secondary"}) = Cardinality({"primary"}) + 1
    BY <2>2, FS_AddElement
  <2>4. Edge("primary") = 1 /\ Edge("secondary") = 1
    BY <1>2 DEF Edge
  <2> QED
    BY <2>1, <2>2, <2>3, <2>4
<1>3. CASE "primary" \in S /\ "secondary" \notin S
  <2>1. S = {"primary"}
    BY <1>1, <1>3
  <2>2. Edge("primary") = 1 /\ Edge("secondary") = 0
    BY <1>3 DEF Edge
  <2>3. Cardinality({"primary"}) = 1
    BY FS_Singleton
  <2> QED
    BY <2>1, <2>2, <2>3
<1>4. CASE "primary" \notin S /\ "secondary" \in S
  <2>1. S = {"secondary"}
    BY <1>1, <1>4
  <2>2. Edge("primary") = 0 /\ Edge("secondary") = 1
    BY <1>4 DEF Edge
  <2>3. Cardinality({"secondary"}) = 1
    BY FS_Singleton
  <2> QED
    BY <2>1, <2>2, <2>3
<1>5. CASE "primary" \notin S /\ "secondary" \notin S
  <2>1. S = {}
    BY <1>1, <1>5
  <2>2. Edge("primary") = 0 /\ Edge("secondary") = 0
    BY <1>5 DEF Edge
  <2> QED
    BY <2>1, <2>2, FS_EmptySet
<1> QED
  BY <1>2, <1>3, <1>4, <1>5

(* Every press, release, toggle and poll keeps the clicks accounted for.    *)
LEMMA StepsKeepClicks ==
  ASSUME ClickInv, [MouseNext]_mouseVars
  PROVE  ClickInv'
<1> USE DEF ClickInv, Edge, Polled
<1>1. CASE Press
  <2>1. PICK b \in {"left", "right"} \ buttons :
          buttons' = buttons \cup {b} /\ presses' = presses + 1
          /\ UNCHANGED <<prev, swap, toggles, clicks>>
    BY <1>1 DEF Press
  <2> QED
    BY <2>1
<1>2. CASE LetGo
  <2>1. PICK b \in buttons :
          buttons' = buttons \ {b} /\ UNCHANGED <<prev, swap, presses, toggles, clicks>>
    BY <1>2 DEF LetGo
  <2> QED
    BY <2>1
<1>3. CASE ToggleSwap
  BY <1>3 DEF ToggleSwap
<1>4. CASE PollButtons
  <2>1. clicks' = clicks + Edge("primary") + Edge("secondary")
    BY <1>4, EdgesAreCounted DEF PollButtons
  <2>2. Edge("primary")' = 0 /\ Edge("secondary")' = 0
    BY <1>4 DEF PollButtons
  <2>3. prev' \subseteq {"primary", "secondary"}
    BY <1>4 DEF PollButtons
  <2> QED
    BY <1>4, <2>1, <2>2, <2>3 DEF PollButtons
<1>5. CASE ViewLoad \/ ViewStore \/ GameRead \/ GameLoad \/ GameStore \/ UNCHANGED mouseVars
  <2>1. UNCHANGED <<buttons, prev, swap, presses, toggles, clicks>>
    BY <1>5 DEF ViewLoad, ViewStore, GameRead, GameLoad, GameStore, mouseVars, clicking
  <2> QED
    BY <2>1
<1> QED
  BY <1>1, <1>2, <1>3, <1>4, <1>5 DEF MouseNext

(* ClicksComeFromPresses: poll_mouse_input reports no more clicks than there*)
(* were presses and toggles of the swap, however often it polls.            *)
THEOREM NoClickWithoutAPress == MouseSpec => []ClicksComeFromPresses
<1>1. MouseInit => ClickInv
  BY DEF MouseInit, ClickInv, Edge, Polled
<1>2. ClickInv /\ [MouseNext]_mouseVars => ClickInv'
  BY StepsKeepClicks
<1>3. ClickInv => ClicksComeFromPresses
  BY DEF ClickInv, Edge, ClicksComeFromPresses
<1> QED
  BY <1>1, <1>2, <1>3, PTL DEF MouseSpec
=============================================================================
