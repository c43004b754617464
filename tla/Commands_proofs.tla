-------------------------- MODULE Commands_proofs --------------------------
(***************************************************************************)
(* The command interpreter keeps its promises, in every level and for      *)
(* every size of the deferred queue and of the pool of effects.            *)
(***************************************************************************)
EXTENDS CommandWorld, SequenceTheorems, FiniteSetTheorems, TLAPS

-----------------------------------------------------------------------------
(* The inductive invariant.                                                 *)

\* What may stand on the stack.  A loop that waits is at the record whose
\* handler called; a loop or a chain may be at no record (0).  Walks count the
\* places of a list.
Calls ==
  [do: Loops \cup {"reset", "process", "drain", "world", "failed", "counted"},
   at: 0..Len(level), back: {FALSE}]
  \cup [do: Loops, at: Rec, back: {TRUE}]
  \cup [do: {"told", "talked", "finish", "modified"}, at: Rec, back: {FALSE}]
  \cup [do: {"walk", "timers"}, at: Nat, back: {FALSE}]

Listed == [rec: Rec, left: Int]
Deferred == [at: 0..Len(level), served: BOOLEAN]

LevelType == level \in Levels /\ level \in Seq(RecordType(Len(level)))
BitsType == skipped \subseteq Rec /\ armed \subseteq Rec /\ kept \subseteq Reruns(level)
ListsType ==
  /\ effects \in Seq(Listed) /\ Len(effects) <= EffectCap
  /\ timers \in Seq(Listed) /\ misplaced \subseteq Rec
QueueType == front \in Seq(Deferred) /\ Len(front) <= QueueCap
ChainType ==
  /\ interrupt \in 0..2 /\ saved \in 0..Len(level) /\ nextActive \in 0..Len(level)
  /\ pending \in Of("latch") \cup {0} /\ head \in Rec \cup {0}
  /\ acted \in BOOLEAN /\ picked \in BOOLEAN /\ promise \in 0..Len(level)
  /\ count \in [Rec -> Int] /\ step \in Int
TypeOK == /\ LevelType /\ BitsType /\ ListsType /\ QueueType /\ ChainType
          /\ agenda \in Seq(Calls)

\* An inline chain, and what a failure still has to do, return to a loop that
\* waits for them; the rest of a tick is at the bottom.
Nested(s) ==
  \A i \in DOMAIN s :
    /\ s[i].do \in {"inner", "failed"} =>
         i < Len(s) /\ s[i + 1].do \in Loops /\ s[i + 1].back
    /\ s[i].do = "world" => i = Len(s)

\* A chain that is owed is named by `saved`, and every loop between here and
\* the trigger's is about to end with the interrupt set.
DebtIsDue ==
  promise # 0 =>
    /\ ~Idle /\ saved = promise
    /\ \/ Top.do \in {"reset", "failed"}
       \/ Top.do = "told" /\ Len(agenda) > 1 /\ agenda[2].do = "failed"
       \/ Top.do \in Loops /\ interrupt = 2 /\ (Top.back \/ Top.at = 0)

ServedAreAwaited == (\E i \in DOMAIN front : front[i].served) => Served

\* While messages run no chains, nothing comes between a Count that is still
\* counting and the Modify Count that asks whether it is.
PlainMessages == \A m \in Of("latch") : level[m].arg = 0
CountingIsKnown ==
  PlainMessages =>
    \A i \in DOMAIN agenda : agenda[i].do = "modified" =>
      /\ interrupt # 0
      /\ i = 1 \/ (i = 2 /\ agenda[1].do = "told")

CommandInv == /\ TypeOK /\ Nested(agenda) /\ DebtIsDue /\ ServedAreAwaited
              /\ CountingIsKnown /\ ArmedRecordsHaveOneEffect

-----------------------------------------------------------------------------
(* The table of the level.                                                  *)

(* Every record names records of the table, or none.                        *)
LEMMA RecordFields ==
  ASSUME LevelType
  PROVE  /\ Len(level) \in Nat /\ Rec = 1..Len(level) /\ 0 \notin Rec
         /\ \A r \in Rec :
              /\ r \in 0..Len(level) /\ r # 0 /\ r \in Nat
              /\ level[r].next \in 0..Len(level) /\ level[r].arg \in 0..Len(level)
              /\ level[r].arg # 0 => level[r].arg \in Rec
              /\ level[r].len \in Int /\ level[r].base \in Bases
              /\ level[r].once \in BOOLEAN /\ level[r].multi \in BOOLEAN
              /\ level[r].authored \in BOOLEAN
<1>1. level \in Seq(RecordType(Len(level))) /\ Len(level) \in Nat
  BY DEF LevelType
<1>2. Rec = 1..Len(level)
  BY <1>1 DEF Rec
<1>3. \A r \in Rec : level[r] \in RecordType(Len(level))
  BY <1>1, <1>2
<1> QED
  BY <1>1, <1>2, <1>3 DEF RecordType

(* What a stack may hold depends on the level alone.                        *)
LEMMA SameCalls ==
  ASSUME level' = level
  PROVE  /\ Calls' = Calls /\ Rec' = Rec /\ Listed' = Listed /\ Deferred' = Deferred
         /\ \A b : Of(b)' = Of(b)
  BY DEF Calls, Rec, Listed, Deferred, Of

-----------------------------------------------------------------------------
(* The stack: a step replaces its top by the calls p, none of them if it     *)
(* returns.                                                                 *)

(* What is left of a sequence, and what stands on it.                       *)
LEMMA Replaced ==
  ASSUME NEW S, NEW a \in Seq(S), a # <<>>, NEW p \in Seq(S)
  PROVE  LET b == p \o Tail(a) IN
         /\ Head(a) = a[1] /\ a[1] \in S /\ Len(a) \in Nat /\ Len(a) >= 1
         /\ Tail(a) \in Seq(S) /\ b \in Seq(S)
         /\ Len(p) \in Nat /\ Len(b) = Len(p) + Len(a) - 1
         /\ DOMAIN b = 1..Len(b) /\ DOMAIN a = 1..Len(a) /\ DOMAIN p = 1..Len(p)
         /\ \A i \in 1..Len(p) : b[i] = p[i]
         /\ \A i \in 2..Len(a) : b[Len(p) + i - 1] = a[i]
<1>1. /\ Len(a) \in Nat /\ Len(a) >= 1 /\ Head(a) = a[1] /\ a[1] \in S
      /\ Tail(a) \in Seq(S) /\ Len(Tail(a)) = Len(a) - 1
      /\ \A i \in 1..Len(a) - 1 : Tail(a)[i] = a[i + 1]
  BY HeadTailProperties, ElementOfSeq
<1>2. /\ p \o Tail(a) \in Seq(S) /\ Len(p \o Tail(a)) = Len(p) + Len(Tail(a))
      /\ \A i \in 1..Len(p) + Len(Tail(a)) :
           (p \o Tail(a))[i] = IF i <= Len(p) THEN p[i] ELSE Tail(a)[i - Len(p)]
  BY <1>1, ConcatProperties
<1>3. Len(p) \in Nat /\ DOMAIN p = 1..Len(p)
  OBVIOUS
<1>4. ASSUME NEW i \in 2..Len(a) PROVE (p \o Tail(a))[Len(p) + i - 1] = a[i]
  BY <1>1, <1>2, <1>3
<1> QED
  BY <1>1, <1>2, <1>3, <1>4

\* The calls p may replace the top: each inline chain and each failure among
\* them stands on a loop that waits, and only what was at the bottom is.
Fits(p) ==
  /\ p \in Seq(Calls)
  /\ \A i \in 1..Len(p) - 1 :
       /\ p[i].do # "world"
       /\ p[i].do \in {"inner", "failed"} => p[i + 1].do \in Loops /\ p[i + 1].back
  /\ Len(p) > 0 => p[Len(p)].do \notin {"inner", "failed", "world"} \/ p[Len(p)].do = Top.do

Replaces(p) == ~Idle /\ agenda' = p \o Tail(agenda) /\ level' = level

(* Such a step keeps the stack in order, and whoever waits below.           *)
LEMMA StackKeeps ==
  ASSUME CommandInv, NEW p, Replaces(p), Fits(p)
  PROVE  /\ (agenda \in Seq(Calls))' /\ Nested(agenda)'
         /\ Top = agenda[1] /\ Top \in Calls
         /\ Served /\ Top.do # "process" => Served'
         /\ /\ Top.do \notin {"told", "modified"}
            /\ \A i \in 1..Len(p) : p[i].do # "modified"
            => CountingIsKnown'
         /\ p # <<>> => ~Idle' /\ Top' = p[1]
         /\ p = <<>> /\ Len(agenda) > 1 => ~Idle' /\ Top' = agenda[2]
<1> DEFINE b == p \o Tail(agenda)
<1>1. agenda \in Seq(Calls) /\ agenda # <<>> /\ p \in Seq(Calls) /\ Nested(agenda)
  BY DEF CommandInv, TypeOK, Idle, Replaces, Fits
<1>2. /\ Top = agenda[1] /\ Top \in Calls /\ Len(agenda) \in Nat /\ Len(agenda) >= 1
      /\ b \in Seq(Calls)
      /\ Len(p) \in Nat /\ Len(b) = Len(p) + Len(agenda) - 1
      /\ DOMAIN b = 1..Len(b) /\ DOMAIN agenda = 1..Len(agenda)
      /\ \A i \in 1..Len(p) : b[i] = p[i]
      /\ \A i \in 2..Len(agenda) : b[Len(p) + i - 1] = agenda[i]
  BY <1>1, Replaced DEF Top
<1>3. agenda' = b /\ level' = level
  BY DEF Replaces
<1> HIDE DEF b
<1>0. Len(agenda) \in Nat /\ Len(p) \in Nat /\ Len(b) = Len(p) + Len(agenda) - 1
  BY <1>2
<1>4. ASSUME NEW i \in 1..Len(b)
      PROVE  \/ i \in 1..Len(p)
             \/ i > Len(p) /\ i - Len(p) + 1 \in 2..Len(agenda) /\ b[i] = agenda[i - Len(p) + 1]
  <2> DEFINE j == i - Len(p) + 1
  <2>1. CASE i > Len(p)
    <3>1. j \in 2..Len(agenda) /\ Len(p) + j - 1 = i
      BY <1>0, <2>1
    <3>2. b[Len(p) + j - 1] = agenda[j]
      BY <1>2, <3>1
    <3> QED
      BY <2>1, <3>1, <3>2
  <2>2. CASE ~(i > Len(p))
    BY <1>2, <2>2
  <2> QED
    BY <2>1, <2>2
<1>5. Nested(b)
  <2> SUFFICES ASSUME NEW i \in 1..Len(b)
               PROVE  /\ b[i].do \in {"inner", "failed"} =>
                           i < Len(b) /\ b[i + 1].do \in Loops /\ b[i + 1].back
                      /\ b[i].do = "world" => i = Len(b)
    BY <1>2 DEF Nested
  <2>1. CASE i \in 1..Len(p) /\ i # Len(p)
    BY <1>2, <2>1 DEF Fits
  <2>2. CASE i = Len(p) /\ p[i].do \notin {"inner", "failed", "world"}
    BY <1>2, <2>2
  <2>3. CASE i = Len(p) /\ p[i].do = Top.do
    <3>1. /\ Top.do \in {"inner", "failed"} =>
               1 < Len(agenda) /\ agenda[2].do \in Loops /\ agenda[2].back
          /\ Top.do = "world" => 1 = Len(agenda)
      <4>1. 1 \in DOMAIN agenda
        BY <1>2
      <4>2. /\ agenda[1].do \in {"inner", "failed"} =>
                 1 < Len(agenda) /\ agenda[1 + 1].do \in Loops /\ agenda[1 + 1].back
            /\ agenda[1].do = "world" => 1 = Len(agenda)
        BY <1>1, <4>1 DEF Nested
      <4> QED
        BY <1>2, <4>2
    <3>2. ASSUME Len(agenda) > 1 PROVE b[i + 1] = agenda[2] /\ i < Len(b)
      <4>1. 2 \in 2..Len(agenda) /\ Len(p) + 2 - 1 = i + 1
        BY <1>2, <2>3, <3>2
      <4> QED
        BY <1>2, <2>3, <3>2, <4>1
    <3>3. b[i] = p[i] /\ (Len(agenda) = 1 => i = Len(b))
      BY <1>2, <2>3
    <3> QED
      BY <1>2, <2>3, <3>1, <3>2, <3>3
  <2>4. CASE i \notin 1..Len(p)
    <3>1. PICK j \in 2..Len(agenda) : j = i - Len(p) + 1 /\ b[i] = agenda[j]
      BY <1>4, <2>4
    <3>2. /\ agenda[j].do \in {"inner", "failed"} =>
               j < Len(agenda) /\ agenda[j + 1].do \in Loops /\ agenda[j + 1].back
          /\ agenda[j].do = "world" => j = Len(agenda)
      <4>1. j \in DOMAIN agenda
        BY <1>2
      <4> QED
        BY <1>1, <4>1 DEF Nested
    <3>3. ASSUME j < Len(agenda) PROVE i < Len(b) /\ b[i + 1] = agenda[j + 1]
      <4>1. j + 1 \in 2..Len(agenda) /\ Len(p) + (j + 1) - 1 = i + 1 /\ i < Len(b)
        BY <1>0, <3>1, <3>3
      <4>2. b[Len(p) + (j + 1) - 1] = agenda[j + 1]
        BY <1>2, <4>1
      <4> QED
        BY <4>1, <4>2
    <3>4. j = Len(agenda) => i = Len(b)
      BY <1>0, <3>1
    <3> QED
      BY <3>1, <3>2, <3>3, <3>4
  <2> QED
    BY <2>1, <2>2, <2>3, <2>4 DEF Fits
<1>6. (agenda \in Seq(Calls))' /\ Nested(agenda)'
  BY <1>2, <1>3, <1>5, SameCalls DEF Nested
<1>7. Served /\ Top.do # "process" => Served'
  <2> SUFFICES ASSUME Served, Top.do # "process" PROVE Served'
    OBVIOUS
  <2>1. PICK i \in 2..Len(agenda) : agenda[i].do = "process"
    BY <1>2 DEF Served
  <2>2. Len(p) + i - 1 \in 1..Len(b) /\ b[Len(p) + i - 1].do = "process"
    BY <1>2, <2>1
  <2> QED
    BY <1>2, <1>3, <2>2 DEF Served
<1>8. ASSUME Top.do \notin {"told", "modified"}, \A i \in 1..Len(p) : p[i].do # "modified"
      PROVE  CountingIsKnown'
  <2>1. PlainMessages' => PlainMessages
    BY <1>3, SameCalls DEF PlainMessages
  <2> SUFFICES ASSUME PlainMessages PROVE \A i \in 1..Len(b) : b[i].do # "modified"
    BY <1>2, <1>3, <2>1 DEF CountingIsKnown
  <2>2. \A i \in 1..Len(agenda) : agenda[i].do # "modified"
    BY <1>2, <1>8 DEF CommandInv, CountingIsKnown
  <2>3. \A i \in 2..Len(agenda) : agenda[i].do # "modified"
    BY <1>2, <2>2
  <2>4. ASSUME NEW i \in 1..Len(b) PROVE b[i].do # "modified"
    <3>1. CASE i \in 1..Len(p)
      BY <1>2, <1>8, <3>1
    <3>2. CASE i - Len(p) + 1 \in 2..Len(agenda) /\ b[i] = agenda[i - Len(p) + 1]
      BY <2>3, <3>2
    <3> QED
      BY <1>4, <3>1, <3>2
  <2> QED
    BY <2>4
<1>9. /\ p # <<>> => ~Idle' /\ Top' = p[1]
      /\ p = <<>> /\ Len(agenda) > 1 => ~Idle' /\ Top' = agenda[2]
  <2>1. b # <<>> => Head(b) = b[1]
    BY <1>2
  <2>2. p # <<>> => Len(p) > 0
    BY <1>1
  <2>3. p = <<>> => Len(p) = 0
    BY <1>1
  <2> QED
    BY <1>2, <1>3, <2>1, <2>2, <2>3 DEF Idle, Top
<1> QED
  BY <1>2, <1>6, <1>7, <1>8, <1>9

(* Nothing is owed while a record is dispatched, a list is walked or the      *)
(* queue is drained.                                                        *)
LEMMA NoDebt ==
  ASSUME CommandInv,
         \/ Idle
         \/ ~Idle /\ Top.do \in Loops /\ ~Top.back /\ Top.at # 0
         \/ ~Idle /\ Top.do \notin Loops \cup {"reset", "failed", "told"}
         \/ ~Idle /\ Top.do = "told" /\ ~(Len(agenda) > 1 /\ agenda[2].do = "failed")
  PROVE  promise = 0
  BY DEF CommandInv, DebtIsDue, Loops

(* What does not change the lists leaves every armed record its effect.     *)
LEMMA ArmedAsBefore ==
  ASSUME CommandInv, UNCHANGED <<level, armed, effects, misplaced>>
  PROVE  ArmedRecordsHaveOneEffect'
<1>1. ArmedRecordsHaveOneEffect
  BY DEF CommandInv
<1> QED
  BY <1>1 DEF ArmedRecordsHaveOneEffect, Listings, Of, Rec, Reruns

(* What is neither listed nor deferred nor typed anew is as it was.         *)
LEMMA AsBefore ==
  ASSUME CommandInv, level' = level
  PROVE  /\ LevelType'
         /\ UNCHANGED <<skipped, armed, kept>> => BitsType'
         /\ UNCHANGED <<armed, kept>> /\ (skipped \subseteq Rec)' => BitsType'
         /\ UNCHANGED <<effects, timers, misplaced>> => ListsType'
         /\ front' = front => QueueType'
         /\ front' = front /\ (Served => Served') => ServedAreAwaited'
<1> USE DEF CommandInv, TypeOK
<1>1. LevelType'
  BY DEF LevelType
<1>2. /\ UNCHANGED <<skipped, armed, kept>> => BitsType'
      /\ UNCHANGED <<armed, kept>> /\ (skipped \subseteq Rec)' => BitsType'
  BY DEF BitsType, Rec, Reruns
<1>3. UNCHANGED <<effects, timers, misplaced>> => ListsType'
  BY SameCalls DEF ListsType
<1>4. front' = front => QueueType'
  BY SameCalls DEF QueueType
<1>5. front' = front /\ (Served => Served') => ServedAreAwaited'
  BY DEF ServedAreAwaited
<1> QED
  BY <1>1, <1>2, <1>3, <1>4, <1>5

StackOK == agenda \in Seq(Calls) /\ Nested(agenda) /\ CountingIsKnown

(* A record that is dispatched is one of the table, and the registers that   *)
(* it shifts name records of the table.                                     *)
LEMMA DispatchedRecord ==
  ASSUME CommandInv, NEW base, At(base)
  PROVE  /\ Top.at \in Rec /\ level[Top.at].base = base /\ ~Idle /\ Top.do \in Loops
         /\ Top \in Calls /\ promise = 0
         /\ Saved \in 0..Len(level) /\ Named \in 0..Len(level)
         /\ NextOf(Top.at) \in 0..Len(level)
<1>1. agenda \in Seq(Calls) /\ agenda # <<>> /\ LevelType /\ ChainType
  BY DEF CommandInv, TypeOK, At, Idle
<1>2. Top \in Calls
  BY <1>1, Replaced DEF Top
<1>3. Top.at \in 0..Len(level) /\ Top.at # 0
  BY <1>2, RecordFields, <1>1 DEF Calls, At, Loops
<1>4. Top.at \in Rec
  BY <1>1, <1>3, RecordFields
<1>5. promise = 0
  BY NoDebt DEF At
<1>6. Saved \in 0..Len(level) /\ Named \in 0..Len(level) /\ NextOf(Top.at) \in 0..Len(level)
  BY <1>1, <1>4, RecordFields DEF ChainType, Saved, Named, NextOf
<1> QED
  BY <1>2, <1>4, <1>5, <1>6 DEF At

(* One call in place of the top.                                            *)
LEMMA TopBecomes ==
  ASSUME CommandInv, ~Idle, level' = level, NEW x \in Calls,
         x.do = Top.do \/ x.do \notin {"inner", "failed", "world"},
         agenda' = <<x>> \o Tail(agenda)
  PROVE  /\ (agenda \in Seq(Calls))' /\ Nested(agenda)' /\ ~Idle' /\ Top' = x
         /\ Served /\ Top.do # "process" => Served'
         /\ Top.do \notin {"told", "modified"} /\ x.do # "modified" => StackOK'
<1> DEFINE p == <<x>>
<1>1. p \in Seq(Calls) /\ Len(p) = 1 /\ p[1] = x /\ p # <<>>
  OBVIOUS
<1>2. Replaces(p)
  BY DEF Replaces
<1> HIDE DEF p
<1>3. Fits(p)
  BY <1>1 DEF Fits
<1>4. x.do # "modified" => \A i \in 1..Len(p) : p[i].do # "modified"
  BY <1>1
<1> QED
  BY <1>1, <1>2, <1>3, <1>4, StackKeeps DEF StackOK

(* A loop that goes on, here or at its end.                                 *)
LEMMA GoesOn ==
  ASSUME CommandInv, ~Idle, Top.do \in Loops, level' = level,
         NEW i \in 0..Len(level), Goto(i)
  PROVE  /\ StackOK' /\ (Served => Served') /\ ~Idle'
         /\ Top'.do = Top.do /\ Top'.at = i /\ ~Top'.back
<1> DEFINE x == [Top EXCEPT !.at = i, !.back = FALSE]
<1>1. Top \in Calls
  BY Replaced DEF CommandInv, TypeOK, Top, Idle
<1>2. x \in Calls /\ x.do = Top.do /\ x.at = i /\ x.back = FALSE
  BY <1>1 DEF Calls, Loops
<1>3. agenda' = <<x>> \o Tail(agenda)
  BY DEF Goto
<1> HIDE DEF x
<1>4. Top.do \notin {"told", "modified", "process"}
  BY DEF Loops
<1> QED
  BY <1>2, <1>3, <1>4, TopBecomes

(* A call that returns.                                                     *)
LEMMA Pops ==
  ASSUME CommandInv, ~Idle, level' = level, agenda' = Tail(agenda)
  PROVE  /\ (agenda \in Seq(Calls))' /\ Nested(agenda)'
         /\ Top.do \notin {"told", "modified"} => StackOK'
         /\ Served /\ Top.do # "process" => Served'
         /\ Len(agenda) > 1 => ~Idle' /\ Top' = agenda[2]
<1>1. agenda \in Seq(Calls) /\ agenda # <<>>
  BY DEF CommandInv, TypeOK, Idle
<1>2. Tail(agenda) \in Seq(Calls)
  BY <1>1, HeadTailProperties
<1>3. <<>> \o Tail(agenda) = Tail(agenda)
  BY <1>2, ConcatEmptySeq
<1>4. Replaces(<<>>)
  BY <1>3 DEF Replaces
<1>5. Fits(<<>>)
  BY DEF Fits
<1> QED
  BY <1>4, <1>5, StackKeeps DEF StackOK

(* A handler that calls c, or c above d, or c, d and e.                     *)
LEMMA CallsOut ==
  ASSUME CommandInv, ~Idle, Top.do \in Loops, Top.at \in Rec, level' = level,
         NEW items \in Seq(Calls), items # <<>>, Call(items),
         \A i \in 1..Len(items) :
           /\ items[i].do # "world"
           /\ items[i].do \in {"inner", "failed"} => i = Len(items)
  PROVE  /\ (agenda \in Seq(Calls))' /\ Nested(agenda)' /\ (Served => Served')
         /\ (\A i \in 1..Len(items) : items[i].do # "modified") => StackOK'
         /\ ~Idle' /\ Top' = items[1]
         /\ Len(agenda') > Len(items)
         /\ \A i \in 1..Len(items) : agenda'[i] = items[i]
         /\ agenda'[Len(items) + 1].do \in Loops
<1> DEFINE t == [Top EXCEPT !.back = TRUE]
           p == items \o <<t>>
<1>1. agenda \in Seq(Calls) /\ agenda # <<>>
  BY DEF CommandInv, TypeOK, Idle
<1>2. Top \in Calls
  BY <1>1, Replaced DEF Top
<1>3. t \in Calls /\ t.do = Top.do /\ t.back = TRUE
  BY <1>2 DEF Calls
<1>4. <<t>> \in Seq(Calls) /\ Len(<<t>>) = 1 /\ <<t>>[1] = t
  BY <1>3
<1>5. /\ p \in Seq(Calls) /\ Len(p) = Len(items) + 1 /\ p # <<>>
      /\ \A i \in 1..Len(items) : p[i] = items[i]
      /\ p[Len(items) + 1] = t
      /\ Len(items) \in Nat /\ Len(items) > 0
  <2>1. Len(items) \in Nat /\ Len(items) > 0
    OBVIOUS
  <2>2. p \in Seq(Calls) /\ Len(p) = Len(items) + 1
    BY <1>4, ConcatProperties
  <2>3. \A i \in 1..Len(items) + 1 : p[i] = IF i <= Len(items) THEN items[i]
                                            ELSE <<t>>[i - Len(items)]
    BY <1>4, ConcatProperties
  <2>4. \A i \in 1..Len(items) : p[i] = items[i]
    BY <2>1, <2>3
  <2>5. p[Len(items) + 1] = t
    BY <1>4, <2>1, <2>3
  <2> QED
    BY <2>1, <2>2, <2>4, <2>5
<1>6. Replaces(p)
  BY DEF Replaces, Call
<1> HIDE DEF p
<1>7. Fits(p)
  <2>1. ASSUME NEW i \in 1..Len(p) - 1
        PROVE  /\ p[i].do # "world"
               /\ p[i].do \in {"inner", "failed"} => p[i + 1].do \in Loops /\ p[i + 1].back
    <3>1. i \in 1..Len(items) /\ p[i] = items[i]
      BY <1>5
    <3>2. i = Len(items) => p[i + 1] = t
      BY <1>5
    <3> HIDE DEF t
    <3> QED
      BY <1>3, <3>1, <3>2
  <2> HIDE DEF t
  <2> QED
    BY <1>3, <1>5, <2>1 DEF Fits
<1>8. Top.do \notin {"told", "modified", "process"} /\ t.do # "modified"
  BY <1>3 DEF Loops
<1>9. /\ (\A i \in 1..Len(items) : items[i].do # "modified")
         => \A i \in 1..Len(p) : p[i].do # "modified"
  <2> HIDE DEF t
  <2> SUFFICES ASSUME \A i \in 1..Len(items) : items[i].do # "modified",
                      NEW i \in 1..Len(p)
               PROVE  p[i].do # "modified"
    OBVIOUS
  <2>1. CASE i \in 1..Len(items)
    BY <1>5, <2>1
  <2>2. CASE i = Len(items) + 1
    BY <1>5, <1>8, <2>2
  <2> QED
    BY <1>5, <2>1, <2>2
<1>10. /\ \A i \in 1..Len(p) : agenda'[i] = p[i]
       /\ Len(agenda') >= Len(p)
  BY <1>1, <1>5, <1>6, Replaced DEF Replaces
<1> HIDE DEF t
<1>11. /\ (agenda \in Seq(Calls))' /\ Nested(agenda)' /\ (Served => Served')
       /\ (\A i \in 1..Len(p) : p[i].do # "modified") => CountingIsKnown'
       /\ ~Idle' /\ Top' = p[1]
  BY <1>5, <1>6, <1>7, <1>8, StackKeeps
<1>12. /\ Len(agenda') > Len(items)
       /\ \A i \in 1..Len(items) : agenda'[i] = items[i]
       /\ agenda'[Len(items) + 1].do \in Loops
  <2>1. agenda'[Len(items) + 1] = t
    BY <1>5, <1>10
  <2> QED
    BY <1>3, <1>5, <1>10, <2>1
<1> QED
  BY <1>5, <1>9, <1>11, <1>12 DEF StackOK

(* While messages run no chains, a Modify Count that waits is at the top.     *)
LEMMA NothingElseCounts ==
  ASSUME CommandInv, PlainMessages, ~Idle, Top.do \in Loops, Top.at \in Rec,
         NEW items \in Seq(Calls), items # <<>>, Call(items)
  PROVE  /\ agenda'[1] = items[1]
         /\ \A i \in DOMAIN agenda' : agenda'[i].do = "modified" => i \in 1..Len(items)
<1> DEFINE t == [Top EXCEPT !.back = TRUE]
           p == items \o <<t>>
           b == p \o Tail(agenda)
<1>1. agenda \in Seq(Calls) /\ agenda # <<>> /\ CountingIsKnown
  BY DEF CommandInv, TypeOK, Idle
<1>2. Top = agenda[1] /\ Top \in Calls /\ DOMAIN agenda = 1..Len(agenda)
  BY <1>1, Replaced DEF Top
<1>3. t.do = Top.do /\ t \in Calls /\ t.do # "modified"
  BY <1>2 DEF Calls, Loops
<1>4. agenda' = b
  BY DEF Call
<1> HIDE DEF t
<1>5. /\ p \in Seq(Calls) /\ Len(p) = Len(items) + 1 /\ Len(items) \in Nat
      /\ Len(items) >= 1
      /\ \A i \in 1..Len(items) + 1 :
           p[i] = IF i <= Len(items) THEN items[i] ELSE <<t>>[i - Len(items)]
  BY <1>3, ConcatProperties
<1>6. p[1] = items[1] /\ p[Len(items) + 1] = t
  <2>1. 1 \in 1..Len(items) + 1 /\ Len(items) + 1 \in 1..Len(items) + 1
    BY <1>5
  <2>2. p[Len(items) + 1] = <<t>>[1]
    BY <1>5, <2>1
  <2> QED
    BY <1>5, <2>1, <2>2
<1> HIDE DEF p
<1>7. /\ Len(agenda) \in Nat /\ Len(b) = Len(p) + Len(agenda) - 1 /\ DOMAIN b = 1..Len(b)
      /\ \A i \in 1..Len(p) : b[i] = p[i]
      /\ \A i \in 2..Len(agenda) : b[Len(p) + i - 1] = agenda[i]
  <2>1. p \in Seq(Calls) /\ agenda \in Seq(Calls) /\ agenda # <<>>
    BY <1>1, <1>5
  <2> QED
    BY <2>1, Replaced
<1> HIDE DEF b
<1>8. \A i \in 2..Len(agenda) : agenda[i].do # "modified"
  BY <1>1, <1>2 DEF CountingIsKnown, Loops
<1>9. ASSUME NEW i \in 1..Len(b), b[i].do = "modified" PROVE i \in 1..Len(items)
  <2>1. CASE i > Len(p)
    <3> DEFINE j == i - Len(p) + 1
    <3>1. j \in 2..Len(agenda) /\ Len(p) + j - 1 = i
      BY <1>5, <1>7, <2>1
    <3>2. b[Len(p) + j - 1] = agenda[j]
      BY <1>7, <3>1
    <3> QED
      BY <1>8, <1>9, <3>1, <3>2
  <2>2. CASE i = Len(items) + 1
    <3>1. b[i] = t
      BY <1>5, <1>6, <1>7, <2>2
    <3> QED
      BY <1>3, <1>9, <3>1
  <2> QED
    BY <1>5, <2>1, <2>2
<1>10. b[1] = items[1]
  BY <1>5, <1>6, <1>7
<1> QED
  BY <1>4, <1>7, <1>9, <1>10

(* Calls one after the other, written out.                                  *)
LEMMA Beside ==
  ASSUME NEW S, NEW a \in S, NEW b \in S, NEW c \in S
  PROVE  /\ <<>> \o <<a>> = <<a>> /\ <<a>> \o <<b>> = <<a, b>>
         /\ <<a, b>> \o <<c>> = <<a, b, c>>
<1>1. /\ <<a>> \in Seq(S) /\ <<b>> \in Seq(S) /\ <<c>> \in Seq(S)
      /\ <<a, b>> \in Seq(S) /\ <<a, b, c>> \in Seq(S)
  OBVIOUS
<1>2. <<>> \o <<a>> = <<a>>
  BY <1>1, ConcatEmptySeq
<1>3. <<a>> \o <<b>> = <<a, b>>
  <2>1. <<a>> \o <<b>> \in Seq(S) /\ Len(<<a>> \o <<b>>) = 2
    BY <1>1
  <2>2. \A i \in 1..2 : (<<a>> \o <<b>>)[i] = <<a, b>>[i]
    BY <1>1
  <2> QED
    BY <1>1, <2>1, <2>2, SeqEqual
<1>4. <<a, b>> \o <<c>> = <<a, b, c>>
  <2>1. <<a, b>> \o <<c>> \in Seq(S) /\ Len(<<a, b>> \o <<c>>) = 3
    BY <1>1
  <2>2. \A i \in 1..3 : (<<a, b>> \o <<c>>)[i] = <<a, b, c>>[i]
    BY <1>1
  <2> QED
    BY <1>1, <2>1, <2>2, SeqEqual
<1> QED
  BY <1>2, <1>3, <1>4

(* The calls of a message that is fired before z.                           *)
LEMMA MessageCalls ==
  ASSUME LevelType, NEW m \in Rec, NEW z \in Calls
  PROVE  /\ level[m].arg = 0 => Message(m) \o <<z>> = <<z>>
         /\ level[m].arg # 0 =>
              /\ Item("reset", level[m].arg) \in Calls
              /\ Message(m) \o <<z>> = <<Item("reset", level[m].arg), z>>
<1>1. level[m].arg \in 0..Len(level)
  BY RecordFields
<1>2. Item("reset", level[m].arg) \in Calls
  BY <1>1 DEF Item, Calls
<1>3. <<>> \o <<z>> = <<z>>
  BY Beside
<1>4. <<Item("reset", level[m].arg)>> \o <<z>> = <<Item("reset", level[m].arg), z>>
  BY <1>2, Beside
<1> QED
  BY <1>2, <1>3, <1>4 DEF Message

(* The calls of the latched message, before z.                              *)
LEMMA PendingCalls ==
  ASSUME CommandInv, pending # 0, NEW z \in Calls
  PROVE  /\ pending \in Of("latch") /\ Item("told", pending) \in Calls
         /\ level[pending].arg = 0 => Pending \o <<z>> = <<Item("told", pending), z>>
         /\ level[pending].arg # 0 =>
              /\ Item("reset", level[pending].arg) \in Calls
              /\ Pending \o <<z>> =
                   <<Item("reset", level[pending].arg), Item("told", pending), z>>
<1> DEFINE r == Item("reset", level[pending].arg)
           t == Item("told", pending)
<1>1. pending \in Rec /\ pending \in Of("latch") /\ LevelType
  BY DEF CommandInv, TypeOK, ChainType, Of
<1>2. t \in Calls
  BY <1>1 DEF Item, Calls
<1>3. /\ level[pending].arg = 0 => Pending = <<t>>
      /\ level[pending].arg # 0 => r \in Calls /\ Pending = <<r, t>>
  BY <1>1, <1>2, MessageCalls DEF Pending
<1> HIDE DEF r, t
<1>4. <<t>> \o <<z>> = <<t, z>>
  BY <1>2, Beside
<1>5. r \in Calls => <<r, t>> \o <<z>> = <<r, t, z>>
  BY <1>2, Beside
<1> QED
  BY <1>1, <1>2, <1>3, <1>4, <1>5 DEF r, t

-----------------------------------------------------------------------------
(* Handlers that return at once.                                            *)

(* A record that retires is one of the table.                               *)
LEMMA Retires ==
  ASSUME CommandInv, level' = level, NEW r \in Rec, Retire(r) \/ skipped' = skipped
  PROVE  (skipped \subseteq Rec)'
BY SameCalls DEF CommandInv, TypeOK, BitsType, Retire

(* The registers after a handler has returned.  A condition that fails owes  *)
(* the chain that it saved.                                                 *)
LEMMA Returns ==
  ASSUME CommandInv, NEW base, At(base), level' = level,
         NEW ret \in BOOLEAN, NEW int \in 0..2, Return(ret, int),
         saved' \in 0..Len(level), nextActive' \in 0..Len(level),
         pending' \in Of("latch") \cup {0}, picked' \in BOOLEAN,
         head' \in Rec \cup {0}, count' \in [Rec -> Int], step' \in Int,
         promise' = promise \/ (promise' = saved' /\ int = 2)
  PROVE  StackOK' /\ ChainType' /\ DebtIsDue' /\ (Served => Served')
<1>1. /\ ~Idle /\ Top.do \in Loops /\ promise = 0
      /\ NextOf(Top.at) \in 0..Len(level)
  BY DispatchedRecord
<1> DEFINE i == IF int # 0 THEN 0 ELSE NextOf(Top.at)
<1>2. Goto(i) /\ i \in 0..Len(level) /\ interrupt' = int
  <2>1. LevelType
    BY DEF CommandInv, TypeOK
  <2>2. 0 \in 0..Len(level)
    BY <2>1, RecordFields
  <2> QED
    BY <1>1, <2>2 DEF Return
<1> HIDE DEF i
<1>3. /\ StackOK' /\ (Served => Served') /\ ~Idle'
      /\ Top'.do = Top.do /\ Top'.at = i /\ ~Top'.back
  BY <1>1, <1>2, GoesOn
<1>4. acted \in BOOLEAN
  BY DEF CommandInv, TypeOK, ChainType
<1>5. ChainType'
  <2>1. acted' \in BOOLEAN /\ interrupt' \in 0..2
    BY <1>2, <1>4 DEF Return
  <2>2. promise' \in 0..Len(level)
    BY <1>1 DEF CommandInv, TypeOK, ChainType
  <2> QED
    BY <2>1, <2>2, SameCalls DEF ChainType
<1>6. DebtIsDue'
  <2> SUFFICES ASSUME promise' # 0 PROVE DebtIsDue'
    BY DEF DebtIsDue
  <2>1. promise' = saved' /\ int = 2
    BY <1>1
  <2>2. i = 0
    BY <2>1 DEF i
  <2> QED
    BY <1>1, <1>2, <1>3, <2>1, <2>2 DEF DebtIsDue
<1> QED
  BY <1>3, <1>5, <1>6

(* ... and everything, when it neither lists nor defers.                    *)
LEMMA ReturnsInOrder ==
  ASSUME CommandInv, NEW base, At(base),
         NEW ret \in BOOLEAN, NEW int \in 0..2, Return(ret, int),
         saved' \in 0..Len(level), nextActive' \in 0..Len(level),
         pending' \in Of("latch") \cup {0}, picked' \in BOOLEAN,
         head' \in Rec \cup {0}, count' \in [Rec -> Int], step' \in Int,
         promise' = promise \/ (promise' = saved' /\ int = 2),
         UNCHANGED <<level, armed, kept, front, lists, misplaced>>,
         (skipped \subseteq Rec)'
  PROVE  CommandInv'
<1>1. UNCHANGED <<level, armed, kept, front, effects, timers, misplaced>>
  BY DEF lists
<1>2. StackOK' /\ ChainType' /\ DebtIsDue' /\ (Served => Served')
  BY <1>1, Returns
<1>3. ArmedRecordsHaveOneEffect'
  BY <1>1, ArmedAsBefore
<1>4. LevelType' /\ BitsType' /\ ListsType' /\ QueueType' /\ ServedAreAwaited'
  BY <1>1, <1>2, AsBefore
<1> QED
  BY <1>2, <1>3, <1>4 DEF CommandInv, TypeOK, StackOK

(* What the loop and the registers give a handler.                          *)
LEMMA HandlerTypes ==
  ASSUME CommandInv, NEW base, At(base), level' = level
  PROVE  /\ Top.at \in Rec /\ level[Top.at].base = base
         /\ level[Top.at].arg \in 0..Len(level) /\ level[Top.at].len \in Int
         /\ interrupt \in 0..2 /\ picked \in BOOLEAN /\ acted \in BOOLEAN
         /\ pending \in Of("latch") \cup {0} /\ head \in Rec \cup {0}
         /\ count \in [Rec -> Int] /\ step \in Int
         /\ saved \in 0..Len(level) /\ nextActive \in 0..Len(level)
         /\ Saved \in 0..Len(level) /\ Named \in 0..Len(level)
         /\ skipped \subseteq Rec /\ (skipped' = skipped => (skipped \subseteq Rec)')
<1>1. Top.at \in Rec /\ level[Top.at].base = base
  BY DispatchedRecord
<1>2. LevelType /\ BitsType /\ ChainType
  BY DEF CommandInv, TypeOK
<1>3. level[Top.at].arg \in 0..Len(level) /\ level[Top.at].len \in Int
  BY <1>1, <1>2, RecordFields
<1>4. Saved \in 0..Len(level) /\ Named \in 0..Len(level)
  BY DispatchedRecord
<1> QED
  BY <1>1, <1>2, <1>3, <1>4, SameCalls DEF BitsType, ChainType

\* A jump names a chain and goes on: it lists, queues and calls nothing.
LEMMA JumpKeeps ==
  ASSUME CommandInv, Jump, UNCHANGED misplaced
  PROVE  CommandInv'
<1> USE DEF Jump, bits
<1>1. At("jump") /\ level' = level /\ Return(FALSE, interrupt) /\ skipped' = skipped
  OBVIOUS
<1> QED
  BY <1>1, HandlerTypes, ReturnsInOrder

\* A latch stores the message that a failure fires, and goes on.
LEMMA LatchKeeps ==
  ASSUME CommandInv, Latch, UNCHANGED misplaced
  PROVE  CommandInv'
<1>1. At("latch") /\ level' = level /\ Return(FALSE, interrupt) /\ skipped' = skipped
  BY DEF Latch, bits
<1>2. Top.at \in Of("latch")
  BY <1>1, HandlerTypes DEF Of
<1> QED
  BY <1>1, <1>2, HandlerTypes, ReturnsInOrder DEF Latch, bits, Shift

\* A condition that holds may retire its record, and goes on.
LEMMA PassKeeps ==
  ASSUME CommandInv, Pass, UNCHANGED misplaced
  PROVE  CommandInv'
<1>1. At("if") /\ level' = level /\ Retire(Top.at)
  BY DEF Pass
<1>2. PICK ret \in BOOLEAN : Return(ret, interrupt)
  BY DEF Pass
<1>3. (skipped \subseteq Rec)'
  BY <1>1, HandlerTypes, Retires
<1> QED
  BY <1>1, <1>2, <1>3, HandlerTypes, ReturnsInOrder DEF Pass, Shift

\* A condition on an act breaks the chain without a failure: nothing is owed.
LEMMA WaitKeeps ==
  ASSUME CommandInv, Wait, UNCHANGED misplaced
  PROVE  CommandInv'
<1>1. At("if") /\ level' = level /\ Return(FALSE, 1) /\ skipped' = skipped
  BY DEF Wait, bits
<1>2. FALSE \in BOOLEAN /\ 1 \in 0..2
  OBVIOUS
<1> QED
  BY <1>1, <1>2, HandlerTypes, ReturnsInOrder DEF Wait, bits, Shift

\* Giving an item goes on, or breaks the chain and owes the one that `saved` names.
LEMMA GiveKeeps ==
  ASSUME CommandInv, Give, UNCHANGED misplaced
  PROVE  CommandInv'
<1>1. At("give") /\ level' = level /\ skipped' = skipped
  BY DEF Give, bits
<1>2. CASE Return(TRUE, interrupt) /\ promise' = promise
  BY <1>1, <1>2, HandlerTypes, ReturnsInOrder DEF Give, bits, Shift
<1>3. CASE Return(FALSE, 2) /\ promise' = Saved
  <2>1. FALSE \in BOOLEAN /\ 2 \in 0..2 /\ promise' = saved'
    BY <1>3 DEF Give, Shift
  <2> QED
    BY <1>1, <1>3, <2>1, HandlerTypes, ReturnsInOrder DEF Give, bits, Shift
<1> QED
  BY <1>2, <1>3 DEF Give

\* An act may retire its record, and goes on.
LEMMA ActKeeps ==
  ASSUME CommandInv, Act, UNCHANGED misplaced
  PROVE  CommandInv'
<1>1. At("act") /\ level' = level /\ Retire(Top.at) /\ Return(TRUE, interrupt)
  BY DEF Act
<1>2. (skipped \subseteq Rec)'
  BY <1>1, HandlerTypes, Retires
<1> QED
  BY <1>1, <1>2, HandlerTypes, ReturnsInOrder DEF Act, Shift

\* Toggling changes only which records are skipped.
LEMMA ToggleKeeps ==
  ASSUME CommandInv, Toggle, UNCHANGED misplaced
  PROVE  CommandInv'
<1> DEFINE ret == level[Top.at].arg # 0
<1>1. At("toggle") /\ level' = level /\ ret \in BOOLEAN /\ Return(ret, interrupt)
  BY DEF Toggle
<1>2. (skipped \subseteq Rec)'
  <2>1. Top.at \in Rec /\ skipped \subseteq Rec /\ Rec' = Rec
    BY <1>1, HandlerTypes, SameCalls
  <2>2. level[Top.at].arg # 0 => level[Top.at].arg \in Rec
    BY <2>1, RecordFields DEF CommandInv, TypeOK
  <2>3. level[Top.at].arg # 0 => Switched(Top.at) \subseteq Rec
    BY <2>1, <2>2 DEF Switched, SymDiff
  <2> QED
    BY <2>1, <2>3 DEF Toggle
<1> QED
  BY <1>1, <1>2, HandlerTypes, ReturnsInOrder DEF Toggle, Shift

-----------------------------------------------------------------------------
(* The list of effects.                                                     *)

Places(e, r) == {i \in DOMAIN e : e[i].rec = r}

(* Sets that correspond one to one are equally large.                       *)
LEMMA SameSize ==
  ASSUME NEW S, NEW T, IsFiniteSet(S), NEW f \in [S -> T],
         \A a, b \in S : f[a] = f[b] => a = b,
         \A t \in T : \E a \in S : f[a] = t
  PROVE  IsFiniteSet(T) /\ Cardinality(T) = Cardinality(S)
<1>1. f \in Injection(S, T)
  BY DEF Injection, IsInjective
<1>2. f \in Surjection(S, T)
  BY DEF Surjection
<1> QED
  BY <1>1, <1>2, FS_Surjection

(* How often a record is listed.                                            *)
LEMMA PlacesAreFew ==
  ASSUME NEW S, NEW e \in Seq(S), NEW r
  PROVE  /\ IsFiniteSet(Places(e, r)) /\ Cardinality(Places(e, r)) \in Nat
         /\ Cardinality(Places(e, r)) = 0 <=> \A i \in 1..Len(e) : e[i].rec # r
         /\ Cardinality(Places(e, r)) = 1 =>
              \A i, j \in 1..Len(e) : e[i].rec = r /\ e[j].rec = r => i = j
         /\ \A i \in 1..Len(e) :
              /\ e[i].rec = r
              /\ \A j \in 1..Len(e) : e[j].rec = r => i = j
              => Cardinality(Places(e, r)) = 1
<1>1. DOMAIN e = 1..Len(e) /\ Len(e) \in Nat
  OBVIOUS
<1>2. IsFiniteSet(Places(e, r))
  <2>1. IsFiniteSet(1..Len(e))
    BY <1>1, FS_Interval
  <2>2. Places(e, r) \in SUBSET (1..Len(e))
    BY <1>1 DEF Places
  <2> QED
    BY <2>1, <2>2, FS_Subset
<1>3. Cardinality(Places(e, r)) = 1 <=> \E x : Places(e, r) = {x}
  BY <1>2, FS_Singleton
<1>4. Cardinality(Places(e, r)) = 0 <=> Places(e, r) = {}
  BY <1>2, FS_EmptySet
<1>5. Cardinality(Places(e, r)) = 0 <=> \A i \in 1..Len(e) : e[i].rec # r
  BY <1>1, <1>4 DEF Places
<1>6. ASSUME Cardinality(Places(e, r)) = 1, NEW i \in 1..Len(e), NEW j \in 1..Len(e),
             e[i].rec = r, e[j].rec = r
      PROVE  i = j
  <2>1. i \in Places(e, r) /\ j \in Places(e, r)
    BY <1>1, <1>6 DEF Places
  <2> QED
    BY <1>3, <1>6, <2>1
<1>7. ASSUME NEW i \in 1..Len(e), e[i].rec = r, \A j \in 1..Len(e) : e[j].rec = r => i = j
      PROVE  Cardinality(Places(e, r)) = 1
  <2>1. Places(e, r) = {i}
    BY <1>1, <1>7 DEF Places
  <2> QED
    BY <1>3, <2>1
<1> QED
  BY <1>2, <1>5, <1>6, <1>7, FS_CardinalityType

(* An effect is put before the list.                                        *)
LEMMA Prepended ==
  ASSUME NEW S, NEW e \in Seq(S), NEW x \in S, NEW r
  PROVE  LET f == <<x>> \o e IN
         /\ f \in Seq(S) /\ Len(f) = Len(e) + 1
         /\ x.rec # r => Cardinality(Places(f, r)) = Cardinality(Places(e, r))
         /\ x.rec = r /\ Cardinality(Places(e, r)) = 0 => Cardinality(Places(f, r)) = 1
<1> DEFINE f == <<x>> \o e
           S0 == Places(e, r)
           T0 == Places(f, r)
<1>1. Len(e) \in Nat /\ DOMAIN e = 1..Len(e) /\ <<x>> \in Seq(S)
  OBVIOUS
<1>2. /\ f \in Seq(S) /\ Len(f) = Len(e) + 1 /\ DOMAIN f = 1..Len(f)
      /\ f[1] = x /\ \A i \in 1..Len(e) : f[i + 1] = e[i]
  <2>1. f \in Seq(S) /\ Len(f) = Len(e) + 1 /\ DOMAIN f = 1..Len(f)
    BY <1>1
  <2>2. \A i \in 1..Len(e) + 1 : f[i] = IF i <= 1 THEN <<x>>[i] ELSE e[i - 1]
    BY <1>1, ConcatProperties
  <2> QED
    BY <1>1, <2>1, <2>2
<1> HIDE DEF f
<1>3. ASSUME x.rec # r PROVE Cardinality(T0) = Cardinality(S0)
  <2> DEFINE g == [i \in S0 |-> i + 1]
  <2>1. IsFiniteSet(S0)
    BY PlacesAreFew
  <2>2. \A i \in S0 : i \in 1..Len(e) /\ i + 1 \in T0
    BY <1>1, <1>2 DEF Places
  <2>3. g \in [S0 -> T0] /\ \A a, b \in S0 : g[a] = g[b] => a = b
    BY <2>2
  <2>4. ASSUME NEW t \in T0 PROVE \E a \in S0 : g[a] = t
    <3>1. t \in 1..Len(f) /\ f[t].rec = r
      BY <1>2 DEF Places
    <3>2. t # 1 /\ t - 1 \in 1..Len(e)
      BY <1>1, <1>2, <1>3, <3>1
    <3>3. t - 1 \in S0 /\ (t - 1) + 1 = t
      BY <1>1, <1>2, <3>1, <3>2 DEF Places
    <3> QED
      BY <3>3
  <2> HIDE DEF g, S0, T0
  <2> QED
    BY <2>1, <2>3, <2>4, SameSize
<1>4. ASSUME x.rec = r, Cardinality(S0) = 0 PROVE Cardinality(T0) = 1
  <2>1. \A i \in 1..Len(e) : e[i].rec # r
    BY <1>4, PlacesAreFew
  <2>2. ASSUME NEW j \in 1..Len(f), f[j].rec = r PROVE 1 = j
    <3>1. j # 1 => j - 1 \in 1..Len(e) /\ f[j] = e[j - 1]
      BY <1>1, <1>2
    <3> QED
      BY <2>1, <2>2, <3>1
  <2>3. 1 \in 1..Len(f) /\ f[1].rec = r
    BY <1>1, <1>2, <1>4
  <2> QED
    BY <1>2, <2>2, <2>3, PlacesAreFew
<1> QED
  BY <1>2, <1>3, <1>4 DEF f

(* The effect at k is unlinked.                                             *)
LEMMA Unlinked ==
  ASSUME NEW S, NEW e \in Seq(S), NEW k \in 1..Len(e), NEW r
  PROVE  LET f == SubSeq(e, 1, k - 1) \o SubSeq(e, k + 1, Len(e)) IN
         /\ f \in Seq(S) /\ Len(f) = Len(e) - 1
         /\ e[k].rec # r => Cardinality(Places(f, r)) = Cardinality(Places(e, r))
         /\ e[k].rec = r /\ Cardinality(Places(e, r)) = 1 => Cardinality(Places(f, r)) = 0
<1> DEFINE a == SubSeq(e, 1, k - 1)
           b == SubSeq(e, k + 1, Len(e))
           f == a \o b
           S0 == Places(e, r)
           T0 == Places(f, r)
           h(i) == IF i < k THEN i ELSE i - 1
<1>0. Len(e) \in Nat /\ k \in Nat /\ 1 <= k /\ k <= Len(e)
  OBVIOUS
<1>1. Len(e) \in Nat /\ DOMAIN e = 1..Len(e) /\ k \in Nat
  OBVIOUS
<1>2. a \in Seq(S) /\ Len(a) = k - 1 /\ \A i \in 1..k - 1 : a[i] = e[i]
  BY <1>1, SubSeqProperties
<1>3. b \in Seq(S) /\ Len(b) = Len(e) - k /\ \A i \in 1..Len(e) - k : b[i] = e[k + i]
  <2>1. k + 1 \in Int /\ Len(e) \in Int /\ \A i \in k + 1..Len(e) : e[i] \in S
    BY <1>1
  <2>2. /\ b \in Seq(S) /\ Len(b) = IF k + 1 <= Len(e) THEN Len(e) - (k + 1) + 1 ELSE 0
        /\ \A i \in 1..Len(e) - (k + 1) + 1 : b[i] = e[(k + 1) + i - 1]
    BY <2>1, SubSeqProperties
  <2> HIDE DEF b
  <2>3. Len(b) = Len(e) - k
    <3>1. Len(b) = IF k + 1 <= Len(e) THEN Len(e) - (k + 1) + 1 ELSE 0
      BY <2>2
    <3>2. Len(e) - k = IF k + 1 <= Len(e) THEN Len(e) - (k + 1) + 1 ELSE 0
      <4> DEFINE n == Len(e)
      <4> HIDE DEF n
      <4>1. n \in Nat /\ k \in Nat /\ 1 <= k /\ k <= n
        BY <1>0 DEF n
      <4>2. n - k = IF k + 1 <= n THEN n - (k + 1) + 1 ELSE 0
        BY <4>1
      <4> QED
        BY <4>2 DEF n
    <3> QED
      BY <3>1, <3>2
  <2>4. ASSUME NEW i \in 1..Len(e) - k PROVE b[i] = e[k + i]
    <3>1. i \in 1..Len(e) - (k + 1) + 1 /\ (k + 1) + i - 1 = k + i
      BY <1>1
    <3> QED
      BY <2>2, <3>1
  <2> QED
    BY <2>2, <2>3, <2>4
<1> HIDE DEF a, b
<1>4. /\ f \in Seq(S) /\ Len(f) = Len(e) - 1 /\ DOMAIN f = 1..Len(f)
      /\ \A i \in 1..Len(e) - 1 : f[i] = IF i < k THEN e[i] ELSE e[i + 1]
  <2>1. f \in Seq(S) /\ Len(f) = Len(e) - 1 /\ DOMAIN f = 1..Len(f)
    <3>1. f \in Seq(S) /\ Len(f) = Len(a) + Len(b)
      BY <1>2, <1>3, ConcatProperties
    <3> HIDE DEF f
    <3> QED
      BY <1>1, <1>2, <1>3, <3>1
  <2>2. \A i \in 1..Len(a) + Len(b) : f[i] = IF i <= Len(a) THEN a[i] ELSE b[i - Len(a)]
    BY <1>2, <1>3, ConcatProperties
  <2>3. ASSUME NEW i \in 1..Len(e) - 1 PROVE f[i] = IF i < k THEN e[i] ELSE e[i + 1]
    <3>1. i \in 1..Len(a) + Len(b)
      BY <1>1, <1>2, <1>3
    <3>2. CASE i < k
      <4>1. i <= Len(a) /\ i \in 1..k - 1
        BY <1>1, <1>2, <3>2
      <4>2. f[i] = a[i]
        BY <2>2, <3>1, <4>1
      <4> QED
        BY <1>2, <3>2, <4>1, <4>2
    <3>3. CASE ~(i < k)
      <4>0. ~(i <= Len(a)) /\ Len(a) = k - 1 /\ i - (k - 1) \in 1..Len(e) - k
        BY <1>1, <1>2, <3>3
      <4>1. f[i] = b[i - (k - 1)] /\ i - (k - 1) \in 1..Len(e) - k
        BY <2>2, <3>1, <4>0
      <4>2. k + (i - (k - 1)) = i + 1
        BY <1>1
      <4> QED
        BY <1>3, <3>3, <4>1, <4>2
    <3> QED
      BY <3>2, <3>3
  <2> QED
    BY <2>1, <2>3
<1> HIDE DEF f
<1>5. ASSUME NEW j \in 1..Len(f)
      PROVE  LET i == IF j < k THEN j ELSE j + 1
             IN  i \in 1..Len(e) /\ i # k /\ f[j] = e[i] /\ h(i) = j
  BY <1>1, <1>4
<1>6. ASSUME NEW i \in 1..Len(e), i # k
      PROVE  h(i) \in 1..Len(f) /\ f[h(i)] = e[i]
  BY <1>1, <1>4, <1>6
<1>7. ASSUME e[k].rec # r PROVE Cardinality(T0) = Cardinality(S0)
  <2> DEFINE g == [i \in S0 |-> h(i)]
  <2>1. IsFiniteSet(S0)
    BY PlacesAreFew
  <2>2. \A i \in S0 : i \in 1..Len(e) /\ i # k /\ h(i) \in T0
    BY <1>1, <1>4, <1>6, <1>7 DEF Places
  <2>3. g \in [S0 -> T0] /\ \A u, v \in S0 : g[u] = g[v] => u = v
    <3>1. g \in [S0 -> T0]
      BY <2>2
    <3>2. ASSUME NEW u \in S0, NEW v \in S0, g[u] = g[v] PROVE u = v
      BY <1>1, <2>2, <3>2
    <3> QED
      BY <3>1, <3>2
  <2>4. ASSUME NEW t \in T0 PROVE \E i \in S0 : g[i] = t
    <3> DEFINE i == IF t < k THEN t ELSE t + 1
    <3>1. t \in 1..Len(f) /\ f[t].rec = r
      BY <1>4 DEF Places
    <3>2. i \in 1..Len(e) /\ f[t] = e[i] /\ h(i) = t
      BY <1>5, <3>1
    <3>3. i \in S0
      BY <1>1, <3>1, <3>2 DEF Places
    <3> QED
      BY <3>2, <3>3
  <2> HIDE DEF g, S0, T0
  <2> QED
    BY <2>1, <2>3, <2>4, SameSize
<1>8. ASSUME e[k].rec = r, Cardinality(S0) = 1 PROVE Cardinality(T0) = 0
  <2>1. \A i \in 1..Len(e) : e[i].rec = r => i = k
    BY <1>8, PlacesAreFew
  <2>2. \A j \in 1..Len(f) : f[j].rec # r
    BY <1>5, <2>1
  <2> QED
    BY <1>4, <2>2, PlacesAreFew
<1> QED
  BY <1>4, <1>7, <1>8 DEF a, b, f

(* A record that is listed is one of the table, in the type of the list.    *)
LEMMA FreshIsListed ==
  ASSUME LevelType, NEW r \in Rec
  PROVE  Fresh(r) \in Listed /\ Fresh(r).rec = r
BY RecordFields DEF Fresh, Listed

\* Listing an effect arms its record in the same step, and only when it was not.
LEMMA RegisterKeeps ==
  ASSUME CommandInv, Register, UNCHANGED misplaced
  PROVE  CommandInv'
<1> DEFINE r == Top.at
           ok == ~Guarded(r) /\ Len(effects) < EffectCap
<1>1. /\ \E ret \in BOOLEAN : Return(ret, interrupt)
      /\ effects' = IF ok THEN <<Fresh(r)>> \o effects ELSE effects
      /\ armed' = IF ok /\ ~level[r].multi THEN armed \cup {r} ELSE armed
      /\ Shift
      /\ UNCHANGED <<level, skipped, kept, count, front, timers, pending, picked,
                     head, step, promise, misplaced>>
      /\ ok \in BOOLEAN
  BY DEF Register
<1>2. PICK base \in {"delay", "effect"} : At(base)
  BY DEF Register
<1>3. r \in Rec /\ level[r].base = base /\ LevelType /\ BitsType /\ ListsType
  BY <1>1, <1>2, HandlerTypes DEF CommandInv, TypeOK
<1> HIDE DEF ok
<1>4. StackOK' /\ ChainType' /\ DebtIsDue' /\ (Served => Served')
  BY <1>1, <1>2, HandlerTypes, Returns DEF Shift
<1>5. LevelType' /\ QueueType' /\ ServedAreAwaited'
  BY <1>1, <1>4, AsBefore
<1>6. BitsType'
  BY <1>1, <1>3, SameCalls DEF BitsType, Reruns
<1>7. Fresh(r) \in Listed /\ Fresh(r).rec = r /\ effects \in Seq(Listed)
  BY <1>3, FreshIsListed DEF ListsType
<1>8. ListsType'
  <2>1. ok => Len(effects) < EffectCap /\ EffectCap \in Nat /\ Len(effects) \in Nat
    BY <1>7, CommandAssumption DEF ok
  <2>2. ok => effects' \in Seq(Listed) /\ Len(effects') <= EffectCap
    <3>1. ok => effects' \in Seq(Listed) /\ Len(effects') = Len(effects) + 1
      BY <1>1, <1>7, Prepended
    <3> QED
      BY <2>1, <3>1
  <2>3. effects' \in Seq(Listed) /\ Len(effects') <= EffectCap
    BY <1>1, <1>3, <2>2 DEF ListsType
  <2> QED
    BY <1>1, <1>3, <2>3, SameCalls DEF ListsType
<1>9. ArmedRecordsHaveOneEffect'
  <2> SUFFICES ASSUME NEW x \in (Of("delay") \cup Of("effect")) \ (misplaced \cup Reruns(level)),
                      ~level[x].multi
               PROVE  Cardinality(Places(effects', x)) = IF x \in armed' THEN 1 ELSE 0
    BY <1>1, SameCalls DEF ArmedRecordsHaveOneEffect, Listings, Places, Reruns
  <2>1. Cardinality(Places(effects, x)) = IF x \in armed THEN 1 ELSE 0
    BY DEF CommandInv, ArmedRecordsHaveOneEffect, Listings, Places
  <2>2. CASE ~ok
    BY <1>1, <2>1, <2>2
  <2>3. CASE ok /\ x # r
    <3>1. Cardinality(Places(effects', x)) = Cardinality(Places(effects, x))
      BY <1>1, <1>7, <2>3, Prepended
    <3>2. x \in armed' <=> x \in armed
      BY <1>1, <2>3
    <3> QED
      BY <2>1, <3>1, <3>2
  <2>4. CASE ok /\ x = r
    <3>1. x \notin armed
      BY <2>4 DEF ok, Guarded
    <3>2. Cardinality(Places(effects', x)) = 1
      BY <1>1, <1>7, <2>1, <2>4, <3>1, Prepended
    <3>3. x \in armed'
      BY <1>1, <2>4
    <3> QED
      BY <3>2, <3>3
  <2> QED
    BY <2>2, <2>3, <2>4
<1> QED
  BY <1>4, <1>5, <1>6, <1>8, <1>9 DEF CommandInv, TypeOK, StackOK

-----------------------------------------------------------------------------
(* Handlers that call.                                                      *)

(* The registers and the stack while the calls of a handler run.  A failure   *)
(* that fires its message first is owed meanwhile.                          *)
LEMMA CallsInOrder ==
  ASSUME CommandInv, NEW base, At(base),
         NEW items \in Seq(Calls), items # <<>>, Call(items),
         \A i \in 1..Len(items) :
           /\ items[i].do # "world"
           /\ items[i].do \in {"inner", "failed"} => i = Len(items),
         CountingIsKnown' \/ \A i \in 1..Len(items) : items[i].do # "modified",
         saved' \in 0..Len(level), nextActive' \in 0..Len(level), interrupt' \in 0..2,
         pending' \in Of("latch") \cup {0}, picked' \in BOOLEAN,
         head' \in Rec \cup {0}, count' \in [Rec -> Int], step' \in Int,
         \/ promise' = promise
         \/ /\ promise' = saved'
            /\ \/ items[1].do \in {"reset", "failed"}
               \/ items[1].do = "told" /\ Len(items) > 1 /\ items[2].do = "failed",
         UNCHANGED <<level, skipped, armed, kept, front, lists, misplaced>>
  PROVE  CommandInv'
<1>1. UNCHANGED <<level, skipped, armed, kept, front, effects, timers, misplaced>>
  BY DEF lists
<1>2. ~Idle /\ Top.do \in Loops /\ Top.at \in Rec /\ promise = 0
  BY DispatchedRecord
<1>3. /\ (agenda \in Seq(Calls))' /\ Nested(agenda)' /\ (Served => Served')
      /\ (\A i \in 1..Len(items) : items[i].do # "modified") => StackOK'
      /\ ~Idle' /\ Top' = items[1]
      /\ Len(agenda') > Len(items)
      /\ \A i \in 1..Len(items) : agenda'[i] = items[i]
  BY <1>1, <1>2, CallsOut
<1>4. CountingIsKnown'
  BY <1>3 DEF StackOK
<1>5. ChainType'
  <2>1. acted' \in BOOLEAN
    BY DEF Call, CommandInv, TypeOK, ChainType
  <2>2. promise' \in 0..Len(level)
    BY <1>2 DEF CommandInv, TypeOK, ChainType
  <2> QED
    BY <1>1, <2>1, <2>2, SameCalls DEF ChainType
<1>6. DebtIsDue'
  <2> SUFFICES ASSUME promise' # 0 PROVE DebtIsDue'
    BY DEF DebtIsDue
  <2>1. /\ promise' = saved'
        /\ \/ items[1].do \in {"reset", "failed"}
           \/ items[1].do = "told" /\ Len(items) > 1 /\ items[2].do = "failed"
    BY <1>2
  <2>2. Len(items) \in Nat /\ (Len(items) > 1 => 2 \in 1..Len(items))
    OBVIOUS
  <2>3. Len(items) > 1 => agenda'[2] = items[2] /\ Len(agenda') > 1
    <3> SUFFICES ASSUME Len(items) > 1 PROVE agenda'[2] = items[2] /\ Len(agenda') > 1
      OBVIOUS
    <3>1. agenda'[2] = items[2]
      BY <1>3, <2>2
    <3>2. Len(agenda') \in Nat
      BY <1>3
    <3> QED
      BY <1>3, <2>2, <3>1, <3>2
  <2> QED
    BY <1>3, <2>1, <2>3 DEF DebtIsDue
<1>7. ArmedRecordsHaveOneEffect'
  BY <1>1, ArmedAsBefore
<1>8. LevelType' /\ BitsType' /\ ListsType' /\ QueueType' /\ ServedAreAwaited'
  BY <1>1, <1>3, AsBefore
<1> QED
  BY <1>3, <1>4, <1>5, <1>6, <1>7, <1>8 DEF CommandInv, TypeOK

(* A message, and what follows when it has been fired.                      *)
LEMMA MessageItems ==
  ASSUME LevelType, NEW m \in Rec, NEW z \in Calls, z.do # "world"
  PROVE  LET items == Message(m) \o <<z>> IN
         /\ items \in Seq(Calls) /\ items # <<>>
         /\ \A i \in 1..Len(items) :
              /\ items[i].do # "world"
              /\ items[i].do \in {"inner", "failed"} => i = Len(items)
              /\ items[i].do \in {"reset", z.do}
<1> DEFINE r == Item("reset", level[m].arg)
<1>1. CASE level[m].arg = 0
  <2> DEFINE s == <<z>>
  <2>1. Message(m) \o <<z>> = s
    BY <1>1, MessageCalls
  <2>2. s \in Seq(Calls) /\ s # <<>> /\ Len(s) = 1 /\ s[1] = z
    OBVIOUS
  <2> HIDE DEF s
  <2>3. \A i \in 1..Len(s) : i = 1
    BY <2>2
  <2>4. \A i \in 1..Len(s) :
          /\ s[i].do # "world"
          /\ s[i].do \in {"inner", "failed"} => i = Len(s)
          /\ s[i].do \in {"reset", z.do}
    BY <2>2, <2>3
  <2> QED
    BY <2>1, <2>2, <2>4
<1>2. CASE level[m].arg # 0
  <2> DEFINE s == <<r, z>>
  <2>1. Message(m) \o <<z>> = s /\ r \in Calls
    BY <1>2, MessageCalls
  <2>2. s \in Seq(Calls) /\ s # <<>> /\ Len(s) = 2 /\ s[1].do = "reset" /\ s[2] = z
    BY <2>1 DEF Item
  <2> HIDE DEF s
  <2>3. \A i \in 1..Len(s) : i = 1 \/ i = 2
    BY <2>2
  <2>4. \A i \in 1..Len(s) :
          /\ s[i].do # "world"
          /\ s[i].do \in {"inner", "failed"} => i = Len(s)
          /\ s[i].do \in {"reset", z.do}
    BY <2>2, <2>3
  <2> QED
    BY <2>1, <2>2, <2>4
<1> QED
  BY <1>1, <1>2

(* ... the latched one.                                                     *)
LEMMA PendingItems ==
  ASSUME CommandInv, pending # 0, NEW z \in Calls, z.do # "world"
  PROVE  LET items == Pending \o <<z>> IN
         /\ items \in Seq(Calls) /\ items # <<>>
         /\ \A i \in 1..Len(items) :
              /\ items[i].do # "world"
              /\ items[i].do \in {"inner", "failed"} => i = Len(items)
              /\ items[i].do \in {"reset", "told", z.do}
         /\ items[1].do = "reset" \/ (items[1].do = "told" /\ Len(items) > 1 /\ items[2] = z)
         /\ level[pending].arg = 0 =>
              Len(items) = 2 /\ items[1].do = "told" /\ items[2] = z
<1> DEFINE r == Item("reset", level[pending].arg)
           t == Item("told", pending)
<1>1. r.do = "reset" /\ t.do = "told"
  BY DEF Item
<1>2. CASE level[pending].arg = 0
  <2>1. Pending \o <<z>> = <<t, z>> /\ t \in Calls
    BY <1>2, PendingCalls
  <2> HIDE DEF r, t
  <2> DEFINE s == <<t, z>>
  <2>2. /\ s \in Seq(Calls) /\ Len(s) = 2 /\ s[1] = t /\ s[2] = z /\ s # <<>>
        /\ Pending \o <<z>> = s
    BY <2>1
  <2> HIDE DEF s
  <2>3. \A i \in 1..Len(s) :
          /\ s[i].do # "world"
          /\ s[i].do \in {"inner", "failed"} => i = Len(s)
          /\ s[i].do \in {"reset", "told", z.do}
    <3>1. \A i \in 1..Len(s) : i = 1 \/ i = 2
      BY <2>2
    <3> QED
      BY <1>1, <2>2, <3>1
  <2>4. /\ s[1].do = "told" /\ Len(s) > 1 /\ s[2] = z
        /\ s \in Seq(Calls) /\ s # <<>> /\ Len(s) = 2
    BY <1>1, <2>2
  <2>5. Pending \o <<z>> = s
    BY <2>2
  <2>6. /\ s \in Seq(Calls) /\ s # <<>>
        /\ \A i \in 1..Len(s) :
             /\ s[i].do # "world"
             /\ s[i].do \in {"inner", "failed"} => i = Len(s)
             /\ s[i].do \in {"reset", "told", z.do}
        /\ s[1].do = "reset" \/ (s[1].do = "told" /\ Len(s) > 1 /\ s[2] = z)
        /\ level[pending].arg = 0 => Len(s) = 2 /\ s[1].do = "told" /\ s[2] = z
    BY <2>3, <2>4
  <2> QED
    BY <2>5, <2>6
<1>3. CASE level[pending].arg # 0
  <2>1. Pending \o <<z>> = <<r, t, z>> /\ t \in Calls /\ r \in Calls
    BY <1>3, PendingCalls
  <2> HIDE DEF r, t
  <2> DEFINE s == <<r, t, z>>
  <2>2. /\ s \in Seq(Calls) /\ Len(s) = 3 /\ s[1] = r /\ s[2] = t /\ s[3] = z /\ s # <<>>
        /\ Pending \o <<z>> = s
    BY <2>1
  <2> HIDE DEF s
  <2>3. \A i \in 1..Len(s) :
          /\ s[i].do # "world"
          /\ s[i].do \in {"inner", "failed"} => i = Len(s)
          /\ s[i].do \in {"reset", "told", z.do}
    <3>1. \A i \in 1..Len(s) : i = 1 \/ i = 2 \/ i = 3
      BY <2>2
    <3> QED
      BY <1>1, <2>2, <3>1
  <2> QED
    BY <1>1, <1>3, <2>2, <2>3
<1> QED
  BY <1>2, <1>3

\* A message is called from its loop, which waits for it under the new calls.
LEMMA TalkKeeps ==
  ASSUME CommandInv, Talk, UNCHANGED misplaced
  PROVE  CommandInv'
<1> DEFINE z == Item("talked", Top.at)
           items == Message(Top.at) \o <<z>>
<1>1. At("talk") /\ level' = level /\ Shift /\ Call(items)
  BY DEF Talk, bits
<1>2. Top.at \in Rec /\ LevelType
  BY <1>1, HandlerTypes DEF CommandInv, TypeOK
<1>3. z \in Calls /\ z.do = "talked"
  BY <1>2 DEF Calls, Item
<1> HIDE DEF z
<1>4. /\ items \in Seq(Calls) /\ items # <<>>
      /\ \A i \in 1..Len(items) :
           /\ items[i].do # "world" /\ items[i].do # "modified"
           /\ items[i].do \in {"inner", "failed"} => i = Len(items)
  BY <1>2, <1>3, MessageItems
<1> HIDE DEF items
<1> QED
  BY <1>1, <1>4, HandlerTypes, CallsInOrder DEF Talk, bits, Shift

\* A chain that is run as a handler stands on the loop that waits for it.
LEMMA IndexedKeeps ==
  ASSUME CommandInv, Indexed, UNCHANGED misplaced
  PROVE  CommandInv'
<1> DEFINE z == Item("inner", level[Top.at].arg)
           items == <<z>>
<1>1. At("indexed") /\ level' = level /\ Shift /\ Call(items)
  BY DEF Indexed, bits
<1>2. z \in Calls /\ z.do = "inner"
  BY <1>1, HandlerTypes DEF Calls, Item, Loops
<1> HIDE DEF z
<1>3. items \in Seq(Calls) /\ items # <<>> /\ Len(items) = 1 /\ items[1] = z
  BY <1>2
<1> HIDE DEF items
<1>4. \A i \in 1..Len(items) :
        /\ items[i].do # "world" /\ items[i].do # "modified"
        /\ items[i].do \in {"inner", "failed"} => i = Len(items)
  BY <1>2, <1>3
<1> QED
  BY <1>1, <1>3, <1>4, HandlerTypes, CallsInOrder DEF Indexed, bits, Shift

\* A failure sets the interrupt and owes the chain that `saved` names, with the
\* message that it fires on top of the loop that fell.
LEMMA FailKeeps ==
  ASSUME CommandInv, Fail, UNCHANGED misplaced
  PROVE  CommandInv'
<1>1. At("if") /\ level' = level /\ Shift /\ promise' = saved' /\ skipped' = skipped
  BY DEF Fail, bits, Shift
<1>2. CASE pending = 0 /\ Return(FALSE, 2)
  <2>1. FALSE \in BOOLEAN /\ 2 \in 0..2
    OBVIOUS
  <2> QED
    BY <1>1, <1>2, <2>1, HandlerTypes, ReturnsInOrder DEF Fail, bits, Shift
<1> DEFINE z == Item("failed", Top.at)
           items == Pending \o <<z>>
<1>3. CASE pending # 0 /\ Call(items) /\ UNCHANGED interrupt
  <2>1. Top.at \in Rec /\ LevelType
    BY <1>1, HandlerTypes DEF CommandInv, TypeOK
  <2>2. z \in Calls /\ z.do = "failed"
    BY <2>1, RecordFields DEF Calls, Item
  <2> HIDE DEF z
  <2>3. /\ items \in Seq(Calls) /\ items # <<>>
        /\ \A i \in 1..Len(items) :
             /\ items[i].do # "world" /\ items[i].do # "modified"
             /\ items[i].do \in {"inner", "failed"} => i = Len(items)
        /\ \/ items[1].do = "reset"
           \/ items[1].do = "told" /\ Len(items) > 1 /\ items[2].do = "failed"
    BY <1>3, <2>2, PendingItems
  <2> HIDE DEF items
  <2> QED
    BY <1>1, <1>3, <2>3, HandlerTypes, CallsInOrder DEF Fail, bits, Shift
<1> QED
  BY <1>2, <1>3 DEF Fail

(* A Count that is stepped stays an integer.                                *)
LEMMA CountsAreIntegers ==
  ASSUME LevelType, count \in [Rec -> Int], level' = level,
         NEW t \in Rec, NEW by \in Int, StepCount(t, by)
  PROVE  (count \in [Rec -> Int])' /\ Stepped(t, by) \in Int
         /\ (Reaches(t, by) => count'[t] = Goal(t))
<1>1. level[t].len \in Int /\ count[t] \in Int /\ Rec' = Rec
  BY RecordFields, SameCalls
<1>2. Stepped(t, by) \in Int
  BY <1>1 DEF Stepped, Goal
<1> QED
  BY <1>1, <1>2 DEF StepCount, Reaches

\* A Count that breaks its chain while it counts calls at most its message.
LEMMA CountStepKeeps ==
  ASSUME CommandInv, CountStep, UNCHANGED misplaced
  PROVE  CommandInv'
<1>1. /\ At("count") /\ level' = level /\ Shift /\ StepCount(Top.at, step)
      /\ UNCHANGED <<bits, skipped, armed, kept, front, lists, picked, head, promise>>
  BY DEF CountStep, bits
<1>2. Top.at \in Rec /\ LevelType /\ count \in [Rec -> Int] /\ step \in Int
  BY <1>1, HandlerTypes DEF CommandInv, TypeOK
<1>3. count' \in [Rec -> Int]
  BY <1>1, <1>2, CountsAreIntegers, SameCalls
<1>4. /\ TRUE \in BOOLEAN /\ FALSE \in BOOLEAN /\ 0 \in 0..2 /\ 1 \in 0..2
      /\ 0 \in Int
  OBVIOUS
<1>5. CASE Return(TRUE, 0) /\ pending' = 0 /\ step' = 0
  BY <1>1, <1>3, <1>4, <1>5, HandlerTypes, ReturnsInOrder DEF Shift
<1>6. CASE Return(FALSE, 1) /\ pending' = pending /\ step' = 0
  BY <1>1, <1>3, <1>4, <1>6, HandlerTypes, ReturnsInOrder DEF Shift
<1> DEFINE z == Item("counted", Top.at)
           items == Pending \o <<z>>
<1>7. CASE pending # 0 /\ interrupt' = 1 /\ Call(items) /\ UNCHANGED <<pending, step>>
  <2>1. z \in Calls /\ z.do = "counted"
    BY <1>2, RecordFields DEF Calls, Item
  <2> HIDE DEF z
  <2>2. /\ items \in Seq(Calls) /\ items # <<>>
        /\ \A i \in 1..Len(items) :
             /\ items[i].do # "world" /\ items[i].do # "modified"
             /\ items[i].do \in {"inner", "failed"} => i = Len(items)
    BY <1>7, <2>1, PendingItems
  <2> HIDE DEF items
  <2> QED
    BY <1>1, <1>3, <1>4, <1>7, <2>2, HandlerTypes, CallsInOrder DEF Shift
<1> QED
  BY <1>5, <1>6, <1>7 DEF CountStep

-----------------------------------------------------------------------------
(* The deferred queue.                                                      *)

(* What is pushed while somebody waits to drain it is as awaited as the rest. *)
LEMMA PushKeeps ==
  ASSUME CommandInv, level' = level, NEW i \in 0..Len(level), Room, Push(i, Served),
         Served => Served'
  PROVE  QueueType' /\ ServedAreAwaited' /\ Len(front') = Len(front) + 1
<1> DEFINE x == [at |-> i, served |-> Served]
<1>1. front \in Seq(Deferred) /\ Len(front) < QueueCap /\ QueueCap \in Nat
  BY CommandAssumption DEF CommandInv, TypeOK, QueueType, Room
<1>2. x \in Deferred /\ (x.served <=> Served) /\ front' = Append(front, x)
  BY DEF Deferred, Push, Served
<1> HIDE DEF x
<1>3. /\ front' \in Seq(Deferred) /\ Len(front') = Len(front) + 1
      /\ \A k \in 1..Len(front') :
           \/ k \in 1..Len(front) /\ front'[k] = front[k]
           \/ front'[k] = x
  BY <1>1, <1>2
<1>4. QueueType'
  BY <1>1, <1>3, SameCalls DEF QueueType
<1>5. ServedAreAwaited'
  <2> SUFFICES ASSUME NEW k \in DOMAIN front', front'[k].served PROVE Served'
    BY DEF ServedAreAwaited
  <2>1. k \in 1..Len(front')
    BY <1>3
  <2>2. ServedAreAwaited /\ DOMAIN front = 1..Len(front)
    BY <1>1 DEF CommandInv
  <2> QED
    BY <1>2, <1>3, <2>1, <2>2 DEF ServedAreAwaited
<1> QED
  BY <1>3, <1>4, <1>5

\* A Modify Count steps its Count; whether that still counts is asked as soon as
\* its message has returned.
LEMMA ModifyKeeps ==
  ASSUME CommandInv, Modify, UNCHANGED misplaced
  PROVE  CommandInv'
<1> DEFINE t == level[Top.at].arg
           by == level[Top.at].len
           z == Item("modified", t)
           items == Pending \o <<z>>
<1>1. /\ At("modify") /\ level' = level /\ Shift /\ UNCHANGED <<picked, head, promise>>
      /\ UNCHANGED <<skipped, armed, kept, effects, timers, misplaced, lists>>
  BY DEF Modify, bits, lists
<1>2. /\ Top.at \in Rec /\ LevelType /\ count \in [Rec -> Int] /\ by \in Int
      /\ t \in 0..Len(level)
  BY <1>1, HandlerTypes DEF CommandInv, TypeOK
<1>3. t \in Of("count") => t \in Rec /\ level[t].next \in 0..Len(level)
  BY <1>2, RecordFields DEF Of
<1>4. t \in Of("count") /\ StepCount(t, by) => count' \in [Rec -> Int]
  BY <1>1, <1>2, <1>3, CountsAreIntegers, SameCalls
<1>5. /\ TRUE \in BOOLEAN /\ FALSE \in BOOLEAN /\ 0 \in 0..2 /\ 1 \in 0..2
      /\ 0 \in Int /\ Modifies(FALSE) \in BOOLEAN
  BY DEF Modifies, Room
<1>6. CASE /\ step' = (IF t = 0 THEN by ELSE 0) /\ Return(FALSE, 0)
           /\ UNCHANGED <<count, front, pending>>
  <2>1. step' \in Int
    BY <1>2, <1>6
  <2> QED
    BY <1>1, <1>2, <1>5, <1>6, <2>1, HandlerTypes, ReturnsInOrder DEF Shift
<1>7. CASE /\ t \in Of("count") /\ StepCount(t, by) /\ FollowUp(t, FALSE)
           /\ Return(Modifies(FALSE), 0) /\ pending' = 0 /\ step' = 0
  <2>1. StackOK' /\ ChainType' /\ DebtIsDue' /\ (Served => Served')
    BY <1>1, <1>4, <1>5, <1>7, HandlerTypes, Returns DEF Shift
  <2>2. QueueType' /\ ServedAreAwaited'
    <3>1. CASE Room
      BY <1>1, <1>3, <1>7, <2>1, <3>1, PushKeeps DEF FollowUp
    <3>2. CASE ~Room
      BY <1>1, <1>7, <2>1, <3>2, AsBefore DEF FollowUp
    <3> QED
      BY <3>1, <3>2
  <2>3. LevelType' /\ BitsType' /\ ListsType'
    BY <1>1, AsBefore
  <2>4. ArmedRecordsHaveOneEffect'
    BY <1>1, ArmedAsBefore
  <2> QED
    BY <2>1, <2>2, <2>3, <2>4 DEF CommandInv, TypeOK, StackOK
<1>8. CASE /\ t \in Of("count") /\ StepCount(t, by) /\ Return(TRUE, 0) /\ step' = 0
           /\ UNCHANGED <<front, pending>>
  BY <1>1, <1>4, <1>5, <1>8, HandlerTypes, ReturnsInOrder DEF Shift
<1>9. CASE /\ t \in Of("count") /\ pending # 0 /\ StepCount(t, by) /\ interrupt' = 1
           /\ step' = by /\ Call(items) /\ UNCHANGED <<front, pending>>
  <2>1. z \in Calls /\ z.do = "modified"
    BY <1>3, <1>9 DEF Calls, Item
  <2> HIDE DEF z
  <2>2. /\ items \in Seq(Calls) /\ items # <<>>
        /\ \A i \in 1..Len(items) :
             /\ items[i].do # "world"
             /\ items[i].do \in {"inner", "failed"} => i = Len(items)
        /\ level[pending].arg = 0 =>
             Len(items) = 2 /\ items[1].do = "told" /\ items[2] = z
    BY <1>9, <2>1, PendingItems
  <2> HIDE DEF items
  <2>3. CountingIsKnown'
    <3> SUFFICES ASSUME PlainMessages, NEW i \in DOMAIN agenda', agenda'[i].do = "modified"
                 PROVE  interrupt' # 0 /\ (i = 1 \/ (i = 2 /\ agenda'[1].do = "told"))
      BY <1>1, SameCalls DEF CountingIsKnown, PlainMessages
    <3>1. pending \in Of("latch")
      BY <1>9 DEF CommandInv, TypeOK, ChainType
    <3>2. Len(items) = 2 /\ items[1].do = "told"
      BY <2>2, <3>1 DEF PlainMessages
    <3>3. i \in 1..Len(items) /\ agenda'[1] = items[1]
      BY <1>1, <1>9, <2>2, NothingElseCounts, DispatchedRecord
    <3> QED
      BY <1>9, <3>2, <3>3
  <2> QED
    BY <1>1, <1>2, <1>4, <1>5, <1>9, <2>2, <2>3, HandlerTypes, CallsInOrder DEF Shift
<1> QED
  BY <1>6, <1>7, <1>8, <1>9 DEF Modify

-----------------------------------------------------------------------------
(* Calls that return.                                                       *)

(* What a return leaves on the stack.                                       *)
LEMMA Below ==
  ASSUME CommandInv, ~Idle, agenda' = Tail(agenda)
  PROVE  /\ Top = agenda[1] /\ Top \in Calls /\ DOMAIN agenda = 1..Len(agenda)
         /\ Len(agenda) \in Nat /\ Len(agenda) >= 1
         /\ \A i \in DOMAIN agenda' :
              agenda'[i] = agenda[i + 1] /\ i + 1 \in 2..Len(agenda) /\ i \in 1..Len(agenda)
<1>1. agenda \in Seq(Calls) /\ agenda # <<>>
  BY DEF CommandInv, TypeOK, Idle
<1>2. Top = agenda[1] /\ Top \in Calls /\ DOMAIN agenda = 1..Len(agenda)
  BY <1>1, Replaced DEF Top
<1>3. /\ Len(agenda) \in Nat /\ Len(agenda) >= 1
      /\ Tail(agenda) \in Seq(Calls) /\ Len(Tail(agenda)) = Len(agenda) - 1
      /\ \A i \in 1..Len(agenda) - 1 : Tail(agenda)[i] = agenda[i + 1]
  BY <1>1, HeadTailProperties
<1> QED
  BY <1>2, <1>3

\* A call that returns and changes no list keeps all of the invariant that its
\* caller's registers do not break.
LEMMA PopsInOrder ==
  ASSUME CommandInv, ~Idle, agenda' = Tail(agenda), Top.do # "process",
         CountingIsKnown' \/ Top.do \notin {"told", "modified"},
         ChainType', DebtIsDue', (skipped \subseteq Rec)',
         UNCHANGED <<level, armed, kept, front, lists, misplaced>>
  PROVE  CommandInv'
<1>1. UNCHANGED <<level, armed, kept, front, effects, timers, misplaced>>
  BY DEF lists
<1>2. /\ (agenda \in Seq(Calls))' /\ Nested(agenda)' /\ (Served => Served')
      /\ CountingIsKnown'
  BY <1>1, Pops DEF StackOK
<1>3. ArmedRecordsHaveOneEffect'
  BY <1>1, ArmedAsBefore
<1>4. LevelType' /\ BitsType' /\ ListsType' /\ QueueType' /\ ServedAreAwaited'
  BY <1>1, <1>2, AsBefore
<1> QED
  BY <1>2, <1>3, <1>4 DEF CommandInv, TypeOK

(* The types that a return finds.                                           *)
LEMMA ReturnTypes ==
  ASSUME CommandInv, level' = level
  PROVE  /\ interrupt \in 0..2 /\ picked \in BOOLEAN /\ acted \in BOOLEAN
         /\ (pending \in Of("latch") \cup {0} <=> pending \in (Of("latch") \cup {0})')
         /\ pending \in Of("latch") \cup {0} /\ head \in Rec \cup {0}
         /\ count \in [Rec -> Int] /\ step \in Int
         /\ saved \in 0..Len(level) /\ nextActive \in 0..Len(level)
         /\ promise \in 0..Len(level) /\ LevelType /\ Len(level) \in Nat
         /\ 0 \in 0..Len(level)
         /\ skipped \subseteq Rec /\ Rec' = Rec /\ \A b : Of(b)' = Of(b)
<1>1. LevelType /\ BitsType /\ ChainType
  BY DEF CommandInv, TypeOK
<1> QED
  BY <1>1, SameCalls, RecordFields DEF BitsType, ChainType

\* The step of a Count is reset after its message.
LEMMA CountedKeeps ==
  ASSUME CommandInv, Counted, UNCHANGED misplaced
  PROVE  CommandInv'
<1>1. /\ ~Idle /\ Top.do = "counted" /\ step' = 0 /\ agenda' = Tail(agenda)
      /\ UNCHANGED <<level, skipped, armed, kept, count, front, lists, interrupt, saved,
                     nextActive, pending, acted, picked, head, promise>>
  BY DEF Counted, bits
<1>2. promise = 0
  BY <1>1, NoDebt DEF Loops
<1>3. ChainType' /\ DebtIsDue' /\ (skipped \subseteq Rec)'
  BY <1>1, <1>2, ReturnTypes DEF ChainType, DebtIsDue
<1> QED
  BY <1>1, <1>3, PopsInOrder

\* A talk retires its record when its message has returned.
LEMMA TalkedKeeps ==
  ASSUME CommandInv, Talked, UNCHANGED misplaced
  PROVE  CommandInv'
<1>1. /\ ~Idle /\ Top.do = "talked" /\ agenda' = Tail(agenda)
      /\ \/ Retire(Top.at) /\ pending' = 0 /\ acted' = TRUE
         \/ UNCHANGED <<skipped, pending, acted>>
      /\ UNCHANGED <<level, armed, kept, count, front, lists, interrupt, saved,
                     nextActive, picked, head, step, promise>>
  BY DEF Talked
<1>2. promise = 0
  BY <1>1, NoDebt DEF Loops
<1>3. Top.at \in Rec
  BY <1>1, Below DEF Calls, Loops
<1>4. (skipped \subseteq Rec)'
  BY <1>1, <1>3, Retires
<1>5. pending' \in Of("latch") \cup {0} /\ acted' \in BOOLEAN
  BY <1>1, ReturnTypes
<1>6. ChainType' /\ DebtIsDue'
  BY <1>1, <1>2, <1>5, ReturnTypes DEF ChainType, DebtIsDue
<1> QED
  BY <1>1, <1>4, <1>6, PopsInOrder

(* The condition whose message has been fired breaks the loop that waits.    *)
LEMMA FailedKeeps ==
  ASSUME CommandInv, Failed, UNCHANGED misplaced
  PROVE  CommandInv'
<1>1. /\ ~Idle /\ Top.do = "failed" /\ agenda' = Tail(agenda) /\ interrupt' = 2
      /\ UNCHANGED <<level, skipped, armed, kept, count, front, lists, saved, nextActive,
                     pending, acted, picked, head, step, promise>>
  BY DEF Failed, bits
<1>2. Len(agenda) > 1 /\ agenda[2].do \in Loops /\ agenda[2].back
  BY <1>1, Below DEF CommandInv, Nested
<1>3. ~Idle' /\ Top' = agenda[2]
  BY <1>1, <1>2, Pops
<1>4. DebtIsDue'
  <2>1. promise # 0 => saved = promise
    BY DEF CommandInv, DebtIsDue
  <2> QED
    BY <1>1, <1>2, <1>3, <2>1 DEF DebtIsDue
<1>5. ChainType' /\ (skipped \subseteq Rec)'
  BY <1>1, ReturnTypes DEF ChainType
<1> QED
  BY <1>1, <1>4, <1>5, PopsInOrder

\* A message returns: what its failure owed is still owed.
LEMMA ToldKeeps ==
  ASSUME CommandInv, Told, UNCHANGED misplaced
  PROVE  CommandInv'
<1>1. /\ ~Idle /\ Top.do = "told" /\ agenda' = Tail(agenda) /\ pending' = 0
      /\ Retire(Top.at) \/ skipped' = skipped
      /\ UNCHANGED <<level, armed, kept, count, front, lists, interrupt, saved,
                     nextActive, acted, picked, head, step, promise>>
  BY DEF Told
<1>2. Top.at \in Rec
  BY <1>1, Below DEF Calls, Loops
<1>3. (skipped \subseteq Rec)'
  BY <1>1, <1>2, Retires
<1>4. ChainType'
  BY <1>1, ReturnTypes DEF ChainType
<1>5. DebtIsDue'
  <2> SUFFICES ASSUME promise # 0 PROVE DebtIsDue'
    BY <1>1 DEF DebtIsDue
  <2>1. saved = promise /\ Len(agenda) > 1 /\ agenda[2].do = "failed"
    BY <1>1 DEF CommandInv, DebtIsDue, Loops
  <2>2. ~Idle' /\ Top' = agenda[2]
    BY <1>1, <2>1, Pops
  <2> QED
    BY <1>1, <2>1, <2>2 DEF DebtIsDue
<1>6. CountingIsKnown'
  <2> SUFFICES ASSUME PlainMessages, NEW i \in DOMAIN agenda', agenda'[i].do = "modified"
               PROVE  interrupt # 0 /\ i = 1
    BY <1>1, ReturnTypes DEF CountingIsKnown, PlainMessages
  <2>1. agenda'[i] = agenda[i + 1] /\ i + 1 \in 2..Len(agenda) /\ i \in 1..Len(agenda)
    BY <1>1, Below
  <2>2. i + 1 \in DOMAIN agenda
    BY <1>1, <2>1, Below
  <2>3. interrupt # 0 /\ (i + 1 = 1 \/ i + 1 = 2)
    BY <2>1, <2>2 DEF CommandInv, CountingIsKnown
  <2>4. i \in Nat /\ i >= 1
    BY <2>1
  <2> QED
    BY <2>3, <2>4
<1> QED
  BY <1>1, <1>3, <1>4, <1>5, <1>6, PopsInOrder

\* The Modify Count queues its follow-up and returns; with plain messages the
\* interrupt still tells whether its Count is counting.
LEMMA ModifiedKeeps ==
  ASSUME CommandInv, Modified, UNCHANGED misplaced
  PROVE  CommandInv'
<1> DEFINE c == interrupt # 0
           t == Top.at
<1>1. /\ ~Idle /\ Top.do = "modified" /\ agenda' = Tail(agenda) /\ FollowUp(t, c)
      /\ acted' = (acted \/ Modifies(c)) /\ interrupt' = 0 /\ step' = 0
      /\ UNCHANGED <<level, skipped, armed, kept, count, lists, effects, timers, saved,
                     nextActive, pending, picked, head, promise, misplaced>>
  BY DEF Modified, bits, lists
<1>2. promise = 0
  BY <1>1, NoDebt DEF Loops
<1>3. t \in Rec /\ level[t].next \in 0..Len(level)
  <2>1. t \in Rec
    BY <1>1, Below DEF Calls, Loops
  <2> QED
    BY <1>1, <2>1, ReturnTypes, RecordFields
<1>4. acted' \in BOOLEAN
  BY <1>1, ReturnTypes DEF Modifies, Room
<1>5. ChainType' /\ DebtIsDue'
  BY <1>1, <1>2, <1>4, ReturnTypes DEF ChainType, DebtIsDue
<1>6. (agenda \in Seq(Calls))' /\ Nested(agenda)' /\ (Served => Served')
  BY <1>1, Pops
<1>7. CountingIsKnown'
  <2> SUFFICES ASSUME PlainMessages, NEW i \in DOMAIN agenda' PROVE agenda'[i].do # "modified"
    BY <1>1, ReturnTypes DEF CountingIsKnown, PlainMessages
  <2>1. agenda'[i] = agenda[i + 1] /\ i + 1 \in 2..Len(agenda) /\ Top = agenda[1]
    BY <1>1, Below
  <2>2. i + 1 \in DOMAIN agenda /\ i + 1 # 1
    BY <1>1, <2>1, Below
  <2> QED
    BY <1>1, <2>1, <2>2 DEF CommandInv, CountingIsKnown
<1>8. QueueType' /\ ServedAreAwaited'
  <2>1. CASE ~c /\ Room
    BY <1>1, <1>3, <1>6, <2>1, PushKeeps DEF FollowUp
  <2>2. CASE ~(~c /\ Room)
    <3>1. front' = front
      BY <1>1, <2>2 DEF FollowUp
    <3> QED
      BY <1>1, <1>6, <3>1, AsBefore
  <2> QED
    BY <2>1, <2>2
<1>9. LevelType' /\ BitsType' /\ ListsType' /\ ArmedRecordsHaveOneEffect'
  BY <1>1, AsBefore, ArmedAsBefore
<1> QED
  BY <1>5, <1>6, <1>7, <1>8, <1>9 DEF CommandInv, TypeOK

-----------------------------------------------------------------------------
(* The loop over a chain.                                                   *)

(* What stands on the stack is a call; a loop that waits is at a record.     *)
LEMMA TopIsCall ==
  ASSUME CommandInv, ~Idle
  PROVE  Top \in Calls /\ (Top.do \in Loops /\ Top.back => Top.at \in Rec)
<1>1. agenda \in Seq(Calls) /\ agenda # <<>>
  BY DEF CommandInv, TypeOK, Idle
<1>2. Top \in Calls
  BY <1>1, Replaced DEF Top
<1> QED
  BY <1>2 DEF Calls, Loops

(* A loop that goes on, and leaves all else.                                *)
LEMMA GoesOnInOrder ==
  ASSUME CommandInv, ~Idle, Top.do \in Loops, NEW i \in 0..Len(level), Goto(i),
         promise = 0 \/ (interrupt = 2 /\ i = 0),
         UNCHANGED <<bits, count, front, lists, chain, promise, misplaced>>
  PROVE  CommandInv'
<1>1. UNCHANGED <<level, skipped, armed, kept, count, front, effects, timers, interrupt,
                  saved, nextActive, pending, acted, picked, head, step, promise, misplaced>>
  BY DEF bits, lists, chain
<1>2. /\ StackOK' /\ (Served => Served') /\ ~Idle'
      /\ Top'.do = Top.do /\ Top'.at = i
  BY <1>1, GoesOn
<1>3. DebtIsDue'
  <2>1. promise # 0 => saved = promise
    BY DEF CommandInv, DebtIsDue
  <2> QED
    BY <1>1, <1>2, <2>1 DEF DebtIsDue
<1>4. ChainType'
  BY <1>1, ReturnTypes DEF ChainType
<1>5. ArmedRecordsHaveOneEffect'
  BY <1>1, ArmedAsBefore
<1>6. LevelType' /\ BitsType' /\ ListsType' /\ QueueType' /\ ServedAreAwaited'
  BY <1>1, <1>2, AsBefore
<1> QED
  BY <1>2, <1>3, <1>4, <1>5, <1>6 DEF CommandInv, TypeOK, StackOK

\* A record that is skipped leaves everything as it was.
LEMMA SkipRecordKeeps ==
  ASSUME CommandInv, SkipRecord, UNCHANGED misplaced
  PROVE  CommandInv'
<1>1. /\ ~Idle /\ Top.do \in Loops /\ ~Top.back /\ Top.at \in skipped
      /\ Goto(NextOf(Top.at))
      /\ UNCHANGED <<bits, count, front, lists, chain, promise>>
  BY DEF SkipRecord
<1>2. Top.at \in Rec /\ LevelType
  BY <1>1 DEF CommandInv, TypeOK, BitsType
<1>3. Top.at # 0 /\ NextOf(Top.at) \in 0..Len(level)
  BY <1>2, RecordFields DEF NextOf
<1>4. promise = 0
  BY <1>1, <1>3, NoDebt
<1> QED
  BY <1>1, <1>3, <1>4, GoesOnInOrder

\* The loop goes on behind a handler that returned, or ends if it was interrupted.
LEMMA ResumeKeeps ==
  ASSUME CommandInv, Resume, UNCHANGED misplaced
  PROVE  CommandInv'
<1> DEFINE i == IF interrupt # 0 THEN 0 ELSE NextOf(Top.at)
<1>1. /\ ~Idle /\ Top.do \in Loops /\ Top.back /\ Goto(i)
      /\ UNCHANGED <<bits, count, front, lists, chain, promise>>
  BY DEF Resume
<1>2. Top.at \in Rec /\ LevelType
  BY <1>1, TopIsCall DEF CommandInv, TypeOK
<1>3. i \in 0..Len(level)
  BY <1>2, RecordFields DEF NextOf
<1>4. promise = 0 \/ (interrupt = 2 /\ i = 0)
  BY <1>1 DEF CommandInv, DebtIsDue, Loops
<1> HIDE DEF i
<1> QED
  BY <1>1, <1>3, <1>4, GoesOnInOrder

(* The loop of an inline chain returns to the loop that waits for it.        *)
LEMMA InnerDoneKeeps ==
  ASSUME CommandInv, InnerDone, UNCHANGED misplaced
  PROVE  CommandInv'
<1>1. /\ ~Idle /\ Top.do = "inner" /\ ~Top.back /\ Top.at = 0 /\ agenda' = Tail(agenda)
      /\ UNCHANGED <<level, skipped, armed, kept, count, front, lists, interrupt,
                     saved, nextActive, pending, acted, picked, head, step, promise>>
  BY DEF InnerDone, bits, chain
<1>2. Len(agenda) > 1 /\ agenda[2].do \in Loops /\ agenda[2].back
  BY <1>1, Below DEF CommandInv, Nested
<1>3. ~Idle' /\ Top' = agenda[2]
  BY <1>1, <1>2, Pops
<1>4. DebtIsDue'
  <2>1. promise # 0 => saved = promise /\ interrupt = 2
    BY <1>1 DEF CommandInv, DebtIsDue, Loops
  <2> QED
    BY <1>1, <1>2, <1>3, <2>1 DEF DebtIsDue
<1>5. ChainType' /\ (skipped \subseteq Rec)'
  BY <1>1, ReturnTypes DEF ChainType
<1> QED
  BY <1>1, <1>4, <1>5, PopsInOrder

(* At the end of its chain a trigger falls back exactly when a chain is owed:  *)
(* `saved` names it.                                                        *)
LEMMA ExecDoneKeeps ==
  ASSUME CommandInv, ExecDone, UNCHANGED misplaced
  PROVE  CommandInv'
<1>1. /\ ~Idle /\ Top.do = "exec" /\ Top.do \in Loops /\ ~Top.back /\ Top.at = 0
      /\ saved' = 0
      /\ UNCHANGED <<level, armed, kept, count, front, lists, nextActive, pending,
                     acted, head, step, effects, timers, misplaced>>
  BY DEF ExecDone, lists, Loops
<1>2. promise # 0 => FallsBack /\ saved = promise
  BY <1>1, ReturnTypes DEF CommandInv, DebtIsDue, FallsBack, Loops
<1>3. promise' = 0
  BY <1>2 DEF ExecDone
<1>4. CASE FallsBack
  <2>1. interrupt' = 0 /\ Goto(saved) /\ UNCHANGED <<skipped, picked>>
    BY <1>4 DEF ExecDone
  <2>2. saved \in 0..Len(level)
    BY <1>1, ReturnTypes
  <2>3. StackOK' /\ (Served => Served')
    BY <1>1, <2>1, <2>2, GoesOn
  <2>4. ChainType' /\ DebtIsDue'
    BY <1>1, <1>3, <2>1, ReturnTypes DEF ChainType, DebtIsDue
  <2>5. /\ LevelType' /\ BitsType' /\ ListsType' /\ QueueType' /\ ServedAreAwaited'
        /\ ArmedRecordsHaveOneEffect'
    BY <1>1, <2>1, <2>3, AsBefore, ArmedAsBefore
  <2> QED
    BY <2>3, <2>4, <2>5 DEF CommandInv, TypeOK, StackOK
<1>5. CASE ~FallsBack
  <2>1. /\ agenda' = Tail(agenda) /\ picked' = FALSE /\ interrupt' = interrupt
        /\ (head # 0 /\ Retire(head)) \/ skipped' = skipped
    BY <1>5 DEF ExecDone
  <2>2. (skipped \subseteq Rec)'
    BY <1>1, <2>1, ReturnTypes, Retires
  <2>3. ChainType' /\ DebtIsDue'
    <3>1. UNCHANGED <<interrupt, nextActive, pending, acted, head, count, step>>
      BY <1>1, <2>1 DEF ExecDone
    <3>2. picked' \in BOOLEAN /\ saved' \in 0..Len(level) /\ promise' \in 0..Len(level)
      BY <1>1, <1>3, <2>1, ReturnTypes
    <3> QED
      BY <1>1, <1>3, <3>1, <3>2, ReturnTypes DEF ChainType, DebtIsDue
  <2> QED
    BY <1>1, <2>1, <2>2, <2>3, PopsInOrder
<1> QED
  BY <1>4, <1>5

(* One call takes the place of the top and nothing is owed.                  *)
LEMMA BecomesInOrder ==
  ASSUME CommandInv, ~Idle, NEW x \in Calls, agenda' = <<x>> \o Tail(agenda),
         x.do = Top.do \/ x.do \notin {"inner", "failed", "world"},
         Top.do \notin {"told", "modified", "process"}, x.do # "modified",
         ChainType', promise' = 0, BitsType', ListsType', ArmedRecordsHaveOneEffect',
         QueueType', ServedAreAwaited', level' = level
  PROVE  CommandInv'
<1>1. StackOK'
  BY TopBecomes
<1>2. LevelType' /\ DebtIsDue'
  BY AsBefore DEF DebtIsDue
<1> QED
  BY <1>1, <1>2 DEF CommandInv, TypeOK, StackOK

\* A chain that starts afresh owes nothing.
LEMMA ResetKeeps ==
  ASSUME CommandInv, Reset, UNCHANGED misplaced
  PROVE  CommandInv'
<1> DEFINE x == Item("exec", Top.at)
<1>1. /\ ~Idle /\ Top.do = "reset" /\ agenda' = <<x>> \o Tail(agenda)
      /\ acted' = FALSE /\ interrupt' = 0 /\ head' = 0 /\ nextActive' = 0 /\ promise' = 0
      /\ UNCHANGED <<level, skipped, armed, kept, count, front, lists, effects, timers,
                     saved, pending, picked, step, misplaced>>
  BY DEF Reset, bits, lists
<1>2. Top.at \in 0..Len(level)
  BY <1>1, TopIsCall DEF Calls, Loops
<1>3. x \in Calls /\ x.do = "exec"
  BY <1>2 DEF Item, Calls, Loops
<1> HIDE DEF x
<1>4. ChainType'
  <2>1. /\ acted' \in BOOLEAN /\ interrupt' \in 0..2 /\ head' \in Rec \cup {0}
        /\ nextActive' \in 0..Len(level) /\ promise' \in 0..Len(level)
    <3>1. 0 \in 0..2 /\ 0 \in 0..Len(level)
      BY <1>1, ReturnTypes
    <3>2. acted' = FALSE /\ interrupt' = 0 /\ head' = 0 /\ nextActive' = 0 /\ promise' = 0
      BY <1>1
    <3> QED
      BY <3>1, <3>2
  <2> QED
    BY <1>1, <2>1, ReturnTypes DEF ChainType
<1>5. Served => Served'
  BY <1>1, <1>3, TopBecomes
<1>6. /\ BitsType' /\ ListsType' /\ QueueType' /\ ServedAreAwaited'
      /\ ArmedRecordsHaveOneEffect'
  BY <1>1, <1>5, AsBefore, ArmedAsBefore
<1> QED
  BY <1>1, <1>3, <1>4, <1>6, BecomesInOrder

-----------------------------------------------------------------------------
(* The deferred queue is drained, and the lists are walked.                  *)

Plain == {c \in Calls : c.do \notin {"inner", "failed", "world", "modified"}}

(* Calls that wait for nobody may stand on any stack.                        *)
LEMMA PlainFits ==
  ASSUME NEW p \in Seq(Plain)
  PROVE  Fits(p) /\ \A i \in 1..Len(p) : p[i].do # "modified"
<1>1. \A i \in 1..Len(p) : p[i] \in Plain
  BY ElementOfSeq
<1>2. Len(p) \in Nat /\ DOMAIN p = 1..Len(p)
  OBVIOUS
<1>3. p \in Seq(Calls)
  <2>1. Plain \subseteq Calls
    BY DEF Plain
  <2> QED
    BY <2>1
<1>4. \A i \in 1..Len(p) - 1 : i \in 1..Len(p)
  BY <1>2
<1>5. Len(p) > 0 => Len(p) \in 1..Len(p)
  BY <1>2
<1> QED
  BY <1>1, <1>3, <1>4, <1>5 DEF Fits, Plain

(* Calls that were deferred, in the order of the queue.                      *)
LEMMA ProcessKeeps ==
  ASSUME CommandInv, Process, UNCHANGED misplaced
  PROVE  CommandInv'
<1> DEFINE p == [i \in DOMAIN front |-> Item("drain", front[i].at)]
<1>1. /\ ~Idle /\ Top.do = "process" /\ agenda' = p \o Tail(agenda)
      /\ front' = <<>> /\ head' = 0
      /\ UNCHANGED <<level, skipped, armed, kept, count, lists, effects, timers, interrupt,
                     saved, nextActive, pending, acted, picked, step, promise, misplaced>>
  BY DEF Process, bits, lists
<1>2. front \in Seq(Deferred) /\ LevelType /\ Len(level) \in Nat
  BY RecordFields DEF CommandInv, TypeOK, QueueType
<1>3. p \in Seq(Plain)
  <2>1. \A i \in 1..Len(front) : front[i].at \in 0..Len(level)
    <3>1. \A i \in 1..Len(front) : front[i] \in Deferred
      BY <1>2, ElementOfSeq
    <3> QED
      BY <3>1 DEF Deferred
  <2>2. \A n \in 0..Len(level) : Item("drain", n) \in Plain
    <3> SUFFICES ASSUME NEW n \in 0..Len(level) PROVE Item("drain", n) \in Plain
      OBVIOUS
    <3>1. n \in Nat
      BY <1>2
    <3> QED
      BY <3>1 DEF Item, Calls, Plain
  <2> QED
    BY <1>2, <2>1, <2>2
<1> HIDE DEF p
<1>4. Fits(p) /\ Replaces(p) /\ \A i \in 1..Len(p) : p[i].do # "modified"
  BY <1>1, <1>3, PlainFits DEF Replaces
<1>5. StackOK'
  BY <1>1, <1>4, StackKeeps DEF StackOK
<1>6. promise = 0
  BY <1>1, NoDebt DEF Loops
<1>7. ChainType' /\ DebtIsDue'
  BY <1>1, <1>6, ReturnTypes DEF ChainType, DebtIsDue
<1>8. QueueType' /\ ServedAreAwaited'
  <2>1. front' \in Seq(Deferred') /\ Len(front') = 0 /\ DOMAIN front' = {}
    BY <1>1
  <2> QED
    BY <2>1, CommandAssumption DEF QueueType, ServedAreAwaited
<1>9. LevelType' /\ BitsType' /\ ListsType' /\ ArmedRecordsHaveOneEffect'
  BY <1>1, AsBefore, ArmedAsBefore
<1> QED
  BY <1>5, <1>7, <1>8, <1>9 DEF CommandInv, TypeOK, StackOK

\* A drain begins the chain that it took from the queue.
LEMMA DrainKeeps ==
  ASSUME CommandInv, Drain, UNCHANGED misplaced
  PROVE  CommandInv'
<1> DEFINE x == Item("reset", Top.at)
<1>1. /\ ~Idle /\ Top.do = "drain" /\ agenda' = <<x>> \o Tail(agenda) /\ saved' = 0
      /\ UNCHANGED <<level, skipped, armed, kept, count, front, lists, effects, timers,
                     interrupt, nextActive, pending, acted, picked, head, step, promise,
                     misplaced>>
  BY DEF Drain, bits, lists
<1>2. Top.at \in 0..Len(level)
  BY <1>1, TopIsCall DEF Calls, Loops
<1>3. x \in Calls /\ x.do = "reset"
  BY <1>2 DEF Item, Calls, Loops
<1> HIDE DEF x
<1>4. promise = 0
  BY <1>1, NoDebt DEF Loops
<1>5. ChainType'
  BY <1>1, ReturnTypes DEF ChainType
<1>6. Served => Served'
  BY <1>1, <1>3, TopBecomes
<1>7. /\ BitsType' /\ ListsType' /\ QueueType' /\ ServedAreAwaited'
      /\ ArmedRecordsHaveOneEffect'
  BY <1>1, <1>6, AsBefore, ArmedAsBefore
<1> QED
  BY <1>1, <1>3, <1>4, <1>5, <1>7, BecomesInOrder

\* A trigger may retire its head at the end.
LEMMA FinishKeeps ==
  ASSUME CommandInv, Finish, UNCHANGED misplaced
  PROVE  CommandInv'
<1>1. /\ ~Idle /\ Top.do = "finish" /\ agenda' = Tail(agenda)
      /\ Retire(Top.at) \/ skipped' = skipped
      /\ UNCHANGED <<level, armed, kept, count, front, lists, interrupt, saved,
                     nextActive, pending, acted, picked, head, step, promise>>
  BY DEF Finish, chain
<1>2. promise = 0
  BY <1>1, NoDebt DEF Loops
<1>3. Top.at \in Rec
  BY <1>1, Below DEF Calls, Loops
<1>4. (skipped \subseteq Rec)'
  BY <1>1, <1>3, Retires
<1>5. ChainType' /\ DebtIsDue'
  BY <1>1, <1>2, ReturnTypes DEF ChainType, DebtIsDue
<1> QED
  BY <1>1, <1>4, <1>5, PopsInOrder

(* The end of a walk: nothing was owed.                                      *)
LEMMA WalksEnd ==
  ASSUME CommandInv, WalkEnd \/ TimersEnd, UNCHANGED misplaced
  PROVE  CommandInv'
<1>1. /\ ~Idle /\ Top.do \in {"walk", "timers"} /\ agenda' = Tail(agenda)
      /\ UNCHANGED <<level, skipped, armed, kept, count, front, lists, interrupt, saved,
                     nextActive, pending, acted, picked, head, step, promise>>
  BY DEF WalkEnd, TimersEnd, Walked, Walking, Timing, bits, chain
<1>2. promise = 0
  BY <1>1, NoDebt DEF Loops
<1>3. ChainType' /\ DebtIsDue' /\ (skipped \subseteq Rec)'
  BY <1>1, <1>2, ReturnTypes DEF ChainType, DebtIsDue
<1> QED
  BY <1>1, <1>3, PopsInOrder

(* The rest of a tick stands alone.                                          *)
LEMMA WorldStandsAlone ==
  ASSUME CommandInv, ~Idle, Top.do = "world"
  PROVE  /\ promise = 0 /\ Len(agenda) = 1 /\ Tail(agenda) = <<>>
         /\ ~Served /\ \A i \in DOMAIN front : ~front[i].served
<1>1. agenda \in Seq(Calls) /\ agenda # <<>> /\ Nested(agenda) /\ ServedAreAwaited
  BY DEF CommandInv, TypeOK, Idle
<1>2. Top = agenda[1] /\ DOMAIN agenda = 1..Len(agenda) /\ Len(agenda) \in Nat /\ Len(agenda) >= 1
  BY <1>1, Replaced DEF Top
<1>3. Len(agenda) = 1
  BY <1>1, <1>2 DEF Nested
<1>4. Tail(agenda) = <<>>
  <2>1. Tail(agenda) \in Seq(Calls) /\ Len(Tail(agenda)) = Len(agenda) - 1
    BY <1>1, HeadTailProperties
  <2>2. Len(Tail(agenda)) = 0
    BY <1>3, <2>1
  <2> QED
    BY <2>1, <2>2, EmptySeq
<1>5. ~Served
  BY <1>2, <1>3 DEF Served
<1>6. promise = 0
  BY NoDebt DEF Loops
<1> QED
  BY <1>1, <1>3, <1>4, <1>5, <1>6 DEF ServedAreAwaited

\* The world empties the queue, in which nothing is served, walks the effects, then
\* the timers, and drains: whatever the walks push is served.
LEMMA WorldKeeps ==
  ASSUME CommandInv, World, UNCHANGED misplaced
  PROVE  CommandInv'
<1> DEFINE a == IF effects # <<>> THEN <<Item("walk", 1)>> ELSE <<>>
           b == IF timers # <<>> THEN <<Item("timers", 1)>> ELSE <<>>
           c == IF effects # <<>> \/ timers # <<>> THEN <<Item("process", 0)>> ELSE <<>>
           p == (a \o b) \o c
<1>1. /\ ~Idle /\ Top.do = "world" /\ agenda' = p /\ front' = <<>>
      /\ UNCHANGED <<level, skipped, armed, kept, count, lists, effects, timers, interrupt,
                     saved, nextActive, pending, acted, picked, head, step, promise, misplaced>>
  BY DEF World, bits, lists, chain
<1>2. promise = 0 /\ Tail(agenda) = <<>>
  BY <1>1, WorldStandsAlone
<1>3. p \in Seq(Plain)
  <2>1. 0 \in 0..Len(level) /\ 1 \in Nat
    BY ReturnTypes DEF CommandInv, TypeOK, LevelType
  <2>2. /\ Item("walk", 1) \in Plain /\ Item("timers", 1) \in Plain
        /\ Item("process", 0) \in Plain
    BY <2>1 DEF Plain, Calls, Item
  <2>3. a \in Seq(Plain) /\ b \in Seq(Plain) /\ c \in Seq(Plain)
    BY <2>2
  <2> HIDE DEF a, b, c
  <2> QED
    BY <2>3, ConcatProperties
<1> HIDE DEF p
<1>4. agenda' = p \o Tail(agenda)
  BY <1>1, <1>2, <1>3, ConcatEmptySeq
<1>5. Fits(p) /\ Replaces(p) /\ \A i \in 1..Len(p) : p[i].do # "modified"
  BY <1>1, <1>3, <1>4, PlainFits DEF Replaces
<1>6. StackOK'
  BY <1>1, <1>5, StackKeeps DEF StackOK
<1>7. ChainType' /\ DebtIsDue'
  BY <1>1, <1>2, ReturnTypes DEF ChainType, DebtIsDue
<1>8. QueueType' /\ ServedAreAwaited'
  <2>1. front' \in Seq(Deferred') /\ Len(front') = 0 /\ DOMAIN front' = {}
    BY <1>1
  <2> QED
    BY <2>1, CommandAssumption DEF QueueType, ServedAreAwaited
<1>9. LevelType' /\ BitsType' /\ ListsType' /\ ArmedRecordsHaveOneEffect'
  BY <1>1, AsBefore, ArmedAsBefore
<1> QED
  BY <1>6, <1>7, <1>8, <1>9 DEF CommandInv, TypeOK, StackOK

(* An agenda that stays is as it should be.                                  *)
LEMMA Stays ==
  ASSUME CommandInv, UNCHANGED <<level, agenda, interrupt>>
  PROVE  StackOK' /\ (Served => Served')
BY SameCalls DEF StackOK, CommandInv, TypeOK, Nested, CountingIsKnown, PlainMessages, Served

(* A walk that goes on to the next place.                                    *)
LEMMA WalksOn ==
  ASSUME CommandInv, ~Idle, Top.do \in {"walk", "timers"}, WalkOn, level' = level
  PROVE  StackOK' /\ (Served => Served')
<1> DEFINE x == [Top EXCEPT !.at = @ + 1]
<1>1. Top \in Calls
  BY TopIsCall
<1>2. Top \in [do : {"walk", "timers"}, at : Nat, back : {FALSE}]
  BY <1>1 DEF Calls, Loops
<1>3. x \in Calls /\ x.do = Top.do
  <2>1. Top.at + 1 \in Nat /\ x = [Top EXCEPT !.at = Top.at + 1]
    BY <1>2
  <2>2. x \in [do : {"walk", "timers"}, at : Nat, back : {FALSE}] /\ x.do = Top.do
    BY <1>2, <2>1
  <2> QED
    BY <2>2 DEF Calls
<1>4. agenda' = <<x>> \o Tail(agenda)
  BY DEF WalkOn
<1> HIDE DEF x
<1> QED
  BY <1>3, <1>4, TopBecomes

(* A step of a walk, once the stack, the lists and the queue are settled.    *)
LEMMA WalkStepKeeps ==
  ASSUME CommandInv, ~Idle, Top.do \in {"walk", "timers"},
         UNCHANGED <<level, count, chain, promise>>,
         StackOK', BitsType', ListsType', QueueType', ServedAreAwaited',
         ArmedRecordsHaveOneEffect'
  PROVE  CommandInv'
<1>1. UNCHANGED <<interrupt, saved, nextActive, pending, acted, picked, head, step>>
  BY DEF chain
<1>2. promise = 0
  BY NoDebt DEF Loops
<1>3. ChainType' /\ DebtIsDue'
  BY <1>1, <1>2, ReturnTypes DEF ChainType, DebtIsDue
<1>4. LevelType'
  BY AsBefore
<1> QED
  BY <1>3, <1>4 DEF CommandInv, TypeOK, StackOK

(* A countdown goes on at its place.                                         *)
LEMMA CountsDown ==
  ASSUME NEW e \in Seq(Listed), NEW k \in DOMAIN e, NEW v \in Int,
         NEW f, f = [e EXCEPT ![k].left = v]
  PROVE  /\ f \in Seq(Listed) /\ Len(f) = Len(e)
         /\ \A r : Places(f, r) = Places(e, r)
<1>1. DOMAIN e = 1..Len(e) /\ Len(e) \in Nat /\ \A i \in DOMAIN e : e[i] \in Listed
  BY ElementOfSeq
<1>2. [e[k] EXCEPT !.left = v] \in Listed /\ [e[k] EXCEPT !.left = v].rec = e[k].rec
  BY <1>1 DEF Listed
<1>3. DOMAIN f = DOMAIN e /\ \A i \in DOMAIN e : f[i] \in Listed /\ f[i].rec = e[i].rec
  BY <1>1, <1>2
<1>4. f = [i \in 1..Len(e) |-> f[i]]
  BY <1>1
<1>5. f \in Seq(Listed) /\ Len(f) = Len(e)
  BY <1>1, <1>3, <1>4
<1>6. \A r : Places(f, r) = Places(e, r)
  BY <1>3 DEF Places
<1> QED
  BY <1>5, <1>6

(* An effect that ends leaves its record unarmed and unlisted.               *)
LEMMA EndsKeeps ==
  ASSUME CommandInv, NEW k \in DOMAIN effects, Ends(k),
         UNCHANGED <<level, timers, misplaced>>
  PROVE  /\ ListsType' /\ (armed \subseteq Rec)' /\ (kept \subseteq Reruns(level))'
         /\ ArmedRecordsHaveOneEffect'
<1> DEFINE r == effects[k].rec
           f == SubSeq(effects, 1, k - 1) \o SubSeq(effects, k + 1, Len(effects))
<1>1. /\ effects' = f
      /\ IF level[r].base = "delay" /\ level[r].multi
         THEN armed' = armed /\ kept' = kept
         ELSE armed' = armed \ {r} /\ kept' = kept \ {r}
  BY DEF Ends
<1>2. /\ effects \in Seq(Listed) /\ Len(effects) <= EffectCap /\ EffectCap \in Nat
      /\ armed \subseteq Rec /\ kept \subseteq Reruns(level)
  BY CommandAssumption DEF CommandInv, TypeOK, ListsType, BitsType
<1>3. k \in 1..Len(effects) /\ Len(effects) \in Nat
  BY <1>2
<1>4. /\ f \in Seq(Listed) /\ Len(f) = Len(effects) - 1
      /\ \A x : /\ r # x =>
                     Cardinality(Places(f, x)) = Cardinality(Places(effects, x))
                /\ r = x /\ Cardinality(Places(effects, x)) = 1 =>
                     Cardinality(Places(f, x)) = 0
  BY <1>2, <1>3, Unlinked
<1> HIDE DEF f
<1>5. ListsType'
  BY <1>1, <1>2, <1>3, <1>4, SameCalls DEF CommandInv, TypeOK, ListsType
<1>6. (armed \subseteq Rec)' /\ (kept \subseteq Reruns(level))'
  BY <1>1, <1>2, SameCalls DEF Reruns
<1>7. ArmedRecordsHaveOneEffect'
  <2> SUFFICES ASSUME NEW x \in (Of("delay") \cup Of("effect")) \ (misplaced \cup Reruns(level)),
                      ~level[x].multi
               PROVE  Cardinality(Places(effects', x)) = IF x \in armed' THEN 1 ELSE 0
    BY SameCalls DEF ArmedRecordsHaveOneEffect, Listings, Places, Reruns
  <2>1. Cardinality(Places(effects, x)) = IF x \in armed THEN 1 ELSE 0
    BY DEF CommandInv, ArmedRecordsHaveOneEffect, Listings, Places
  <2>2. CASE x # r
    <3>1. x \in armed' <=> x \in armed
      BY <1>1, <2>2
    <3>2. Cardinality(Places(effects', x)) = Cardinality(Places(effects, x))
      BY <1>1, <1>4, <2>2
    <3> QED
      BY <2>1, <3>1, <3>2
  <2>3. CASE x = r
    <3>1. x \notin armed'
      BY <1>1, <2>3
    <3>2. Cardinality(Places(effects, x)) # 0
      BY <1>2, <1>3, <2>3, PlacesAreFew
    <3>3. Cardinality(Places(effects', x)) = 0
      BY <1>1, <1>4, <2>1, <2>3, <3>2
    <3> QED
      BY <3>1, <3>3
  <2> QED
    BY <2>2, <2>3
<1> QED
  BY <1>5, <1>6, <1>7

\* A Delay counts down or, when there is room in the queue, is unlisted, disarmed
\* and queued in one step.
LEMMA WalkDelayKeeps ==
  ASSUME CommandInv, WalkDelay, UNCHANGED misplaced
  PROVE  CommandInv'
<1>1. PICK k \in DOMAIN effects :
        /\ Walking(k) /\ level[effects[k].rec].base = "delay"
        /\ \/ /\ WalkOn /\ effects' = [effects EXCEPT ![k].left = @ - 1]
              /\ UNCHANGED <<armed, kept, front>>
           \/ /\ Room /\ Push(level[effects[k].rec].next, Served) /\ Ends(k)
           \/ /\ WalkOn /\ UNCHANGED <<effects, armed, kept, front>>
        /\ UNCHANGED <<level, skipped, count, timers, chain, promise>>
  BY DEF WalkDelay
<1>2. /\ ~Idle /\ Top.do \in {"walk", "timers"} /\ interrupt' = interrupt
      /\ UNCHANGED <<level, skipped, count, timers, chain, promise, misplaced>>
  BY <1>1 DEF Walking, chain
<1>3. /\ effects \in Seq(Listed) /\ effects[k] \in Listed
      /\ effects[k].rec \in Rec /\ effects[k].left \in Int
      /\ level[effects[k].rec].next \in 0..Len(level)
  <2>1. effects \in Seq(Listed) /\ LevelType
    BY DEF CommandInv, TypeOK, ListsType
  <2>2. effects[k] \in Listed
    BY <2>1, ElementOfSeq
  <2>3. effects[k].rec \in Rec /\ effects[k].left \in Int
    BY <2>2 DEF Listed
  <2> QED
    BY <2>1, <2>2, <2>3, RecordFields
<1>4. CASE /\ WalkOn /\ effects' = [effects EXCEPT ![k].left = @ - 1]
           /\ UNCHANGED <<armed, kept, front>>
  <2>1. StackOK' /\ (Served => Served')
    BY <1>2, <1>4, WalksOn
  <2> DEFINE v == effects[k].left - 1
  <2>2. v \in Int /\ effects' = [effects EXCEPT ![k].left = v]
    BY <1>3, <1>4
  <2> HIDE DEF v
  <2>3. /\ effects' \in Seq(Listed) /\ Len(effects') = Len(effects)
        /\ \A r : Places(effects', r) = Places(effects, r)
    <3>1. effects \in Seq(Listed)
      BY <1>3
    <3>2. \A f : f = [effects EXCEPT ![k].left = v] =>
            /\ f \in Seq(Listed) /\ Len(f) = Len(effects)
            /\ \A r : Places(f, r) = Places(effects, r)
      BY <2>2, <3>1, CountsDown
    <3> QED
      BY <2>2, <3>2
  <2>4. ListsType'
    BY <1>2, <2>3, SameCalls DEF CommandInv, TypeOK, ListsType
  <2>5. ArmedRecordsHaveOneEffect'
    BY <1>2, <1>4, <2>3, SameCalls
    DEF CommandInv, ArmedRecordsHaveOneEffect, Listings, Places, Reruns
  <2>6. BitsType' /\ QueueType' /\ ServedAreAwaited'
    BY <1>2, <1>4, <2>1, AsBefore
  <2> QED
    BY <1>2, <2>1, <2>4, <2>5, <2>6, WalkStepKeeps
<1>5. CASE Room /\ Push(level[effects[k].rec].next, Served) /\ Ends(k)
  <2>1. agenda' = agenda
    BY <1>5 DEF Ends
  <2>2. StackOK' /\ (Served => Served')
    BY <1>2, <2>1, Stays
  <2>3. QueueType' /\ ServedAreAwaited'
    BY <1>2, <1>3, <1>5, <2>2, PushKeeps
  <2>4. /\ ListsType' /\ (armed \subseteq Rec)' /\ (kept \subseteq Reruns(level))'
        /\ ArmedRecordsHaveOneEffect'
    BY <1>2, <1>5, EndsKeeps
  <2>5. BitsType'
    BY <1>2, <2>4, ReturnTypes DEF BitsType
  <2> QED
    BY <1>2, <2>2, <2>3, <2>4, <2>5, WalkStepKeeps
<1>6. CASE WalkOn /\ UNCHANGED <<effects, armed, kept, front>>
  <2>1. StackOK' /\ (Served => Served')
    BY <1>2, <1>6, WalksOn
  <2>2. /\ BitsType' /\ ListsType' /\ QueueType' /\ ServedAreAwaited'
        /\ ArmedRecordsHaveOneEffect'
    BY <1>2, <1>6, <2>1, AsBefore, ArmedAsBefore
  <2> QED
    BY <1>2, <2>1, <2>2, WalkStepKeeps
<1> QED
  BY <1>1, <1>4, <1>5, <1>6

\* An effect that is over is unlisted and disarmed in one step.
LEMMA WalkEffectKeeps ==
  ASSUME CommandInv, WalkEffect, UNCHANGED misplaced
  PROVE  CommandInv'
<1>1. PICK k \in DOMAIN effects :
        /\ Walking(k)
        /\ \/ WalkOn /\ UNCHANGED <<effects, armed, kept, skipped>>
           \/ Ends(k) /\ Retire(effects[k].rec)
        /\ UNCHANGED <<level, count, front, timers, chain, promise>>
  BY DEF WalkEffect
<1>2. /\ ~Idle /\ Top.do \in {"walk", "timers"} /\ interrupt' = interrupt
      /\ UNCHANGED <<level, count, front, timers, chain, promise, misplaced>>
  BY <1>1 DEF Walking, chain
<1>3. effects[k].rec \in Rec
  <2>1. effects \in Seq(Listed)
    BY DEF CommandInv, TypeOK, ListsType
  <2>2. effects[k] \in Listed
    BY <2>1, ElementOfSeq
  <2> QED
    BY <2>2 DEF Listed
<1>4. CASE WalkOn /\ UNCHANGED <<effects, armed, kept, skipped>>
  <2>1. StackOK' /\ (Served => Served')
    BY <1>2, <1>4, WalksOn
  <2>2. /\ BitsType' /\ ListsType' /\ QueueType' /\ ServedAreAwaited'
        /\ ArmedRecordsHaveOneEffect'
    BY <1>2, <1>4, <2>1, AsBefore, ArmedAsBefore
  <2> QED
    BY <1>2, <2>1, <2>2, WalkStepKeeps
<1>5. CASE Ends(k) /\ Retire(effects[k].rec)
  <2>1. agenda' = agenda
    BY <1>5 DEF Ends
  <2>2. StackOK' /\ (Served => Served')
    BY <1>2, <2>1, Stays
  <2>3. QueueType' /\ ServedAreAwaited'
    BY <1>2, <2>2, AsBefore
  <2>4. /\ ListsType' /\ (armed \subseteq Rec)' /\ (kept \subseteq Reruns(level))'
        /\ ArmedRecordsHaveOneEffect'
    BY <1>2, <1>5, EndsKeeps
  <2>5. BitsType'
    BY <1>2, <1>3, <1>5, <2>4, Retires DEF BitsType
  <2> QED
    BY <1>2, <2>2, <2>3, <2>4, <2>5, WalkStepKeeps
<1> QED
  BY <1>1, <1>4, <1>5

\* A timer counts down, queues its chain or waits for another try.
LEMMA TimerStepKeeps ==
  ASSUME CommandInv, TimerStep, UNCHANGED misplaced
  PROVE  CommandInv'
<1>1. PICK k \in DOMAIN timers :
        LET r == timers[k].rec IN
        /\ Timing(k) /\ WalkOn
        /\ \/ UNCHANGED <<timers, front>>
           \/ timers' = [timers EXCEPT ![k].left = @ - 1] /\ UNCHANGED front
           \/ timers' = [timers EXCEPT ![k].left = TimerRetry] /\ UNCHANGED front
           \/ /\ Room /\ timers' = [timers EXCEPT ![k].left = level[r].len + 1]
              /\ Push(level[r].next, Served)
        /\ UNCHANGED <<bits, count, effects, chain, promise>>
  BY DEF TimerStep
<1> DEFINE r == timers[k].rec
<1>2. /\ ~Idle /\ Top.do \in {"walk", "timers"} /\ WalkOn
      /\ UNCHANGED <<level, skipped, armed, kept, count, effects, chain, promise, misplaced>>
  BY <1>1 DEF Timing, bits
<1>3. /\ timers \in Seq(Listed) /\ timers[k].left - 1 \in Int /\ TimerRetry \in Int
      /\ level[r].len + 1 \in Int /\ level[r].next \in 0..Len(level)
  <2>1. timers \in Seq(Listed) /\ LevelType
    BY DEF CommandInv, TypeOK, ListsType
  <2>2. timers[k] \in Listed
    BY <2>1, ElementOfSeq
  <2>3. r \in Rec /\ timers[k].left \in Int
    BY <2>2 DEF Listed
  <2> HIDE DEF r
  <2>4. level[r].len + 1 \in Int /\ level[r].next \in 0..Len(level)
    BY <2>1, <2>3, RecordFields
  <2>5. timers[k].left - 1 \in Int /\ TimerRetry \in Int
    BY <2>3, CommandAssumption
  <2> QED
    BY <2>1, <2>4, <2>5
<1>4. StackOK' /\ (Served => Served')
  BY <1>2, WalksOn
<1>5. timers' \in Seq(Listed)
  <2>1. \A v \in Int : [timers EXCEPT ![k].left = v] \in Seq(Listed)
    BY <1>3, CountsDown
  <2> QED
    BY <1>1, <1>3, <2>1
<1>6. ListsType'
  BY <1>2, <1>5, SameCalls DEF CommandInv, TypeOK, ListsType
<1>7. QueueType' /\ ServedAreAwaited'
  <2>1. CASE front' = front
    BY <1>2, <1>4, <2>1, AsBefore
  <2>2. CASE Room /\ Push(level[r].next, Served)
    BY <1>2, <1>3, <1>4, <2>2, PushKeeps
  <2> QED
    BY <1>1, <2>1, <2>2
<1>8. BitsType' /\ ArmedRecordsHaveOneEffect'
  BY <1>2, AsBefore, ArmedAsBefore
<1> QED
  BY <1>2, <1>4, <1>6, <1>7, <1>8, WalkStepKeeps

-----------------------------------------------------------------------------
(* Triggers and the tick.                                                    *)

(* When nothing runs, nothing is owed and nobody's follow-ups are waiting.   *)
LEMMA NothingRuns ==
  ASSUME CommandInv, Idle
  PROVE  promise = 0 /\ ~Served /\ \A i \in DOMAIN front : ~front[i].served
<1>1. promise = 0
  BY NoDebt
<1>2. ~Served
  BY DEF Served, Idle
<1> QED
  BY <1>1, <1>2 DEF CommandInv, ServedAreAwaited

(* Calls that wait for nobody, alone or above the rest of a tick.            *)
LEMMA PlainStack ==
  ASSUME LevelType, NEW p \in Seq(Plain), NEW q,
         q = p \/ q = Append(p, Item("world", 0))
  PROVE  q \in Seq(Calls) /\ Nested(q) /\ \A i \in DOMAIN q : q[i].do # "modified"
<1> DEFINE w == Item("world", 0)
<1>1. p \in Seq(Calls) /\ Len(p) \in Nat /\ DOMAIN p = 1..Len(p)
  <2>1. Plain \subseteq Calls
    BY DEF Plain
  <2> QED
    BY <2>1
<1>2. \A i \in 1..Len(p) : p[i].do \notin {"inner", "failed", "world", "modified"}
  <2>1. \A i \in 1..Len(p) : p[i] \in Plain
    BY ElementOfSeq
  <2> QED
    BY <2>1 DEF Plain
<1>3. w.do = "world" /\ w \in Calls
  <2>1. 0 \in 0..Len(level)
    BY RecordFields
  <2> QED
    BY <2>1 DEF Item, Calls, Loops
<1> HIDE DEF w
<1>4. CASE q = p
  BY <1>1, <1>2, <1>4 DEF Nested
<1>5. CASE q = Append(p, w)
  <2>1. /\ q \in Seq(Calls) /\ Len(q) = Len(p) + 1 /\ DOMAIN q = 1..Len(q)
        /\ \A i \in 1..Len(p) : q[i] = p[i]
        /\ q[Len(q)] = w
    <3>1. /\ q \in Seq(Calls) /\ Len(q) = Len(p) + 1
          /\ \A i \in 1..Len(p) : q[i] = p[i]
          /\ q[Len(p) + 1] = w
      <4> SUFFICES /\ Append(p, w) \in Seq(Calls) /\ Len(Append(p, w)) = Len(p) + 1
                   /\ \A i \in 1..Len(p) : Append(p, w)[i] = p[i]
                   /\ Append(p, w)[Len(p) + 1] = w
        BY <1>5
      <4>1. p \in Seq(Calls) /\ w \in Calls
        BY <1>1, <1>3
      <4> QED
        BY <4>1, AppendProperties
    <3> QED
      BY <3>1
  <2>2. \A i \in 1..Len(q) : i \in 1..Len(p) \/ i = Len(q)
    BY <1>1, <2>1
  <2>3. \A i \in 1..Len(q) :
          /\ q[i].do \notin {"inner", "failed", "modified"}
          /\ q[i].do = "world" => i = Len(q)
    BY <1>2, <1>3, <2>1, <2>2
  <2> QED
    BY <2>1, <2>3 DEF Nested
<1> QED
  BY <1>4, <1>5 DEF w

(* A trigger starts its calls.                                               *)
LEMMA StartsInOrder ==
  ASSUME CommandInv, Idle, (agenda \in Seq(Calls))', Nested(agenda)',
         \A i \in DOMAIN agenda' : agenda'[i].do # "modified",
         front' = front \/ front' = <<>>, ChainType', promise' = promise,
         UNCHANGED <<bits, lists, misplaced>>
  PROVE  CommandInv'
<1>1. UNCHANGED <<level, skipped, armed, kept, effects, timers, misplaced>>
  BY DEF bits, lists
<1>2. promise' = 0 /\ \A i \in DOMAIN front : ~front[i].served
  BY NothingRuns
<1>3. QueueType' /\ ServedAreAwaited'
  <2>1. CASE front' = front
    BY <1>1, <1>2, <2>1, AsBefore DEF ServedAreAwaited
  <2>2. CASE front' = <<>>
    <3>1. front' \in Seq(Deferred') /\ Len(front') = 0 /\ DOMAIN front' = {}
      BY <2>2
    <3> QED
      BY <3>1, CommandAssumption DEF QueueType, ServedAreAwaited
  <2> QED
    BY <2>1, <2>2
<1>4. DebtIsDue' /\ CountingIsKnown'
  BY <1>2 DEF DebtIsDue, CountingIsKnown
<1>5. LevelType' /\ BitsType' /\ ListsType' /\ ArmedRecordsHaveOneEffect'
  BY <1>1, AsBefore, ArmedAsBefore
<1> QED
  BY <1>3, <1>4, <1>5 DEF CommandInv, TypeOK

(* The calls of a trigger of h.                                              *)
LEMMA FiresAreCalls ==
  ASSUME LevelType, NEW h \in Rec
  PROVE  /\ Fires(h) \in Seq(Plain) /\ <<Item("reset", level[h].next)>> \in Seq(Plain)
         /\ <<Item("exec", level[h].next), Item("process", 0)>> \in Seq(Plain)
<1>1. level[h].next \in 0..Len(level) /\ 0 \in 0..Len(level)
  BY RecordFields
<1>2. /\ Item("reset", level[h].next) \in Plain /\ Item("exec", level[h].next) \in Plain
      /\ Item("process", 0) \in Plain /\ Item("finish", h) \in Plain
  BY <1>1 DEF Item, Plain, Calls, Loops
<1> QED
  BY <1>2 DEF Fires

\* A contact starts the chain behind its head and drains after it.
LEMMA ContactKeeps ==
  ASSUME CommandInv, Contact, UNCHANGED misplaced
  PROVE  CommandInv'
<1>1. PICK h \in Of("contact") :
        /\ Idle /\ pending' = 0
        /\ agenda' = IF Blocked(level[h].next) THEN <<>> ELSE Fires(h)
        /\ UNCHANGED <<bits, count, front, lists, interrupt, saved, nextActive,
                       acted, picked, head, step, promise>>
  BY DEF Contact
<1>2. h \in Rec /\ LevelType
  BY DEF Of, CommandInv, TypeOK
<1>3. agenda' \in Seq(Plain) /\ level' = level
  BY <1>1, <1>2, FiresAreCalls DEF bits
<1>4. /\ agenda' \in Seq(Calls) /\ Nested(agenda)'
      /\ \A i \in DOMAIN agenda' : agenda'[i].do # "modified"
  BY <1>2, <1>3, PlainStack DEF Nested
<1>5. ChainType'
  BY <1>1, <1>3, ReturnTypes DEF ChainType
<1> QED
  BY <1>1, <1>3, <1>4, <1>5, SameCalls, StartsInOrder

\* A click empties the queue, in which nothing is served, and starts its chain.
LEMMA ClickKeeps ==
  ASSUME CommandInv, Click, UNCHANGED misplaced
  PROVE  CommandInv'
<1>1. PICK h \in Of("click") :
        /\ Idle /\ pending' = 0 /\ acted' = FALSE /\ interrupt' = 0
        /\ IF Blocked(level[h].next)
           THEN UNCHANGED <<front, agenda, head>>
           ELSE /\ front' = <<>> /\ head' = h
                /\ agenda' = <<Item("exec", level[h].next), Item("process", 0)>>
        /\ UNCHANGED <<bits, count, lists, saved, nextActive, picked, step, promise>>
  BY DEF Click
<1>2. h \in Rec /\ LevelType
  BY DEF Of, CommandInv, TypeOK
<1>3. level' = level /\ agenda' \in Seq(Plain) /\ (front' = front \/ front' = <<>>)
  <2>1. <<>> \in Seq(Plain) /\ agenda = <<>>
    BY <1>1 DEF Idle
  <2>2. <<Item("exec", level[h].next), Item("process", 0)>> \in Seq(Plain)
    BY <1>2, FiresAreCalls
  <2>3. level' = level /\ (front' = front \/ front' = <<>>)
    BY <1>1 DEF bits
  <2>4. \/ agenda' = agenda
        \/ agenda' = <<Item("exec", level[h].next), Item("process", 0)>>
    BY <1>1
  <2> QED
    BY <2>1, <2>2, <2>3, <2>4
<1>4. /\ agenda' \in Seq(Calls) /\ Nested(agenda)'
      /\ \A i \in DOMAIN agenda' : agenda'[i].do # "modified"
  BY <1>2, <1>3, PlainStack DEF Nested
<1>5. ChainType'
  <2>1. 0 \in 0..2 /\ head' \in Rec \cup {0}
    BY <1>1, <1>2, <1>3, ReturnTypes
  <2>2. /\ interrupt' = 0 /\ pending' = 0 /\ acted' = FALSE
        /\ UNCHANGED <<count, saved, nextActive, picked, step, promise>>
    BY <1>1
  <2> QED
    BY <1>3, <2>1, <2>2, ReturnTypes DEF ChainType
<1> QED
  BY <1>1, <1>3, <1>4, <1>5, SameCalls, StartsInOrder

\* A hook starts a chain and drains nothing after it.
LEMMA HookKeeps ==
  ASSUME CommandInv, Hook, UNCHANGED misplaced
  PROVE  CommandInv'
<1>1. PICK h \in Of("hook") :
        /\ Idle /\ agenda' = <<Item("reset", level[h].next)>>
        /\ UNCHANGED <<bits, count, front, lists, chain, promise>>
  BY DEF Hook
<1>2. h \in Rec /\ LevelType
  BY DEF Of, CommandInv, TypeOK
<1>3. agenda' \in Seq(Plain) /\ level' = level
  BY <1>1, <1>2, FiresAreCalls DEF bits
<1>4. /\ agenda' \in Seq(Calls) /\ Nested(agenda)'
      /\ \A i \in DOMAIN agenda' : agenda'[i].do # "modified"
  BY <1>2, <1>3, PlainStack DEF Nested
<1>5. ChainType'
  BY <1>1, <1>3, ReturnTypes DEF ChainType, chain
<1> QED
  BY <1>1, <1>3, <1>4, <1>5, SameCalls, StartsInOrder

\* The tick starts the chain of a sector, or none, with the world after it.
LEMMA TickKeeps ==
  ASSUME CommandInv, Tick, UNCHANGED misplaced
  PROVE  CommandInv'
<1>1. /\ Idle
      /\ \/ agenda' = <<Item("world", 0)>>
         \/ \E h \in Of("sector") : agenda' = Append(Fires(h), Item("world", 0))
      /\ UNCHANGED <<bits, count, front, lists, chain, promise>>
  BY DEF Tick
<1>2. level' = level /\ LevelType
  BY <1>1 DEF bits, CommandInv, TypeOK
<1>3. PICK p \in Seq(Plain) : agenda' = Append(p, Item("world", 0))
  <2>1. CASE agenda' = <<Item("world", 0)>>
    <3>1. <<Item("world", 0)>> = Append(<<>>, Item("world", 0)) /\ <<>> \in Seq(Plain)
      OBVIOUS
    <3> QED
      BY <2>1, <3>1
  <2>2. CASE \E h \in Of("sector") : agenda' = Append(Fires(h), Item("world", 0))
    BY <1>2, <2>2, FiresAreCalls DEF Of
  <2> QED
    BY <1>1, <2>1, <2>2
<1>4. /\ agenda' \in Seq(Calls) /\ Nested(agenda)'
      /\ \A i \in DOMAIN agenda' : agenda'[i].do # "modified"
  BY <1>2, <1>3, PlainStack DEF Nested
<1>5. ChainType'
  BY <1>1, <1>2, ReturnTypes DEF ChainType, chain
<1> QED
  BY <1>1, <1>2, <1>4, <1>5, SameCalls, StartsInOrder

-----------------------------------------------------------------------------
(* What a load and a return list.                                            *)

(* The numbers of a finite set in order: each of them once.                  *)
LEMMA EachOnce ==
  ASSUME NEW S \in SUBSET Nat, IsFiniteSet(S)
  PROVE  LET q == InOrder(S) IN
         /\ q \in Seq(S) /\ DOMAIN q = 1..Cardinality(S) /\ Len(q) = Cardinality(S)
         /\ Cardinality(S) \in Nat
         /\ \A i \in DOMAIN q : q[i] \in S
         /\ \A i, j \in DOMAIN q : q[i] = q[j] => i = j
         /\ \A v \in S : \E i \in DOMAIN q : q[i] = v
<1> DEFINE Rank(v) == Cardinality({u \in S : u <= v})
           n == Cardinality(S)
           f == [v \in S |-> Rank(v)]
           q == InOrder(S)
<1>1. n \in Nat /\ \A u \in S : u \in Nat
  BY FS_CardinalityType
<1>2. ASSUME NEW v \in S
      PROVE  Rank(v) \in 1..n /\ IsFiniteSet({u \in S : u <= v})
  <2>1. IsFiniteSet({u \in S : u <= v}) /\ Rank(v) <= n
    BY FS_Subset
  <2>2. Rank(v) \in Nat /\ (Rank(v) = 0 <=> {u \in S : u <= v} = {})
    BY <2>1, FS_CardinalityType, FS_EmptySet
  <2>3. v \in {u \in S : u <= v}
    BY <1>1
  <2> QED
    BY <1>1, <2>1, <2>2, <2>3
<1>3. ASSUME NEW v \in S, NEW w \in S, v < w
      PROVE  Rank(v) # Rank(w)
  <2>1. \A u \in S : u <= v => u <= w
    BY <1>1, <1>3
  <2>2. {u \in S : u <= v} \subseteq {u \in S : u <= w}
    BY <2>1
  <2>3. w \in {u \in S : u <= w} /\ w \notin {u \in S : u <= v}
    BY <1>1, <1>3
  <2> QED
    BY <1>2, <2>2, <2>3, FS_Subset
<1>4. \A v, w \in S : Rank(v) = Rank(w) => v = w
  BY <1>1, <1>3
<1>5. f \in Injection(S, 1..n)
  <2>1. f \in [S -> 1..n]
    BY <1>2
  <2>2. \A v, w \in S : f[v] = f[w] => v = w
    BY <1>4
  <2> QED
    BY <2>1, <2>2 DEF Injection, IsInjective
<1>6. f \in Surjection(S, 1..n)
  <2>1. IsFiniteSet(1..n) /\ Cardinality(1..n) = n
    BY <1>1, FS_Interval
  <2> QED
    BY <1>5, <2>1, FS_Injection
<1>7. \A i \in 1..n : \E v \in S : Rank(v) = i
  BY <1>6 DEF Surjection
<1>8. DOMAIN q = 1..n /\ \A i \in 1..n : q[i] \in S /\ Rank(q[i]) = i
  BY <1>7 DEF InOrder
<1>9. q \in Seq(S) /\ Len(q) = n
  <2>1. q = [i \in 1..n |-> q[i]]
    BY DEF InOrder
  <2>2. n \in Nat /\ \A i \in 1..n : q[i] \in S
    BY <1>1, <1>8
  <2> HIDE DEF q, n
  <2> QED
    BY <2>1, <2>2
<1>10. \A v \in S : \E i \in 1..n : q[i] = v
  BY <1>2, <1>4, <1>8
<1> HIDE DEF Rank, q
<1>11. \A i, j \in 1..n : q[i] = q[j] => i = j
  BY <1>8
<1> QED
  BY <1>1, <1>8, <1>9, <1>10, <1>11 DEF q

(* The authored effects fit the pool, and the timers of the map are listed.   *)
LEMMA AuthoredLists ==
  ASSUME LevelType
  PROVE  /\ AuthoredEffects(level) \in Seq(Listed)
         /\ Len(AuthoredEffects(level)) <= EffectCap
         /\ \A i \in DOMAIN AuthoredEffects(level) :
              AuthoredEffects(level)[i].rec \in Reruns(level)
         /\ AuthoredTimers(level) \in Seq(Listed)
<1>1. Rec \in SUBSET Nat /\ IsFiniteSet(Rec) /\ Rec = DOMAIN level
  BY RecordFields, FS_Interval DEF Rec
<1>2. \A r \in Rec : level[r].len \in Int
  BY RecordFields
<1> DEFINE R == Reruns(level)
           q == InOrder(R)
           n == Min({Len(q), EffectCap})
<1>3. R \in SUBSET Rec /\ R \in SUBSET Nat /\ IsFiniteSet(R)
  BY <1>1, FS_Subset DEF Reruns
<1>4. q \in Seq(R) /\ DOMAIN q = 1..Len(q) /\ Len(q) \in Nat /\ \A i \in 1..Len(q) : q[i] \in R
  BY <1>3, EachOnce
<1>5. n \in 0..Len(q) /\ n <= EffectCap
  <2> DEFINE S == {Len(q), EffectCap}
  <2>1. EffectCap \in Nat
    BY CommandAssumption
  <2>2. \E x \in S : \A y \in S : x <= y
    BY <1>4, <2>1
  <2>3. n \in S /\ \A y \in S : n <= y
    BY <2>2 DEF Min
  <2> HIDE DEF n, q
  <2> QED
    BY <1>4, <2>1, <2>3
<1>6. AuthoredEffects(level) =
        [i \in 1..n |-> [rec |-> q[n + 1 - i], left |-> level[q[n + 1 - i]].len]]
  BY DEF AuthoredEffects
<1> DEFINE e == [i \in 1..n |-> [rec |-> q[n + 1 - i], left |-> level[q[n + 1 - i]].len]]
<1> HIDE DEF R, q, n
<1>7. \A i \in 1..n : q[n + 1 - i] \in R
  <2>1. \A i \in 1..n : n + 1 - i \in 1..Len(q)
    BY <1>4, <1>5
  <2> QED
    BY <1>4, <2>1
<1>8. \A i \in 1..n : e[i] \in Listed /\ e[i].rec \in R
  BY <1>2, <1>3, <1>7 DEF Listed
<1>9. n \in Nat
  BY <1>4, <1>5
<1>10. DOMAIN e = 1..n /\ e = [i \in 1..n |-> e[i]]
  OBVIOUS
<1> HIDE DEF e
<1>11. e \in Seq(Listed) /\ Len(e) = n
  BY <1>8, <1>9, <1>10
<1>12. AuthoredTimers(level) \in Seq(Listed)
  <2> DEFINE T == {r \in DOMAIN level : level[r].base = "timer"}
             s == InOrder(T)
  <2>1. T \in SUBSET Rec /\ T \in SUBSET Nat /\ IsFiniteSet(T)
    BY <1>1, FS_Subset
  <2>2. AuthoredTimers(level) =
          [i \in DOMAIN s |-> [rec |-> s[i], left |-> level[s[i]].len + 1]]
    BY DEF AuthoredTimers
  <2> HIDE DEF T
  <2>3. /\ DOMAIN s = 1..Cardinality(T) /\ Cardinality(T) \in Nat
        /\ \A i \in DOMAIN s : s[i] \in T
    BY <2>1, EachOnce
  <2> HIDE DEF s
  <2>4. \A i \in DOMAIN s : [rec |-> s[i], left |-> level[s[i]].len + 1] \in Listed
    <3> SUFFICES ASSUME NEW i \in DOMAIN s
                 PROVE  [rec |-> s[i], left |-> level[s[i]].len + 1] \in Listed
      OBVIOUS
    <3>1. s[i] \in Rec
      BY <2>1, <2>3
    <3>2. level[s[i]].len + 1 \in Int
      BY <1>2, <3>1
    <3> QED
      BY <3>1, <3>2 DEF Listed
  <2> QED
    BY <2>2, <2>3, <2>4
<1> QED
  BY <1>5, <1>6, <1>8, <1>10, <1>11, <1>12 DEF e, R

(* The map as it is loaded.                                                  *)
LEMMA InitialCommands ==
  ASSUME WInit
  PROVE  CommandInv
<1> USE DEF WInit, Init
<1>1. LevelType
  BY CommandAssumption DEF LevelType
<1>2. BitsType
  BY DEF BitsType, Reruns, Rec
<1>3. ListsType
  BY <1>1, AuthoredLists DEF ListsType
<1>4. QueueType /\ ServedAreAwaited
  <2>1. front \in Seq(Deferred) /\ Len(front) = 0 /\ DOMAIN front = {}
    OBVIOUS
  <2> QED
    BY <2>1, CommandAssumption DEF QueueType, ServedAreAwaited
<1>5. ChainType
  <2>1. 0 \in 0..2 /\ 0 \in 0..Len(level) /\ 0 \in Int
    BY <1>1, RecordFields
  <2> QED
    BY <2>1 DEF ChainType
<1>6. agenda \in Seq(Calls) /\ Nested(agenda) /\ CountingIsKnown /\ DebtIsDue
  BY DEF Nested, CountingIsKnown, DebtIsDue
<1>7. ArmedRecordsHaveOneEffect
  <2> SUFFICES ASSUME NEW x \in (Of("delay") \cup Of("effect")) \ (misplaced \cup Reruns(level))
               PROVE  Cardinality(Places(effects, x)) = IF x \in armed THEN 1 ELSE 0
    BY DEF ArmedRecordsHaveOneEffect, Listings, Places
  <2>1. x \notin armed
    OBVIOUS
  <2>2. effects \in Seq(Listed) /\ \A i \in DOMAIN effects : effects[i].rec # x
    BY <1>1, AuthoredLists
  <2>3. Cardinality(Places(effects, x)) = 0
    BY <2>2, PlacesAreFew
  <2> QED
    BY <2>1, <2>3
<1> QED
  BY <1>1, <1>2, <1>3, <1>4, <1>5, <1>6, <1>7 DEF CommandInv, TypeOK

(* The effects that a journey saves: every entry whose record is not active    *)
(* as authored, once.                                                        *)
LEMMA SavedOnce ==
  ASSUME CommandInv
  PROVE  LET K == {k \in DOMAIN effects : effects[k].rec \notin kept}
             q == InOrder(K)
         IN  /\ DOMAIN SavedEffects = DOMAIN q /\ DOMAIN q = 1..Len(SavedEffects)
             /\ Len(SavedEffects) \in Nat
             /\ \A i \in DOMAIN q : q[i] \in K /\ SavedEffects[i] = effects[q[i]]
             /\ \A i, j \in DOMAIN q : q[i] = q[j] => i = j
             /\ \A k \in K : \E i \in DOMAIN q : q[i] = k
             /\ \A i \in DOMAIN SavedEffects : SavedEffects[i] \in Listed
<1> DEFINE K == {k \in DOMAIN effects : effects[k].rec \notin kept}
           q == InOrder(K)
<1>1. effects \in Seq(Listed) /\ \A i \in DOMAIN effects : effects[i] \in Listed
  <2>1. effects \in Seq(Listed)
    BY DEF CommandInv, TypeOK, ListsType
  <2> QED
    BY <2>1, ElementOfSeq
<1>2. K \in SUBSET Nat /\ IsFiniteSet(K)
  <2>1. DOMAIN effects = 1..Len(effects) /\ IsFiniteSet(1..Len(effects))
    BY <1>1, FS_Interval
  <2>2. K \in SUBSET (1..Len(effects))
    BY <2>1
  <2> QED
    BY <2>1, <2>2, FS_Subset
<1>3. SavedEffects = [i \in DOMAIN q |-> effects[q[i]]]
  BY DEF SavedEffects
<1>4. \A k \in K : k \in DOMAIN effects
  OBVIOUS
<1> HIDE DEF K
<1>5. /\ DOMAIN q = 1..Cardinality(K) /\ Cardinality(K) \in Nat
      /\ \A i \in DOMAIN q : q[i] \in K
      /\ \A i, j \in DOMAIN q : q[i] = q[j] => i = j
      /\ \A k \in K : \E i \in DOMAIN q : q[i] = k
  BY <1>2, EachOnce
<1> HIDE DEF q
<1>6. DOMAIN SavedEffects = DOMAIN q /\ \A i \in DOMAIN q : SavedEffects[i] = effects[q[i]]
  BY <1>3
<1>7. Len(SavedEffects) = Cardinality(K)
  BY <1>5, <1>6
<1>8. \A i \in DOMAIN SavedEffects : SavedEffects[i] \in Listed
  BY <1>1, <1>4, <1>5, <1>6
<1> QED
  BY <1>5, <1>6, <1>7, <1>8 DEF q, K

(* Those that find room are the first of them, behind what the map lists.     *)
LEMMA PlacedFirst ==
  ASSUME CommandInv
  PROVE  LET n == Cardinality(Placed)
             a == AuthoredEffects(level)
         IN  /\ n \in Nat /\ Placed = 1..n /\ n + Len(a) <= EffectCap
             /\ Placed \subseteq DOMAIN SavedEffects
             /\ Dispatched \in Seq(Listed) /\ Len(Dispatched) = n + Len(a)
             /\ \A i \in 1..n : /\ n + 1 - i \in Placed
                                /\ Dispatched[i] = SavedEffects[n + 1 - i]
             /\ \A i \in DOMAIN Dispatched : i > n => Dispatched[i].rec \in Reruns(level)
             /\ Placed # DOMAIN SavedEffects => Len(Dispatched) >= 1
<1> DEFINE m == Len(SavedEffects)
           a == AuthoredEffects(level)
           l == Len(a)
           p == IF l + m <= EffectCap THEN m ELSE EffectCap - l
           n == Cardinality(Placed)
           b == [i \in 1..n |-> SavedEffects[n + 1 - i]]
<1>1. /\ a \in Seq(Listed) /\ l \in Nat /\ l <= EffectCap
      /\ \A i \in DOMAIN a : a[i].rec \in Reruns(level)
  BY AuthoredLists DEF CommandInv, TypeOK
<1>2. /\ m \in Nat /\ DOMAIN SavedEffects = 1..m /\ EffectCap \in Nat /\ EffectCap >= 1
      /\ \A i \in DOMAIN SavedEffects : SavedEffects[i] \in Listed
  BY SavedOnce, CommandAssumption
<1>3. Placed = {i \in 1..m : l + i <= EffectCap}
  BY <1>2 DEF Placed
<1> HIDE DEF m, a
<1>4. Placed = 1..p /\ p \in Nat /\ p <= m /\ p + l <= EffectCap
  BY <1>1, <1>2, <1>3
<1>5. n = p
  <2> HIDE DEF p
  <2> QED
    BY <1>4, FS_Interval
<1>6. n \in Nat /\ Placed = 1..n /\ n <= m /\ n + l <= EffectCap
  <2> HIDE DEF p
  <2> QED
    BY <1>4, <1>5
<1>7. n # m => n + l >= 1
  <2>1. n # m => n = EffectCap - l
    BY <1>5
  <2> HIDE DEF n
  <2> QED
    BY <1>1, <1>2, <2>1
<1>8. Dispatched = b \o a
  BY DEF Dispatched, a
<1> HIDE DEF n
<1>9. \A i \in 1..n : n + 1 - i \in 1..n /\ n + 1 - i \in 1..m
  BY <1>2, <1>6
<1>10. b \in Seq(Listed) /\ Len(b) = n /\ \A i \in 1..n : b[i] = SavedEffects[n + 1 - i]
  <2>1. \A i \in 1..n : SavedEffects[n + 1 - i] \in Listed
    BY <1>2, <1>9
  <2> QED
    BY <1>6, <2>1
<1> HIDE DEF b
<1>11. /\ Dispatched \in Seq(Listed) /\ Len(Dispatched) = n + l
       /\ \A i \in 1..n + l : Dispatched[i] = IF i <= n THEN b[i] ELSE a[i - n]
  BY <1>1, <1>8, <1>10, ConcatProperties
<1>12. \A i \in 1..n : Dispatched[i] = SavedEffects[n + 1 - i]
  <2>1. \A i \in 1..n : i \in 1..n + l /\ i <= n
    BY <1>1, <1>6
  <2> QED
    BY <1>10, <1>11, <2>1
<1>13. ASSUME NEW i \in DOMAIN Dispatched, i > n PROVE Dispatched[i].rec \in Reruns(level)
  <2>1. i \in 1..n + l
    BY <1>11
  <2>2. i - n \in 1..l /\ DOMAIN a = 1..l
    BY <1>1, <1>6, <1>13, <2>1
  <2>3. Dispatched[i] = a[i - n]
    BY <1>6, <1>11, <1>13, <2>1
  <2> QED
    BY <1>1, <2>2, <2>3
<1>14. Placed # DOMAIN SavedEffects => Len(Dispatched) >= 1
  BY <1>2, <1>6, <1>7, <1>11
<1>15. Placed \subseteq DOMAIN SavedEffects
  BY <1>2, <1>3
<1> QED
  BY <1>6, <1>9, <1>11, <1>12, <1>13, <1>14, <1>15 DEF n, a

(* What a return lists: the dispatched effects, the last of them perhaps with  *)
(* the countdown of one that found no room.                                  *)
LEMMA RestoredRecords ==
  ASSUME CommandInv
  PROVE  /\ Restored \in Seq(Listed) /\ Len(Restored) <= EffectCap
         /\ \A r : Places(Restored, r) = Places(Dispatched, r)
         /\ Placed = DOMAIN SavedEffects => Restored = Dispatched
<1> DEFINE m == Len(SavedEffects)
<1>1. /\ Dispatched \in Seq(Listed) /\ Len(Dispatched) <= EffectCap
      /\ Placed # DOMAIN SavedEffects => Len(Dispatched) >= 1
      /\ Placed \subseteq DOMAIN SavedEffects
  <2>1. /\ Dispatched \in Seq(Listed)
        /\ Len(Dispatched) = Cardinality(Placed) + Len(AuthoredEffects(level))
        /\ Cardinality(Placed) + Len(AuthoredEffects(level)) <= EffectCap
        /\ Placed # DOMAIN SavedEffects => Len(Dispatched) >= 1
        /\ Placed \subseteq DOMAIN SavedEffects
    BY PlacedFirst
  <2> QED
    BY <2>1
<1>2. CASE Placed = DOMAIN SavedEffects
  BY <1>1, <1>2 DEF Restored
<1>3. CASE Placed # DOMAIN SavedEffects
  <2> DEFINE v == SavedEffects[m].left
  <2>1. /\ DOMAIN SavedEffects = 1..m /\ m \in Nat
        /\ \A i \in DOMAIN SavedEffects : SavedEffects[i] \in Listed
    BY SavedOnce
  <2> HIDE DEF m
  <2>2. m \in DOMAIN SavedEffects
    <3>1. PICK i \in DOMAIN SavedEffects : i \notin Placed
      BY <1>1, <1>3
    <3>2. i \in 1..m
      BY <2>1
    <3>3. m \in 1..m
      BY <2>1, <3>2
    <3> QED
      BY <2>1, <3>3
  <2>3. v \in Int
    BY <2>1, <2>2 DEF Listed
  <2>4. 1 \in DOMAIN Dispatched
    BY <1>1, <1>3
  <2>5. Restored = [Dispatched EXCEPT ![1].left = v]
    BY <1>3 DEF Restored, m
  <2> HIDE DEF v
  <2>6. \A f : f = [Dispatched EXCEPT ![1].left = v] =>
          /\ f \in Seq(Listed) /\ Len(f) = Len(Dispatched)
          /\ \A r : Places(f, r) = Places(Dispatched, r)
    BY <1>1, <2>3, <2>4, CountsDown
  <2>7. /\ Restored \in Seq(Listed) /\ Len(Restored) = Len(Dispatched)
        /\ \A r : Places(Restored, r) = Places(Dispatched, r)
    BY <2>5, <2>6
  <2> QED
    BY <1>1, <1>3, <2>7
<1> QED
  BY <1>2, <1>3

(* A record that the map does not list itself, and that found room, is listed *)
(* as often as it was saved, with the same countdowns.                       *)
LEMMA ListedAsSaved ==
  ASSUME CommandInv, NEW r, r \notin Reruns(level), r \notin NoRoom
  PROVE  /\ Cardinality(Places(Restored, r)) = Cardinality(Places(effects, r))
         /\ {effects[i] : i \in Places(effects, r)} =
              {Dispatched[i] : i \in Places(Dispatched, r)}
         /\ r \in {SavedEffects[i].rec : i \in DOMAIN SavedEffects} <=>
              Places(effects, r) # {}
<1> DEFINE K == {k \in DOMAIN effects : effects[k].rec \notin kept}
           q == InOrder(K)
           n == Cardinality(Placed)
           S == Places(Dispatched, r)
           T == Places(effects, r)
<1>1. /\ DOMAIN SavedEffects = DOMAIN q
      /\ \A i \in DOMAIN q : q[i] \in K /\ SavedEffects[i] = effects[q[i]]
      /\ \A i, j \in DOMAIN q : q[i] = q[j] => i = j
      /\ \A k \in K : \E i \in DOMAIN q : q[i] = k
  BY SavedOnce
<1>2. /\ n \in Nat /\ Placed = 1..n /\ Placed \subseteq DOMAIN SavedEffects
      /\ Dispatched \in Seq(Listed) /\ n <= Len(Dispatched)
      /\ \A i \in 1..n : n + 1 - i \in Placed /\ Dispatched[i] = SavedEffects[n + 1 - i]
      /\ \A i \in DOMAIN Dispatched : i > n => Dispatched[i].rec \in Reruns(level)
  <2>1. /\ n \in Nat /\ Placed = 1..n /\ Placed \subseteq DOMAIN SavedEffects
        /\ Dispatched \in Seq(Listed)
        /\ Len(Dispatched) = n + Len(AuthoredEffects(level))
        /\ \A i \in 1..n : n + 1 - i \in Placed /\ Dispatched[i] = SavedEffects[n + 1 - i]
        /\ \A i \in DOMAIN Dispatched : i > n => Dispatched[i].rec \in Reruns(level)
    BY PlacedFirst
  <2>2. Len(AuthoredEffects(level)) \in Nat
    BY AuthoredLists DEF CommandInv, TypeOK
  <2>3. n <= Len(Dispatched)
    BY <2>1, <2>2
  <2> QED
    BY <2>1, <2>3
<1>3. T \subseteq K /\ \A k \in K : effects[k].rec = r => k \in T
  BY DEF Places, CommandInv, TypeOK, BitsType
<1> HIDE DEF K, q, n
<1>4. \A i \in DOMAIN SavedEffects : SavedEffects[i].rec = r => i \in Placed
  BY DEF NoRoom
<1> DEFINE f == [i \in S |-> q[n + 1 - i]]
<1>5. ASSUME NEW i \in S
      PROVE  /\ i \in 1..n /\ n + 1 - i \in DOMAIN q
             /\ q[n + 1 - i] \in T /\ effects[q[n + 1 - i]] = Dispatched[i]
  <2>1. i \in DOMAIN Dispatched /\ Dispatched[i].rec = r /\ i \in 1..Len(Dispatched)
    BY <1>2 DEF Places
  <2>2. i \in 1..n
    BY <1>2, <2>1
  <2>3. n + 1 - i \in DOMAIN q /\ Dispatched[i] = SavedEffects[n + 1 - i]
    BY <1>1, <1>2, <2>2
  <2>4. q[n + 1 - i] \in K /\ effects[q[n + 1 - i]] = Dispatched[i]
    BY <1>1, <2>3
  <2> QED
    BY <1>3, <2>1, <2>2, <2>3, <2>4
<1>6. ASSUME NEW t \in T PROVE \E i \in S : q[n + 1 - i] = t
  <2>1. PICK j \in DOMAIN q : q[j] = t
    BY <1>1, <1>3
  <2>2. effects[t].rec = r
    BY DEF Places
  <2>3. SavedEffects[j].rec = r /\ j \in Placed
    BY <1>1, <1>4, <2>1, <2>2
  <2>4. j \in 1..n /\ n + 1 - j \in 1..n /\ n + 1 - (n + 1 - j) = j
    BY <1>2, <2>3
  <2>5. Dispatched[n + 1 - j] = SavedEffects[j]
    BY <1>2, <2>4
  <2>6. n + 1 - j \in DOMAIN Dispatched
    BY <1>2, <2>4
  <2>7. n + 1 - j \in S
    BY <2>3, <2>5, <2>6 DEF Places
  <2> QED
    BY <2>1, <2>4, <2>7
<1>7. Cardinality(T) = Cardinality(S)
  <2>1. IsFiniteSet(S)
    BY <1>2, PlacesAreFew
  <2>2. f \in [S -> T]
    BY <1>5
  <2>3. ASSUME NEW a \in S, NEW b \in S, f[a] = f[b] PROVE a = b
    <3>1. n + 1 - a = n + 1 - b
      BY <1>1, <1>5, <2>3
    <3>2. a \in 1..n /\ b \in 1..n
      BY <1>5
    <3> QED
      BY <1>2, <3>1, <3>2
  <2>4. \A t \in T : \E a \in S : f[a] = t
    BY <1>6
  <2> HIDE DEF f, S, T
  <2> QED
    BY <2>1, <2>2, <2>3, <2>4, SameSize
<1>8. {effects[i] : i \in T} = {Dispatched[i] : i \in S}
  <2>1. ASSUME NEW t \in T PROVE \E i \in S : Dispatched[i] = effects[t]
    BY <1>5, <1>6
  <2>2. ASSUME NEW i \in S PROVE \E t \in T : effects[t] = Dispatched[i]
    BY <1>5
  <2> HIDE DEF S, T
  <2> QED
    BY <2>1, <2>2
<1>9. r \in {SavedEffects[i].rec : i \in DOMAIN SavedEffects} <=> T # {}
  <2>1. ASSUME NEW i \in DOMAIN SavedEffects, SavedEffects[i].rec = r PROVE q[i] \in T
    BY <1>1, <1>3, <2>1
  <2>2. ASSUME NEW t \in T PROVE \E i \in DOMAIN SavedEffects : SavedEffects[i].rec = r
    <3>1. PICK j \in DOMAIN q : q[j] = t
      BY <1>1, <1>3
    <3>2. effects[t].rec = r
      BY DEF Places
    <3> QED
      BY <1>1, <3>1, <3>2
  <2> HIDE DEF T
  <2> QED
    BY <2>1, <2>2
<1>10. Places(Restored, r) = S
  BY RestoredRecords
<1> QED
  BY <1>7, <1>8, <1>9, <1>10

\* A journey lists what the map lists and what was saved, each record once, and
\* arms what it listed.
LEMMA TravelKeeps ==
  ASSUME CommandInv, Travel
  PROVE  CommandInv'
<1> DEFINE saves == {SavedEffects[i].rec : i \in DOMAIN SavedEffects}
<1>1. /\ Idle /\ effects' = Restored /\ timers' = AuthoredTimers(level)
      /\ armed' = armed \cup saves /\ misplaced' = misplaced \cup NoRoom /\ front' = <<>>
      /\ UNCHANGED <<level, skipped, kept, count, agenda, interrupt, saved, nextActive,
                     pending, acted, picked, head, step, promise>>
  BY DEF Travel, chain
<1>2. saves \subseteq Rec /\ NoRoom \subseteq saves
  <2>1. \A i \in DOMAIN SavedEffects : SavedEffects[i] \in Listed
    BY SavedOnce
  <2> QED
    BY <2>1 DEF Listed, NoRoom
<1>3. StackOK'
  BY <1>1, Stays
<1>4. promise = 0
  BY <1>1, NothingRuns
<1>5. ChainType' /\ DebtIsDue'
  BY <1>1, <1>4, ReturnTypes DEF ChainType, DebtIsDue
<1>6. LevelType' /\ BitsType'
  BY <1>1, <1>2, AsBefore, SameCalls DEF CommandInv, TypeOK, BitsType, Reruns
<1>7. ListsType'
  <2>1. LevelType /\ misplaced \subseteq Rec
    BY DEF CommandInv, TypeOK, ListsType
  <2>2. AuthoredTimers(level) \in Seq(Listed)
    BY <2>1, AuthoredLists
  <2> QED
    BY <1>1, <1>2, <2>1, <2>2, SameCalls, RestoredRecords DEF ListsType
<1>8. QueueType' /\ ServedAreAwaited'
  <2>1. front' \in Seq(Deferred') /\ Len(front') = 0 /\ DOMAIN front' = {}
    BY <1>1
  <2> QED
    BY <2>1, CommandAssumption DEF QueueType, ServedAreAwaited
<1>9. ArmedRecordsHaveOneEffect'
  <2> SUFFICES ASSUME NEW x \in (Of("delay") \cup Of("effect")) \ (misplaced' \cup Reruns(level)),
                      ~level[x].multi
               PROVE  Cardinality(Places(effects', x)) = IF x \in armed' THEN 1 ELSE 0
    BY <1>1, SameCalls DEF ArmedRecordsHaveOneEffect, Listings, Places, Reruns
  <2>1. Cardinality(Places(effects, x)) = IF x \in armed THEN 1 ELSE 0
    BY <1>1 DEF CommandInv, ArmedRecordsHaveOneEffect, Listings, Places
  <2>2. x \notin Reruns(level) /\ x \notin NoRoom
    BY <1>1
  <2>3. /\ Cardinality(Places(effects', x)) = Cardinality(Places(effects, x))
        /\ x \in saves <=> Places(effects, x) # {}
    BY <1>1, <2>2, ListedAsSaved
  <2>4. Cardinality(Places(effects, x)) = 0 <=> Places(effects, x) = {}
    <3>1. effects \in Seq(Listed)
      BY DEF CommandInv, TypeOK, ListsType
    <3>2. IsFiniteSet(Places(effects, x))
      BY <3>1, PlacesAreFew
    <3> QED
      BY <3>2, FS_EmptySet
  <2> HIDE DEF saves
  <2> QED
    BY <1>1, <2>1, <2>3, <2>4
<1> QED
  BY <1>3, <1>5, <1>6, <1>7, <1>8, <1>9 DEF CommandInv, TypeOK, StackOK

-----------------------------------------------------------------------------
(* The invariant holds in every behaviour.                                   *)

(* Each step of the interpreter and of its world keeps it.                   *)
LEMMA EveryStepKeeps ==
  ASSUME CommandInv, [WNext]_worldVars
  PROVE  CommandInv'
<1>1. CASE Running /\ UNCHANGED misplaced
  <2>1. CASE Loop
    BY <1>1, <2>1, SkipRecordKeeps, ResumeKeeps, InnerDoneKeeps, ExecDoneKeeps, ResetKeeps
    DEF Loop
  <2>2. CASE Handler
    <3>1. CASE Told \/ Talk \/ Talked \/ Indexed
      BY <1>1, <3>1, ToldKeeps, TalkKeeps, TalkedKeeps, IndexedKeeps
    <3>2. CASE Jump \/ Latch \/ Pass \/ Fail \/ Failed \/ Wait \/ Give
      BY <1>1, <3>2, JumpKeeps, LatchKeeps, PassKeeps, FailKeeps, FailedKeeps, WaitKeeps,
         GiveKeeps
    <3>3. CASE Act \/ Toggle \/ Register
      BY <1>1, <3>3, ActKeeps, ToggleKeeps, RegisterKeeps
    <3>4. CASE CountStep \/ Counted \/ Modify \/ Modified
      BY <1>1, <3>4, CountStepKeeps, CountedKeeps, ModifyKeeps, ModifiedKeeps
    <3> QED
      BY <2>2, <3>1, <3>2, <3>3, <3>4 DEF Handler
  <2>3. CASE Queue
    BY <1>1, <2>3, ProcessKeeps, DrainKeeps, FinishKeeps DEF Queue
  <2>4. CASE Walk
    BY <1>1, <2>4, WorldKeeps, WalksEnd, WalkDelayKeeps, WalkEffectKeeps, TimerStepKeeps
    DEF Walk
  <2> QED
    BY <1>1, <2>1, <2>2, <2>3, <2>4 DEF Running
<1>2. CASE Trigger /\ UNCHANGED misplaced
  BY <1>2, ContactKeeps, ClickKeeps, HookKeeps DEF Trigger
<1>3. CASE Tick /\ UNCHANGED misplaced
  BY <1>3, TickKeeps
<1>4. CASE Travel
  BY <1>4, TravelKeeps
<1>5. CASE UNCHANGED worldVars
  <2>1. UNCHANGED <<level, skipped, armed, kept, count, front, effects, timers, agenda,
                    interrupt, saved, nextActive, pending, acted, picked, head, step,
                    promise, misplaced>>
    BY <1>5 DEF worldVars, vars, bits, lists, chain
  <2>2. StackOK' /\ (Served => Served')
    BY <2>1, Stays
  <2>3. ChainType' /\ DebtIsDue'
    BY <2>1, ReturnTypes DEF CommandInv, ChainType, DebtIsDue, Idle, Top
  <2>4. /\ LevelType' /\ BitsType' /\ ListsType' /\ QueueType' /\ ServedAreAwaited'
        /\ ArmedRecordsHaveOneEffect'
    BY <2>1, <2>2, AsBefore, ArmedAsBefore
  <2> QED
    BY <2>2, <2>3, <2>4 DEF CommandInv, TypeOK, StackOK
<1> QED
  BY <1>1, <1>2, <1>3, <1>4, <1>5 DEF WNext

(* The stack of calls stays in order, what a failed condition owes stays due, *)
(* what is served is awaited, a Count in progress is known and every armed    *)
(* record has its one effect, whatever is triggered, ticks and travels.      *)
THEOREM CommandInvariant == WSpec => []CommandInv
<1>1. WInit => CommandInv
  BY InitialCommands
<1>2. CommandInv /\ [WNext]_worldVars => CommandInv'
  BY EveryStepKeeps
<1> QED
  BY <1>1, <1>2, PTL DEF WSpec

(* No chain, however often it is triggered, expired and saved, lists a second  *)
(* effect of a record: an armed one has one entry and an unarmed one none.   *)
THEOREM OneEffectEach == WSpec => []ArmedRecordsHaveOneEffect
<1>1. CommandInv => ArmedRecordsHaveOneEffect
  BY DEF CommandInv
<1> QED
  BY <1>1, CommandInvariant, PTL

(* When a trigger or a tick has returned, no failed condition is still owed   *)
(* the chain that its jump named.                                            *)
THEOREM ElseChainsAreRun == WSpec => []FailedConditionsRunTheirElse
<1>1. CommandInv => FailedConditionsRunTheirElse
  BY NothingRuns DEF FailedConditionsRunTheirElse
<1> QED
  BY <1>1, CommandInvariant, PTL

(* The steps that change the deferred queue.                                 *)
LEMMA FrontChanges ==
  ASSUME WNext
  PROVE  \/ front' = front
         \/ Modify \/ Modified \/ Process \/ World \/ WalkDelay \/ TimerStep
         \/ Click \/ Travel
<1>1. CASE Loop
  BY <1>1 DEF Loop, SkipRecord, Resume, InnerDone, ExecDone, Reset
<1>2. CASE Handler
  <2>1. CASE Told \/ Talk \/ Talked \/ Jump \/ Latch \/ Pass \/ Fail \/ Failed \/ Wait \/ Give
    BY <2>1 DEF Told, Talk, Talked, Jump, Latch, Pass, Fail, Failed, Wait, Give
  <2>2. CASE Act \/ Toggle \/ Indexed \/ Register \/ CountStep \/ Counted
    BY <2>2 DEF Act, Toggle, Indexed, Register, CountStep, Counted
  <2> QED
    BY <1>2, <2>1, <2>2 DEF Handler
<1>3. CASE Drain \/ Finish \/ WalkEnd \/ WalkEffect \/ TimersEnd \/ Contact \/ Hook \/ Tick
  BY <1>3 DEF Drain, Finish, WalkEnd, WalkEffect, TimersEnd, Contact, Hook, Tick
<1> QED
  BY <1>1, <1>2, <1>3 DEF WNext, Running, Queue, Walk, Trigger

(* A push leaves the queue longer, and something in it.                      *)
LEMMA Pushed ==
  ASSUME CommandInv, NEW i, NEW b, Push(i, b), front' = <<>>
  PROVE  FALSE
<1>1. front \in Seq(Deferred)
  BY DEF CommandInv, TypeOK, QueueType
<1>2. Append(front, [at |-> i, served |-> b]) # <<>>
  <2>1. front \in Seq(Deferred \cup {[at |-> i, served |-> b]})
    BY <1>1
  <2> QED
    BY <2>1, AppendProperties
<1> QED
  BY <1>2 DEF Push

(* What a drained chain, a trigger or an expired Delay has queued while        *)
(* somebody waits to drain it is never dropped: only the drain empties the    *)
(* queue of it.                                                              *)
THEOREM ServedFollowUpsStay == WSpec => ServedFollowUpsAreNotDropped
<1> DEFINE A == \A i \in DOMAIN front : front[i].served /\ front' = <<>> =>
                  \/ ~Idle /\ Top.do = "process"
<1>1. ASSUME CommandInv, [WNext]_worldVars PROVE [A]_worldVars
  <2> SUFFICES ASSUME WNext, NEW i \in DOMAIN front, front[i].served, front' = <<>>
               PROVE  ~Idle /\ Top.do = "process"
    BY <1>1
  <2>1. CASE front' = front
    <3>1. DOMAIN front = {}
      BY <2>1
    <3> QED
      BY <3>1
  <2>2. CASE Modify \/ Modified \/ WalkDelay \/ TimerStep
    <3>1. front' = front \/ \E n : Push(n, Served)
      BY <2>2 DEF Modify, Modified, WalkDelay, TimerStep, FollowUp
    <3> QED
      BY <1>1, <2>1, <3>1, Pushed
  <2>3. CASE Process
    BY <2>3 DEF Process
  <2>4. CASE World
    BY <1>1, <2>4, WorldStandsAlone DEF World
  <2>5. CASE Click \/ Travel
    BY <1>1, <2>5, NothingRuns DEF Click, Travel
  <2> QED
    BY <2>1, <2>2, <2>3, <2>4, <2>5, FrontChanges
<1> HIDE DEF A
<1>2. CommandInv /\ [WNext]_worldVars => [A]_worldVars
  BY <1>1
<1>3. WSpec => [][A]_worldVars
  BY <1>2, CommandInvariant, PTL DEF WSpec
<1> QED
  BY <1>3 DEF A, ServedFollowUpsAreNotDropped

(* A queue that grows has been pushed to.                                    *)
LEMMA GrowsByPush ==
  ASSUME CommandInv, WNext, ~Idle, Len(front') > Len(front)
  PROVE  Modify \/ Modified \/ WalkDelay \/ TimerStep
<1>1. Len(front) \in Nat /\ Len(<<>>) = 0
  BY DEF CommandInv, TypeOK, QueueType
<1>2. front' # front
  BY <1>1
<1>3. front' # <<>>
  BY <1>1
<1>4. ~Process /\ ~World /\ ~Click /\ ~Travel
  BY <1>3 DEF Process, World, Click, Travel
<1> QED
  BY <1>2, <1>4, FrontChanges

(* While messages run no chains, what follows a Count is queued only when the  *)
(* Count is at its goal: a Count that still counts has left the interrupt set *)
(* for the Modify Count that waits for its message.                          *)
THEOREM FollowUpsOfCountsAreEarned == WSpec => FollowUpsAreEarned
<1> DEFINE A == \A t \in Of("count") :
                  /\ \A m \in Of("latch") : level[m].arg = 0
                  /\ ~Idle /\ Top.at # 0 /\ Len(front') > Len(front)
                  /\ \/ Top.do = "modified" /\ Top.at = t
                     \/ Top.do \in Loops /\ level[Top.at].base = "modify" /\ level[Top.at].arg = t
                  => count'[t] = Goal(t)
<1>1. ASSUME CommandInv, [WNext]_worldVars PROVE [A]_worldVars
  <2> SUFFICES ASSUME WNext, NEW t \in Of("count"), PlainMessages,
                      ~Idle, Len(front') > Len(front),
                      \/ Top.do = "modified"
                      \/ Top.do \in Loops /\ level[Top.at].arg = t
               PROVE  count'[t] = Goal(t)
    BY <1>1 DEF PlainMessages
  <2>1. Len(front) \in Nat /\ front' # front
    <3>1. Len(front) \in Nat
      BY <1>1 DEF CommandInv, TypeOK, QueueType
    <3> QED
      BY <3>1
  <2>2. Modify \/ Modified
    BY <1>1, GrowsByPush DEF WalkDelay, TimerStep, Walking, Timing, Loops
  <2>3. CASE Modified
    <3>1. Top = agenda[1] /\ 1 \in DOMAIN agenda
      <4>1. agenda \in Seq(Calls) /\ agenda # <<>>
        BY <1>1 DEF CommandInv, TypeOK, Idle
      <4> QED
        BY <4>1, Replaced DEF Top
    <3>2. interrupt # 0
      BY <1>1, <2>3, <3>1 DEF CommandInv, CountingIsKnown, Modified
    <3>3. front' = front
      BY <2>3, <3>2 DEF Modified, FollowUp
    <3> QED
      BY <2>1, <3>3
  <2>4. CASE Modify
    <3> DEFINE by == level[Top.at].len
    <3>1. At("modify") /\ level' = level
      BY <2>4 DEF Modify, bits
    <3>2. level[Top.at].arg = t
      BY <3>1 DEF At, Loops
    <3>3. Reaches(t, by) /\ StepCount(t, by)
      BY <2>1, <2>4, <3>2 DEF Modify
    <3>4. by \in Int /\ count \in [Rec -> Int] /\ LevelType /\ t \in Rec
      BY <1>1, <3>1, HandlerTypes DEF CommandInv, TypeOK, Of
    <3> HIDE DEF by
    <3> QED
      BY <3>1, <3>3, <3>4, CountsAreIntegers
  <2> QED
    BY <2>2, <2>3, <2>4
<1> HIDE DEF A
<1>2. CommandInv /\ [WNext]_worldVars => [A]_worldVars
  BY <1>1
<1>3. WSpec => [][A]_worldVars
  BY <1>2, CommandInvariant, PTL DEF WSpec
<1> QED
  BY <1>3 DEF A, FollowUpsAreEarned

(* What a trigger that does not run leaves alone.                            *)
LEMMA IdleSteps ==
  ASSUME Idle, WNext
  PROVE  Travel \/ UNCHANGED <<level, effects>>
<1>1. ~Running
  <2>1. ~Loop /\ ~Queue
    BY DEF Loop, SkipRecord, Resume, InnerDone, ExecDone, Reset, Queue, Process, Drain, Finish
  <2>2. ~Handler
    BY DEF Handler, Told, Talk, Talked, Jump, Latch, Pass, Fail, Failed, Wait, Give, Act,
           Toggle, Indexed, Register, CountStep, Counted, Modify, Modified, At
  <2>3. ~Walk
    BY DEF Walk, World, WalkEnd, WalkDelay, WalkEffect, TimerStep, TimersEnd, Walked,
           Walking, Timing
  <2> QED
    BY <2>1, <2>2, <2>3 DEF Running
<1>2. Trigger \/ Tick => UNCHANGED <<level, effects>>
  BY DEF Trigger, Contact, Click, Hook, Tick, bits, lists
<1> QED
  BY <1>1, <1>2 DEF WNext

(* A journey to another map and back keeps every effect that a chain listed,   *)
(* with its countdown, and lists none twice, while there is room for all.    *)
THEOREM JourneysKeepEffects == WSpec => TravelKeepsEffects
<1> DEFINE A == (Idle /\ Idle' /\ misplaced' = {}) =>
                  \A r \in Rec \ Reruns(level) :
                    /\ {effects[i] : i \in Listings(r)} = {effects'[i] : i \in Listings(r)'}
                    /\ Cardinality(Listings(r)) = Cardinality(Listings(r)')
<1>1. ASSUME CommandInv, [WNext]_worldVars PROVE [A]_worldVars
  <2> SUFFICES ASSUME WNext, Idle, misplaced' = {}, NEW r \in Rec \ Reruns(level)
               PROVE  /\ {effects[i] : i \in Places(effects, r)} =
                           {effects'[i] : i \in Places(effects', r)}
                      /\ Cardinality(Places(effects, r)) = Cardinality(Places(effects', r))
    BY <1>1 DEF Listings, Places
  <2>1. CASE UNCHANGED <<level, effects>>
    BY <2>1
  <2>2. CASE Travel
    <3>1. NoRoom = {} /\ effects' = Restored
      BY <2>2 DEF Travel
    <3>2. Placed = DOMAIN SavedEffects
      <4>1. DOMAIN SavedEffects \ Placed = {}
        BY <3>1 DEF NoRoom
      <4>2. Placed \subseteq DOMAIN SavedEffects
        BY DEF Placed
      <4> QED
        BY <4>1, <4>2
    <3>3. Restored = Dispatched
      BY <1>1, <3>2, RestoredRecords
    <3>4. /\ Cardinality(Places(Restored, r)) = Cardinality(Places(effects, r))
          /\ {effects[i] : i \in Places(effects, r)} =
               {Dispatched[i] : i \in Places(Dispatched, r)}
      BY <1>1, <3>1, ListedAsSaved
    <3> QED
      BY <3>1, <3>3, <3>4
  <2> QED
    BY <2>1, <2>2, IdleSteps
<1> HIDE DEF A
<1>2. CommandInv /\ [WNext]_worldVars => [A]_worldVars
  BY <1>1
<1>3. WSpec => [][A]_worldVars
  BY <1>2, CommandInvariant, PTL DEF WSpec
<1> QED
  BY <1>3 DEF A, TravelKeepsEffects
=============================================================================
