---------------------------- MODULE CommandWorld ----------------------------
(***************************************************************************)
(* A map under play: the command interpreter driven by the player, the     *)
(* renderer and the frame loop, with journeys to another map and back.     *)
(*                                                                         *)
(* Leaving writes each record's modifier byte, the Counts and the listed   *)
(* effects to a file; coming back reads the map afresh, runs the handlers  *)
(* that list the authored effects, overwrites the bytes with the saved     *)
(* ones and dispatches the record of each saved effect once more, so that  *)
(* an effect is listed into which the saved countdown can be copied.       *)
(***************************************************************************)
EXTENDS CommandChains

VARIABLE
  misplaced  \* history: records whose effect found no room on a return

worldVars == <<vars, misplaced>>

-----------------------------------------------------------------------------
(* Journeys.                                                                *)

\* Effects of records that are not active as authored, newest first.
SavedEffects ==
  LET at == InOrder({k \in DOMAIN effects : effects[k].rec \notin kept})
  IN  [n \in DOMAIN at |-> effects[at[n]]]

\* Every saved effect is dispatched in the saved order, for as long as there
\* is room behind those that the map lists itself.
Placed == {n \in DOMAIN SavedEffects : Len(AuthoredEffects(level)) + n <= EffectCap}
Dispatched ==
  LET n == Cardinality(Placed)
  IN  [i \in 1..n |-> SavedEffects[n + 1 - i]] \o AuthoredEffects(level)

\* Defect: the countdown is left as the dispatch has set it.
RestoredFresh == [i \in DOMAIN Dispatched |-> Fresh(Dispatched[i].rec)]

\* load_state_object_links: without room the countdown is copied into the
\* effect that was listed last.
Restored ==
  IF Placed = DOMAIN SavedEffects THEN Dispatched
  ELSE [Dispatched EXCEPT ![1].left = SavedEffects[Len(SavedEffects)].left]

NoRoom == {SavedEffects[n].rec : n \in DOMAIN SavedEffects \ Placed}

Travel ==
  /\ Idle
  /\ effects' = Restored
  /\ timers' = AuthoredTimers(level)
  /\ armed' = armed \cup {SavedEffects[i].rec : i \in DOMAIN SavedEffects}
  /\ misplaced' = misplaced \cup NoRoom
  /\ front' = <<>>
  /\ UNCHANGED <<level, skipped, kept, count, agenda, chain, promise>>

-----------------------------------------------------------------------------
WInit == Init /\ misplaced = {}

WNext ==
  \/ (Running \/ Trigger \/ Tick) /\ UNCHANGED misplaced
  \/ Travel

\* The thread runs what it has begun.  The frame loop ticks once a frame,
\* whatever the player does in between.
WSpec == /\ WInit /\ [][WNext]_worldVars
         /\ WF_worldVars(Running /\ UNCHANGED misplaced)
         /\ SF_worldVars(Tick /\ UNCHANGED misplaced)

-----------------------------------------------------------------------------
Listings(r) == {i \in DOMAIN effects : effects[i].rec = r}

\* A Delay or an effect that is armed has exactly one entry in the list, and
\* one that is not has none: no chain, however often it is triggered, expired
\* and saved, lists a second.
ArmedRecordsHaveOneEffect ==
  \A r \in (Of("delay") \cup Of("effect")) \ (misplaced \cup Reruns(level)) :
     ~level[r].multi =>
       Cardinality(Listings(r)) = (IF r \in armed THEN 1 ELSE 0)

\* A condition that fails runs the chain that the jump before it named,
\* before its trigger returns, unless the message that it fired ran a chain:
\* that resets the interrupt and the saved chain of the one that waits.
FailedConditionsRunTheirElse == Idle => promise = 0

\* The tick and the click empty the queue: what they drop was pushed by a
\* chain that nobody was going to drain after, from a hook or from a drain.
ServedFollowUpsAreNotDropped ==
  [][\A i \in DOMAIN front : front[i].served /\ front' = <<>> =>
       \/ ~Idle /\ Top.do = "process"]_worldVars

\* A Modify Count queues what follows its Count only when the Count is at
\* its goal, in a level whose messages run no chains: such a chain resets the
\* interrupt that tells a Count in progress from one that has finished.
FollowUpsAreEarned ==
  [][\A t \in Of("count") :
       /\ \A m \in Of("latch") : level[m].arg = 0
       /\ ~Idle /\ Top.at # 0 /\ Len(front') > Len(front)
       /\ \/ Top.do = "modified" /\ Top.at = t
          \/ Top.do \in Loops /\ level[Top.at].base = "modify" /\ level[Top.at].arg = t
       => count'[t] = Goal(t)]_worldVars

\* A journey to another map and back keeps every effect that a chain listed,
\* with its countdown, and lists none twice, while there is room for all.
TravelKeepsEffects ==
  [][(Idle /\ Idle' /\ misplaced' = {}) =>
       \A r \in Rec \ Reruns(level) :
         /\ {effects[i] : i \in Listings(r)} = {effects'[i] : i \in Listings(r)'}
         /\ Cardinality(Listings(r)) = Cardinality(Listings(r)')]_worldVars

\* Delays that expire in this tick before the turn of r.
Ahead(r) == {k \in DOMAIN effects : /\ level[effects[k].rec].base = "delay"
                                    /\ effects[k].left <= 1
                                    /\ \E i \in Listings(r) : k < i}
Counting(r) == r \in Of("delay") /\ ~level[r].multi /\ Listings(r) # {}
Delays == UNION {{r \in DOMAIN l : l[r].base = "delay"} : l \in Levels}

\* A Delay that is counting down expires, whatever the player triggers and
\* wherever he travels, if again and again a tick begins in which those ahead
\* of it leave it an entry of the queue, however often they fill it otherwise.
\* Without that it can starve: Delays that are listed anew in every tick, by
\* what they run or by the player, are listed ahead of it and may fill the
\* queue for ever.
DelaysExpire ==
  \A r \in Delays :
    []<>(~Idle /\ Top.do = "world" /\ Cardinality(Ahead(r)) < QueueCap)
      => (Counting(r) ~> ~Counting(r))
=============================================================================
