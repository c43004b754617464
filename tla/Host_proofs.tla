---------------------------- MODULE Host_proofs ----------------------------
(***************************************************************************)
(* Proofs about the host layer.                                            *)
(*                                                                         *)
(* OverrideRegistry: the registry is correct for every number of targets,  *)
(* plugins and registrations and every length of a chain.                  *)
(*                                                                         *)
(* FramePublish: what reaches the shared pixels, and what a reader that    *)
(* has no lock may upload, for every frame size, panel and choice of       *)
(* publish paths.                                                          *)
(***************************************************************************)
EXTENDS OverrideRegistry, FramePublish, FiniteSetTheorems, WellFoundedInduction, TLAPS

-----------------------------------------------------------------------------
(* The override registry: its types.                                        *)

Registration == [id : Targets, prio : Priorities, plugin : 1 .. Plugins]

RegistryTypes ==
  /\ strict \in BOOLEAN /\ errors \in BOOLEAN /\ plugin \in 1 .. Plugins
  /\ pending \in Seq(Registration)
  /\ pc \in {"register", "apply", "unwind", "done", "exit"}
  /\ todo \subseteq Targets /\ stuck \subseteq Targets
  /\ entry \in [Targets -> {"nop", "dirty", "jmp"}]
  /\ DOMAIN slot = Targets /\ slot = [t \in Targets |-> slot[t]]
  /\ patched \in Seq(Targets)

\* What Fills can put in the slot of target t.
Chains(t) == {Truncated(s) : s \in Sorted(Links(t))}

Patched == {patched[k] : k \in DOMAIN patched}
Named == {pending[i].id : i \in DOMAIN pending}

(* The inductive invariant.  Until the registrations are closed nothing is  *)
(* patched; from then on an entry jumps if and only if it is on the undo    *)
(* list once or could not be restored, targets still to be visited are not  *)
(* on it, and a jumping entry has the chain of its own registrations.       *)
RegistryInv ==
  /\ RegistryTypes
  /\ pc = "register" => patched = <<>> /\ Jumps = {} /\ todo = {}
  /\ pc \in {"register", "apply"} => stuck = {}
  /\ Jumps \ stuck = Patched \ stuck
  /\ \A k, l \in DOMAIN patched : k # l => patched[k] # patched[l]
  /\ todo \cap Patched = {} /\ stuck \cap Patched = {}
  /\ pc # "register" => todo \subseteq Named /\ Jumps \subseteq Named
  /\ \A t \in Jumps : slot[t] \in Chains(t)
  /\ strict /\ pc = "apply" => ~errors /\ Named \subseteq todo \cup Jumps
  /\ strict /\ pc = "done" => ~errors /\ Named \subseteq Jumps

\* A set of numbers that is not empty has a least one, which is its Min.
LEMMA MinIsLeast ==
  ASSUME NEW T \in SUBSET Nat, T # {}
  PROVE  Min(T) \in T /\ \A m \in T : Min(T) <= m
<1>1. PICK n \in T : \A m \in T : ~(<<m, n>> \in OpToRel(<, Nat))
  BY NatLessThanWellFounded, WFMin
<1>2. \A m \in T : ~(m < n)
  BY <1>1 DEF OpToRel
<1>3. \A m \in T : n <= m
  BY <1>2
<1> QED BY <1>3 DEF Min

\* The registrations for a target are finitely many.
LEMMA LinksAreFinite ==
  ASSUME RegistryTypes, NEW t
  PROVE  IsFiniteSet(Links(t)) /\ Links(t) \subseteq DOMAIN pending
<1>1. DOMAIN pending = 1 .. Len(pending) /\ Len(pending) \in Nat
  BY DEF RegistryTypes
<1>2. Links(t) \subseteq DOMAIN pending
  BY DEF Links
<1>3. IsFiniteSet(1 .. Len(pending))
  BY <1>1, FS_Interval
<1> QED BY <1>1, <1>2, <1>3, FS_Subset

\* A sorted arrangement of a finite set lists each element once, and all of them.
LEMMA SortedIsArrangement ==
  ASSUME NEW S, IsFiniteSet(S), NEW s \in Sorted(S)
  PROVE  /\ Cardinality(S) \in Nat /\ s \in Seq(S) /\ Len(s) = Cardinality(S)
         /\ s \in [1 .. Cardinality(S) -> S]
         /\ \A i, j \in 1 .. Cardinality(S) : s[i] = s[j] => i = j
         /\ \A x \in S : \E i \in 1 .. Cardinality(S) : s[i] = x
         /\ \A i, j \in 1 .. Cardinality(S) : i < j => ~Before(s[j], s[i])
<1> DEFINE n == Cardinality(S)
<1>1. n \in Nat
  BY FS_CardinalityType
<1>2. /\ s \in [1 .. n -> S] /\ \A i, j \in 1 .. n : s[i] = s[j] => i = j
      /\ \A i, j \in 1 .. n : i < j => ~Before(s[j], s[i])
  BY DEF Sorted, SetToSeqs
<1>3. s \in Seq(S) /\ Len(s) = n
  BY <1>1, <1>2
<1>4. IsFiniteSet(1 .. n) /\ Cardinality(1 .. n) = n
  BY <1>1, FS_Interval
<1>5. s \in Injection(1 .. n, S)
  BY <1>2 DEF Injection, IsInjective
<1>6. s \in Surjection(1 .. n, S)
  BY <1>4, <1>5, FS_Injection
<1>7. \A x \in S : \E i \in 1 .. n : s[i] = x
  BY <1>6 DEF Surjection
<1> QED BY <1>1, <1>2, <1>3, <1>7

\* The chain that a thunk walks: as long as CHAIN_MAX allows, sorted, each
\* registration once, and none left out that runs before one that is in.
LEMMA ChainIsOutermost ==
  ASSUME OverrideAssumption, NEW S, IsFiniteSet(S), NEW c,
         \E s \in Sorted(S) : c = Truncated(s)
  PROVE  /\ c \in Seq(S) /\ Cardinality(S) \in Nat
         /\ Len(c) = IF Cardinality(S) > ChainMax THEN ChainMax ELSE Cardinality(S)
         /\ \A i, j \in 1 .. Len(c) : c[i] = c[j] => i = j
         /\ \A i, j \in 1 .. Len(c) : i < j => ~Before(c[j], c[i])
         /\ \A i \in 1 .. Len(c), x \in S :
              (\A j \in 1 .. Len(c) : c[j] # x) => ~Before(x, c[i])
<1> DEFINE n == Cardinality(S)
<1>1. PICK s \in Sorted(S) : c = Truncated(s)
  OBVIOUS
<1>2. /\ n \in Nat /\ s \in Seq(S) /\ Len(s) = n /\ s \in [1 .. n -> S]
      /\ \A i, j \in 1 .. n : s[i] = s[j] => i = j
      /\ \A x \in S : \E i \in 1 .. n : s[i] = x
      /\ \A i, j \in 1 .. n : i < j => ~Before(s[j], s[i])
  <2>1. s \in Sorted(S)
    BY <1>1
  <2>2. n \in Nat /\ s \in Seq(S) /\ Len(s) = n /\ s \in [1 .. n -> S]
    BY <2>1, SortedIsArrangement
  <2>3. \A i, j \in 1 .. n : s[i] = s[j] => i = j
    BY <2>1, SortedIsArrangement
  <2>4. \A x \in S : \E i \in 1 .. n : s[i] = x
    BY <2>1, SortedIsArrangement
  <2>5. \A i, j \in 1 .. n : i < j => ~Before(s[j], s[i])
    BY <2>1, SortedIsArrangement
  <2> QED BY <2>2, <2>3, <2>4, <2>5
<1>n. ChainMax \in Nat /\ ChainMax > 0
  BY DEF OverrideAssumption
<1> HIDE DEF n
<1>3. CASE n > ChainMax
  <2>1. c = SubSeq(s, 1, ChainMax)
    BY <1>1, <1>2, <1>n, <1>3 DEF Truncated
  <2>2. c \in Seq(S) /\ Len(c) = ChainMax /\ \A i \in 1 .. ChainMax : c[i] = s[i]
    BY <1>2, <1>n, <1>3, <2>1
  <2>3. 1 .. ChainMax \subseteq 1 .. n
    BY <1>2, <1>n, <1>3
  <2>4. ASSUME NEW i \in 1 .. ChainMax, NEW x \in S,
               \A j \in 1 .. ChainMax : c[j] # x
        PROVE  ~Before(x, c[i])
    <3>1. PICK m \in 1 .. n : s[m] = x
      BY <1>2
    <3>2. i < m /\ i \in 1 .. n
      BY <1>2, <1>n, <2>2, <2>3, <2>4, <3>1
    <3> QED BY <1>2, <2>2, <3>1, <3>2
  <2> QED BY <1>2, <1>n, <1>3, <2>2, <2>3, <2>4 DEF n
<1>4. CASE ~(n > ChainMax)
  <2>1. c = s
    BY <1>1, <1>2, <1>n, <1>4 DEF Truncated
  <2> QED BY <1>2, <1>n, <1>4, <2>1 DEF n
<1> QED BY <1>3, <1>4

\* The order of the chain as a number: who does not run later has no smaller key.
LEMMA KeyIsTheOrder ==
  ASSUME OverrideAssumption, NEW x \in Registration, NEW y \in Registration,
         ~(y.prio > x.prio \/ (y.prio = x.prio /\ y.plugin < x.plugin))
  PROVE  x.prio * (Plugins + 1) + Plugins - x.plugin
           >= y.prio * (Plugins + 1) + Plugins - y.plugin
<1>1. /\ x.prio \in Int /\ y.prio \in Int /\ Plugins \in Nat
      /\ x.plugin \in Nat /\ y.plugin \in Nat
      /\ x.plugin <= Plugins /\ y.plugin <= Plugins
      /\ x.plugin >= 1 /\ y.plugin >= 1
  <2>1. Priorities \subseteq Int /\ Plugins \in Nat
    BY DEF OverrideAssumption
  <2>2. /\ x.prio \in Priorities /\ y.prio \in Priorities
        /\ x.plugin \in 1 .. Plugins /\ y.plugin \in 1 .. Plugins
    BY DEF Registration
  <2>3. x.prio \in Int /\ y.prio \in Int
    BY <2>1, <2>2
  <2>4. \A i \in 1 .. Plugins : i \in Nat /\ i <= Plugins /\ i >= 1
    BY <2>1
  <2> QED BY <2>1, <2>2, <2>3, <2>4
<1>2. CASE x.prio = y.prio
  BY <1>1, <1>2
<1>3. CASE x.prio # y.prio
  <2> DEFINE d == x.prio - y.prio
  <2>1. d \in Nat /\ d >= 1
    BY <1>1, <1>3
  <2>2. x.prio * (Plugins + 1) = y.prio * (Plugins + 1) + d * (Plugins + 1)
    BY <1>1
  <2>3. d * (Plugins + 1) >= Plugins + 1
    <3> HIDE DEF d
    <3>1. \A a \in Nat, b \in Nat : (a + 1) * b >= b
      <4> SUFFICES ASSUME NEW a \in Nat, NEW b \in Nat PROVE (a + 1) * b >= b
        OBVIOUS
      <4>1. a * b >= 0 /\ a * b \in Nat
        OBVIOUS
      <4>2. (a + 1) * b = a * b + b
        OBVIOUS
      <4> QED BY <4>1, <4>2
    <3>2. d - 1 \in Nat /\ Plugins + 1 \in Nat /\ (d - 1) + 1 = d
      BY <1>1, <2>1
    <3>3. ((d - 1) + 1) * (Plugins + 1) >= Plugins + 1
      BY <3>1, <3>2
    <3> QED BY <3>2, <3>3
  <2>4. d * (Plugins + 1) \in Int /\ y.prio * (Plugins + 1) \in Int
    BY <1>1
  <2> HIDE DEF d
  <2> QED BY <1>1, <2>2, <2>3, <2>4
<1> QED BY <1>2, <1>3

-----------------------------------------------------------------------------
\* A chain only depends on the registrations.
LEMMA ChainsStay ==
  ASSUME pending' = pending
  PROVE  /\ \A t : Chains(t)' = Chains(t) /\ Links(t)' = Links(t)
         /\ Named' = Named
BY DEF Chains, Links, Named, Sorted, Before, Truncated, SetToSeqs

\* While targets are left, the next one is a target that some plugin named.
LEMMA TargetIsNamed ==
  ASSUME OverrideAssumption, RegistryInv, pc = "apply", todo # {}
  PROVE  Target \in todo /\ Target \in Targets /\ Links(Target) # {}
<1>1. todo \in SUBSET Nat /\ todo \subseteq Targets /\ todo \subseteq Named
  BY DEF RegistryInv, RegistryTypes, OverrideAssumption
<1>2. Target \in todo
  BY <1>1, MinIsLeast DEF Target
<1> QED BY <1>1, <1>2 DEF Named, Links

(* The registry starts in the invariant.                                   *)
LEMMA InitialInvariant ==
  ASSUME OverrideAssumption, RegistryInit
  PROVE  RegistryInv
<1>1. 1 \in 1 .. Plugins /\ <<>> \in Seq(Registration) /\ <<>> \in Seq(Targets)
  BY DEF OverrideAssumption
<1>2. entry \in [Targets -> {"nop", "dirty", "jmp"}]
      /\ \A t \in Targets : entry[t] # "jmp"
  BY DEF RegistryInit
<1>3. RegistryTypes
  BY <1>1, <1>2 DEF RegistryInit, RegistryTypes
<1>4. Jumps = {} /\ Patched = {}
  BY <1>2 DEF RegistryInit, Jumps, Patched
<1> QED BY <1>3, <1>4 DEF RegistryInit, RegistryInv

(* Every step of the registration keeps it.                                *)
LEMMA InvariantIsInductive ==
  ASSUME OverrideAssumption, RegistryInv, [RegistryNext]_registryVars
  PROVE  RegistryInv'
<1>1. /\ RegistryTypes /\ Jumps \subseteq Targets
      /\ DOMAIN patched = 1 .. Len(patched) /\ Len(patched) \in Nat
      /\ DOMAIN pending = 1 .. Len(pending) /\ Len(pending) \in Nat
  BY DEF RegistryInv, RegistryTypes, Jumps
<1>2. CASE NextPlugin
  <2>1. /\ pc = "register" /\ plugin' \in 1 .. Plugins
        /\ UNCHANGED <<strict, pending, errors, pc, todo, entry, slot, patched,
                       made, result, stuck>>
    BY <1>1, <1>2 DEF NextPlugin, RegistryTypes, OverrideAssumption
  <2>2. RegistryTypes'
    BY <1>1, <2>1 DEF RegistryTypes
  <2> QED BY <2>1, <2>2 DEF RegistryInv, Jumps, Patched
<1>3. CASE Record
  <2>1. PICK id \in Targets, p \in Priorities :
          pending' = Append(pending, [id |-> id, prio |-> p, plugin |-> plugin])
    BY <1>3 DEF Record
  <2>2. /\ pc = "register"
        /\ UNCHANGED <<strict, plugin, errors, pc, todo, entry, slot, patched,
                       made, result, stuck>>
    BY <1>3 DEF Record
  <2>3. [id |-> id, prio |-> p, plugin |-> plugin] \in Registration
    BY <1>1 DEF Registration, RegistryTypes
  <2>4. pending' \in Seq(Registration)
    BY <1>1, <2>1, <2>3 DEF RegistryTypes
  <2>5. RegistryTypes'
    BY <1>1, <2>2, <2>4 DEF RegistryTypes
  <2> QED BY <2>2, <2>5 DEF RegistryInv, Jumps, Patched
<1>4. CASE Reject
  <2>1. /\ pc = "register" /\ errors' = TRUE
        /\ UNCHANGED <<strict, plugin, pending, pc, todo, entry, slot, patched,
                       made, result, stuck>>
    BY <1>4 DEF Reject
  <2>2. RegistryTypes'
    BY <1>1, <2>1 DEF RegistryTypes
  <2> QED BY <2>1, <2>2 DEF RegistryInv, Jumps, Patched
<1>5. CASE ApplyBegin
  <2>1. /\ pc = "register" /\ todo' = Named
        /\ UNCHANGED <<strict, plugin, pending, errors, entry, slot, patched,
                       made, stuck>>
        /\ pc' = IF strict /\ errors THEN "exit"
                 ELSE IF pending = <<>> THEN "done" ELSE "apply"
    BY <1>5 DEF ApplyBegin, Named
  <2>2. Named \subseteq Targets
    <3>1. \A i \in DOMAIN pending : pending[i] \in Registration
      BY <1>1 DEF RegistryTypes
    <3> QED BY <3>1 DEF Named, Registration
  <2>3. Named' = Named /\ Jumps' = {} /\ Patched' = {} /\ stuck' = {}
        /\ Jumps = {} /\ patched = <<>>
    BY <2>1 DEF RegistryInv, Named, Jumps, Patched
  <2>4. pending = <<>> => Named = {}
    BY DEF Named
  <2>5. RegistryTypes'
    BY <1>1, <2>1, <2>2 DEF RegistryTypes
  <2>6. strict /\ pc' # "exit" => ~errors
    BY <2>1
  <2> QED BY <2>1, <2>3, <2>4, <2>5, <2>6 DEF RegistryInv
<1>6. CASE Drop
  <2>1. /\ pc = "apply" /\ todo' = todo \ {Target}
        /\ pc' = (IF strict THEN "unwind" ELSE "apply")
        /\ UNCHANGED <<strict, plugin, pending, errors, entry, slot, patched,
                       made, result, stuck>>
    BY <1>6 DEF Drop
  <2>2. /\ \A t : Chains(t)' = Chains(t)
        /\ Named' = Named
    BY <2>1, ChainsStay
  <2>3. Jumps' = Jumps /\ Patched' = Patched
    BY <2>1 DEF Jumps, Patched
  <2>4. RegistryTypes'
    BY <1>1, <2>1 DEF RegistryTypes
  <2> QED BY <2>1, <2>2, <2>3, <2>4 DEF RegistryInv
<1>7. ASSUME pc = "apply", todo # {}, Acceptable(Target), Fills(Target)
      PROVE  /\ Target \in todo /\ Target \in Targets /\ entry[Target] = "nop"
             /\ DOMAIN slot' = Targets /\ slot' = [t \in Targets |-> slot'[t]]
             /\ slot'[Target] \in Chains(Target)
             /\ \A t \in Targets \ {Target} : slot'[t] = slot[t]
  <2>1. Target \in todo /\ Target \in Targets /\ entry[Target] = "nop"
    BY <1>7, TargetIsNamed DEF Acceptable
  <2>2. PICK s \in Sorted(Links(Target)) :
          slot' = [slot EXCEPT ![Target] = Truncated(s)]
    BY <1>7 DEF Fills
  <2>3. /\ DOMAIN slot' = Targets /\ slot' = [t \in Targets |-> slot'[t]]
        /\ slot'[Target] = Truncated(s)
        /\ \A t \in Targets \ {Target} : slot'[t] = slot[t]
    BY <1>1, <2>1, <2>2 DEF RegistryTypes
  <2> QED BY <2>1, <2>2, <2>3 DEF Chains
<1>8. CASE Patch
  <2>1. /\ pc = "apply" /\ todo # {} /\ Acceptable(Target) /\ Fills(Target)
        /\ entry' = [entry EXCEPT ![Target] = "jmp"]
        /\ patched' = Append(patched, Target)
        /\ todo' = todo \ {Target}
        /\ UNCHANGED <<strict, plugin, pending, errors, pc, result, stuck>>
    BY <1>8 DEF Patch
  <2>2. /\ Target \in todo /\ Target \in Targets /\ entry[Target] = "nop"
        /\ DOMAIN slot' = Targets /\ slot' = [t \in Targets |-> slot'[t]]
        /\ slot'[Target] \in Chains(Target)
        /\ \A t \in Targets \ {Target} : slot'[t] = slot[t]
    BY <1>7, <2>1
  <2>3. (\A t : Chains(t)' = Chains(t)) /\ Named' = Named
    BY <2>1, ChainsStay
  <2>4. /\ Len(patched') = Len(patched) + 1 /\ patched' \in Seq(Targets)
        /\ DOMAIN patched' = 1 .. Len(patched) + 1
        /\ \A k \in DOMAIN patched : patched'[k] = patched[k]
        /\ patched'[Len(patched) + 1] = Target
    BY <1>1, <2>1, <2>2 DEF RegistryTypes
  <2>5. DOMAIN patched' = DOMAIN patched \cup {Len(patched) + 1}
    BY <1>1, <2>4
  <2>6. Patched' = Patched \cup {Target}
    BY <1>1, <2>4, <2>5 DEF Patched
  <2>7. /\ entry' \in [Targets -> {"nop", "dirty", "jmp"}]
        /\ Jumps' = Jumps \cup {Target}
    BY <1>1, <2>1, <2>2 DEF RegistryTypes, Jumps
  <2>8. stuck = {} /\ stuck' = {} /\ Target \notin Patched /\ Target \in Named
    BY <2>1, <2>2 DEF RegistryInv
  <2>9. \A k, l \in DOMAIN patched' : k # l => patched'[k] # patched'[l]
    <3>1. \A k \in DOMAIN patched : patched[k] # Target
      BY <2>8 DEF Patched
    <3>2. \A k, l \in DOMAIN patched : k # l => patched[k] # patched[l]
      BY DEF RegistryInv
    <3> QED BY <2>4, <2>5, <3>1, <3>2
  <2>10. RegistryTypes'
    BY <1>1, <2>1, <2>2, <2>4, <2>7 DEF RegistryTypes
  <2>11. \A t \in Jumps' : slot'[t] \in Chains(t)'
    BY <1>1, <2>2, <2>3, <2>7 DEF RegistryInv
  <2>12. todo' \cap Patched' = {} /\ stuck' \cap Patched' = {}
         /\ Jumps' \ stuck' = Patched' \ stuck'
    BY <2>1, <2>6, <2>7, <2>8 DEF RegistryInv
  <2>13. /\ todo' \subseteq Named' /\ Jumps' \subseteq Named'
         /\ strict => ~errors /\ Named' \subseteq todo' \cup Jumps'
    BY <2>1, <2>3, <2>7, <2>8 DEF RegistryInv
  <2> QED BY <2>1, <2>8, <2>9, <2>10, <2>11, <2>12, <2>13 DEF RegistryInv
<1>9. CASE PatchFails
  <2>1. /\ pc = "apply" /\ todo # {} /\ Acceptable(Target) /\ Fills(Target)
        /\ pc' = "unwind"
        /\ UNCHANGED <<strict, plugin, pending, errors, todo, entry, patched,
                       made, result, stuck>>
    BY <1>9 DEF PatchFails
  <2>2. /\ Target \in Targets /\ entry[Target] = "nop"
        /\ DOMAIN slot' = Targets /\ slot' = [t \in Targets |-> slot'[t]]
        /\ \A t \in Targets \ {Target} : slot'[t] = slot[t]
    BY <1>7, <2>1
  <2>3. (\A t : Chains(t)' = Chains(t)) /\ Named' = Named
    BY <2>1, ChainsStay
  <2>4. Jumps' = Jumps /\ Patched' = Patched /\ Target \notin Jumps
    BY <2>1, <2>2 DEF Jumps, Patched
  <2>5. RegistryTypes'
    BY <1>1, <2>1, <2>2 DEF RegistryTypes
  <2>6. \A t \in Jumps' : slot'[t] \in Chains(t)'
    BY <1>1, <2>2, <2>3, <2>4 DEF RegistryInv
  <2> QED BY <2>1, <2>3, <2>4, <2>5, <2>6 DEF RegistryInv
<1>10. CASE ApplyDone
  <2>1. /\ pc = "apply" /\ todo = {} /\ pc' = "done"
        /\ UNCHANGED <<strict, plugin, pending, errors, todo, entry, slot,
                       patched, made, stuck>>
    BY <1>10 DEF ApplyDone
  <2>2. (\A t : Chains(t)' = Chains(t)) /\ Named' = Named
    BY <2>1, ChainsStay
  <2>3. Jumps' = Jumps /\ Patched' = Patched
    BY <2>1 DEF Jumps, Patched
  <2>4. RegistryTypes'
    BY <1>1, <2>1 DEF RegistryTypes
  <2> QED BY <2>1, <2>2, <2>3, <2>4 DEF RegistryInv
<1>11. CASE UnwindOne
  <2> DEFINE h == Head(patched)
  <2>1. /\ pc = "unwind" /\ patched # <<>> /\ patched' = Tail(patched)
        /\ \/ entry' = [entry EXCEPT ![h] = "nop"] /\ stuck' = stuck
           \/ stuck' = stuck \cup {h} /\ entry' = entry
        /\ UNCHANGED <<strict, plugin, pending, errors, pc, todo, slot, made,
                       result>>
    BY <1>11 DEF UnwindOne
  <2>2. /\ Len(patched) > 0 /\ h = patched[1] /\ h \in Targets
        /\ patched' \in Seq(Targets)
        /\ DOMAIN patched' = 1 .. Len(patched) - 1
        /\ \A k \in 1 .. Len(patched) - 1 : patched'[k] = patched[k + 1]
    BY <1>1, <2>1 DEF RegistryTypes
  <2> HIDE DEF h
  <2>3. \A k, l \in DOMAIN patched : k # l => patched[k] # patched[l]
    BY DEF RegistryInv
  <2>4. ASSUME NEW k \in DOMAIN patched', NEW l \in DOMAIN patched', k # l
        PROVE  patched'[k] # patched'[l]
    <3>1. k + 1 \in DOMAIN patched /\ l + 1 \in DOMAIN patched /\ k + 1 # l + 1
      BY <1>1, <2>2, <2>4
    <3>2. patched[k + 1] # patched[l + 1]
      BY <2>3, <3>1
    <3> QED BY <2>2, <3>2
  <2>5. Patched' = Patched \ {h}
    <3>1. ASSUME NEW k \in DOMAIN patched'
          PROVE  patched'[k] \in Patched \ {h}
      <4>1. k + 1 \in DOMAIN patched /\ 1 \in DOMAIN patched /\ k + 1 # 1
        BY <1>1, <2>2
      <4>2. patched[k + 1] \in Patched /\ patched[k + 1] # h
        BY <2>2, <2>3, <4>1 DEF Patched
      <4> QED BY <2>2, <4>2
    <3>2. ASSUME NEW k \in DOMAIN patched, patched[k] # h
          PROVE  patched[k] \in Patched'
      <4>1. k - 1 \in DOMAIN patched' /\ patched'[k - 1] = patched[k]
        BY <1>1, <2>2, <3>2
      <4> QED BY <4>1 DEF Patched
    <3> QED BY <3>1, <3>2 DEF Patched
  <2>6. h \in Patched
    <3>1. 1 \in DOMAIN patched
      BY <1>1, <2>2
    <3> QED BY <2>2, <3>1 DEF Patched
  <2>7. (\A t : Chains(t)' = Chains(t)) /\ Named' = Named
    BY <2>1, ChainsStay
  <2>8. /\ Jumps' \ stuck' = Patched' \ stuck' /\ Jumps' \subseteq Jumps
        /\ entry' \in [Targets -> {"nop", "dirty", "jmp"}]
        /\ stuck' \subseteq Targets /\ stuck' \cap Patched' = {}
    <3>1. Jumps \ stuck = Patched \ stuck /\ stuck \cap Patched = {}
      BY DEF RegistryInv
    <3>2. CASE entry' = [entry EXCEPT ![h] = "nop"] /\ stuck' = stuck
      <4>1. entry' \in [Targets -> {"nop", "dirty", "jmp"}]
            /\ Jumps' = Jumps \ {h}
        BY <1>1, <2>2, <3>2 DEF RegistryTypes, Jumps
      <4> QED BY <1>1, <2>5, <2>6, <3>1, <3>2, <4>1 DEF RegistryTypes
    <3>3. CASE stuck' = stuck \cup {h} /\ entry' = entry
      <4>1. Jumps' = Jumps
        BY <3>3 DEF Jumps
      <4> QED BY <1>1, <2>2, <2>5, <2>6, <3>1, <3>3, <4>1 DEF RegistryTypes
    <3> QED BY <2>1, <3>2, <3>3
  <2>9. RegistryTypes'
    BY <1>1, <2>1, <2>2, <2>8 DEF RegistryTypes
  <2> QED BY <2>1, <2>4, <2>5, <2>7, <2>8, <2>9 DEF RegistryInv
<1>12. CASE UnwindDone
  <2>1. /\ pc = "unwind" /\ pc' = (IF strict THEN "exit" ELSE "done")
        /\ UNCHANGED <<strict, plugin, pending, errors, todo, entry, slot,
                       patched, made, stuck>>
    BY <1>12 DEF UnwindDone
  <2>2. (\A t : Chains(t)' = Chains(t)) /\ Named' = Named
    BY <2>1, ChainsStay
  <2>3. Jumps' = Jumps /\ Patched' = Patched
    BY <2>1 DEF Jumps, Patched
  <2>4. RegistryTypes'
    BY <1>1, <2>1 DEF RegistryTypes
  <2> QED BY <2>1, <2>2, <2>3, <2>4 DEF RegistryInv
<1>13. CASE UNCHANGED registryVars
  <2>1. UNCHANGED <<strict, plugin, pending, errors, pc, todo, entry, slot,
                    patched, made, result, stuck>>
    BY <1>13 DEF registryVars
  <2>2. (\A t : Chains(t)' = Chains(t)) /\ Named' = Named
    BY <2>1, ChainsStay
  <2>3. Jumps' = Jumps /\ Patched' = Patched
    BY <2>1 DEF Jumps, Patched
  <2>4. RegistryTypes'
    BY <1>1, <2>1 DEF RegistryTypes
  <2> QED BY <2>1, <2>2, <2>3, <2>4 DEF RegistryInv
<1> QED BY <1>2, <1>3, <1>4, <1>5, <1>6, <1>8, <1>9, <1>10, <1>11, <1>12, <1>13
        DEF RegistryNext

(* Every reachable state of the registry satisfies the inductive invariant. *)
THEOREM OverrideRegistryInvariant ==
  RegistrySpec => []RegistryInv
<1>1. RegistryInit => RegistryInv
  BY OverrideAssumption, InitialInvariant
<1>2. RegistryInv /\ [RegistryNext]_registryVars => RegistryInv'
  BY OverrideAssumption, InvariantIsInductive
<1> QED BY <1>1, <1>2, PTL DEF RegistrySpec

(* No engine entry jumps to a thunk whose chain is empty or is made of      *)
(* another function's registrations, whatever failed on the way.            *)
THEOREM OverrideJumpsHaveChains ==
  RegistrySpec => []JumpsHaveChains
<1> USE OverrideAssumption
<1>1. ASSUME RegistryInv, NEW t \in Jumps
      PROVE  slot[t] # <<>> /\ \A k \in DOMAIN slot[t] : slot[t][k] \in Links(t)
  <2>1. /\ IsFiniteSet(Links(t)) /\ Links(t) # {}
        /\ \E s \in Sorted(Links(t)) : slot[t] = Truncated(s)
    <3>1. RegistryTypes /\ slot[t] \in Chains(t)
      BY <1>1 DEF RegistryInv
    <3>2. t \in Named
      BY <1>1 DEF RegistryInv
    <3> QED BY <3>1, <3>2, LinksAreFinite DEF Chains, Named, Links
  <2>2. /\ slot[t] \in Seq(Links(t)) /\ Cardinality(Links(t)) \in Nat
        /\ Len(slot[t]) = IF Cardinality(Links(t)) > ChainMax THEN ChainMax
                          ELSE Cardinality(Links(t))
    BY <2>1, ChainIsOutermost
  <2>3. Cardinality(Links(t)) # 0
    BY <2>1, FS_EmptySet
  <2>4. Len(slot[t]) # 0
    BY <2>2, <2>3 DEF OverrideAssumption
  <2> QED BY <2>2, <2>4
<1>2. RegistryInv => JumpsHaveChains
  BY <1>1 DEF JumpsHaveChains
<1> QED BY <1>2, OverrideRegistryInvariant, PTL

(* A chain that CHAIN_MAX cuts short keeps the registrations that run       *)
(* first: higher priority first, then load order, each of them once.        *)
THEOREM OverrideChainsKeepTheOutermost ==
  RegistrySpec => []ChainsKeepTheOutermost
<1> USE OverrideAssumption
<1> DEFINE Key(i) == pending[i].prio * (Plugins + 1) + Plugins - pending[i].plugin
<1>1. ASSUME RegistryInv, NEW t \in Jumps
      PROVE  LET s == slot[t]
                 In == {s[k] : k \in DOMAIN s}
             IN  /\ Cardinality(In) = Len(s)
                 /\ Len(s) = Min({ChainMax, Cardinality(Links(t))})
                 /\ \A k \in 2 .. Len(s) : Key(s[k - 1]) >= Key(s[k])
                 /\ \A i \in In, j \in Links(t) \ In : Key(i) >= Key(j)
  <2> DEFINE s == slot[t]
             In == {s[k] : k \in DOMAIN s}
             L == Links(t)
  <2>1. /\ RegistryTypes /\ IsFiniteSet(L) /\ L \subseteq DOMAIN pending
        /\ \E q \in Sorted(L) : s = Truncated(q)
    <3>1. RegistryTypes /\ slot[t] \in Chains(t)
      BY <1>1 DEF RegistryInv
    <3> QED BY <3>1, LinksAreFinite DEF Chains
  <2>2. /\ s \in Seq(L) /\ Cardinality(L) \in Nat
        /\ Len(s) = IF Cardinality(L) > ChainMax THEN ChainMax ELSE Cardinality(L)
        /\ \A i, j \in 1 .. Len(s) : s[i] = s[j] => i = j
        /\ \A i, j \in 1 .. Len(s) : i < j => ~Before(s[j], s[i])
        /\ \A i \in 1 .. Len(s), x \in L :
             (\A j \in 1 .. Len(s) : s[j] # x) => ~Before(x, s[i])
    BY <2>1, ChainIsOutermost
  <2> HIDE DEF s, L
  <2>3. DOMAIN s = 1 .. Len(s) /\ Len(s) \in Nat
        /\ \A i \in 1 .. Len(s) : s[i] \in L
    BY <2>2
  <2>4. ASSUME NEW i \in L, NEW j \in L, ~Before(j, i)
        PROVE  Key(i) >= Key(j)
    <3>1. pending[i] \in Registration /\ pending[j] \in Registration
      BY <2>1 DEF RegistryTypes
    <3> QED BY <2>4, <3>1, KeyIsTheOrder DEF Before
  <2> HIDE DEF Key
  <2>5. Cardinality(In) = Len(s)
    <3>1. s \in Bijection(1 .. Len(s), In)
      <4>1. s \in [1 .. Len(s) -> In]
        BY <2>2, <2>3
      <4>2. s \in Injection(1 .. Len(s), In)
        BY <2>2, <4>1 DEF Injection, IsInjective
      <4>3. s \in Surjection(1 .. Len(s), In)
        BY <2>3, <4>1 DEF Surjection
      <4> QED BY <4>2, <4>3 DEF Bijection
    <3>2. ExistsBijection(1 .. Len(s), In)
      BY <3>1 DEF ExistsBijection
    <3> QED BY <2>3, <3>2, FS_CountingElements
  <2>6. Len(s) = Min({ChainMax, Cardinality(L)})
    <3>1. ChainMax \in Nat
      BY DEF OverrideAssumption
    <3>2. {ChainMax, Cardinality(L)} \in SUBSET Nat /\ {ChainMax, Cardinality(L)} # {}
      BY <2>2, <3>1
    <3>3. /\ Min({ChainMax, Cardinality(L)}) \in {ChainMax, Cardinality(L)}
          /\ \A m \in {ChainMax, Cardinality(L)} : Min({ChainMax, Cardinality(L)}) <= m
      BY <3>2, MinIsLeast
    <3> QED BY <2>2, <3>1, <3>3
  <2>7. \A k \in 2 .. Len(s) : Key(s[k - 1]) >= Key(s[k])
    <3> SUFFICES ASSUME NEW k \in 2 .. Len(s) PROVE Key(s[k - 1]) >= Key(s[k])
      OBVIOUS
    <3>1. k - 1 \in 1 .. Len(s) /\ k \in 1 .. Len(s) /\ k - 1 < k
      BY <2>3
    <3> QED BY <2>2, <2>3, <2>4, <3>1
  <2>8. \A i \in In, j \in L \ In : Key(i) >= Key(j)
    <3> SUFFICES ASSUME NEW k \in 1 .. Len(s), NEW j \in L \ In
                 PROVE  Key(s[k]) >= Key(j)
      BY <2>3
    <3>1. \A m \in 1 .. Len(s) : s[m] # j
      BY <2>3
    <3> QED BY <2>2, <2>3, <2>4, <3>1
  <2> QED BY <2>5, <2>6, <2>7, <2>8 DEF s, L
<1>2. RegistryInv => ChainsKeepTheOutermost
  BY <1>1 DEF ChainsKeepTheOutermost
<1> QED BY <1>2, OverrideRegistryInvariant, PTL

(* unwind_all takes every entry back but those it cannot make writable.     *)
THEOREM OverrideWriteFailureTakesAllBack ==
  RegistrySpec => []WriteFailureTakesAllBack
<1>1. RegistryInv => WriteFailureTakesAllBack
  BY DEF RegistryInv, WriteFailureTakesAllBack, Patched
<1> QED BY <1>1, OverrideRegistryInvariant, PTL

(* Under --strict-mods the program goes on only with every named function   *)
(* patched and no registration refused.                                     *)
THEOREM OverrideStrictIsAllOrExit ==
  RegistrySpec => []StrictIsAllOrExit
<1>1. RegistryInv => StrictIsAllOrExit
  BY DEF RegistryInv, StrictIsAllOrExit, Named
<1> QED BY <1>1, OverrideRegistryInvariant, PTL

-----------------------------------------------------------------------------
(* Frame publishing: the types.                                             *)

PixelRecord == [scene : Nat, over : BOOLEAN, pub : Nat]

GameType ==
  /\ game \in [pc : {"draw", "flip", "snapped", "emit", "emitrow", "emitted"},
               at : Cells]
  /\ path \in AllPaths /\ scene \in Nat /\ shown \in Nat
  /\ back \in [Cells -> Nat] /\ clean \in [Cells -> Nat]

TickType ==
  /\ tick \in [pc : {"idle", "blit", "live", "compose", "bump"}, at : Cells]
  /\ stage \in [Cells -> PixelRecord] /\ pixels \in [Cells -> PixelRecord]
  /\ frame \in Nat /\ pubs \in Nat

ReaderType ==
  reader \in [pc : {"f0", "read", "f1", "stable", "unstable"}, at : Cells,
              f0 : Nat, tries : Nat, rgb : [Cells -> PixelRecord]]

TypeOK == GameType /\ TickType /\ ReaderType

(* A frame has a first and a last cell.                                     *)
LEMMA CellsAreBounded ==
  /\ NCells \in Nat /\ 1 \in Cells /\ NCells \in Cells
  /\ \A c \in Cells : c \in Nat /\ (c < NCells => c + 1 \in Cells)
  /\ Paths \subseteq AllPaths /\ MaxScene \in Nat /\ MaxPub \in Nat
  /\ MaxFrame \in Nat
BY FrameAssumption DEF Cells, MaxFrame

(* Cells are visited in ascending order, the first one first.               *)
LEMMA CellsAreOrdered ==
  \A c, d \in Cells :
    /\ c < d \/ c >= d
    /\ c < d + 1 <=> c < d \/ c = d
    /\ c >= d + 1 <=> c >= d /\ c # d
    /\ d + 1 # 1 /\ ~(c < 1) /\ c >= 1
    /\ ~(d < NCells) => d = NCells /\ (c < d \/ c = d)
BY FrameAssumption DEF Cells

(* A counter stays a number.                                                *)
LEMMA BumpIsANumber == \A n, m \in Nat : Bump(n, m) \in Nat
BY DEF Bump

(* Composing the overlay changes nothing but the overlay flag, and sets it  *)
(* over the panel.                                                          *)
LEMMA ComposedIsAFrame ==
  ASSUME NEW f \in [Cells -> PixelRecord]
  PROVE  /\ Composed(f) \in [Cells -> PixelRecord]
         /\ \A c \in Cells : /\ Composed(f)[c].pub = f[c].pub
                             /\ Composed(f)[c].scene = f[c].scene
                             /\ Composed(f)[c].over = (f[c].over \/ c \in Panel)
<1>1. \A c \in Cells : f[c] \in PixelRecord
  OBVIOUS
<1>2. \A c \in Cells :
        /\ Composed(f)[c] \in PixelRecord
        /\ Composed(f)[c].pub = f[c].pub
        /\ Composed(f)[c].scene = f[c].scene
        /\ Composed(f)[c].over = (f[c].over \/ c \in Panel)
  BY <1>1 DEF Composed, PixelRecord
<1> QED
  BY <1>2 DEF Composed

(* Init starts in the types.                                                *)
LEMMA InitialTypes == Init => TypeOK
BY CellsAreBounded
DEF Init, TypeOK, GameType, TickType, ReaderType, PixelRecord, Pixel

(* The game thread keeps its types.                                         *)
LEMMA GameKeepsTypes == TypeOK /\ GameStep => TypeOK'
<1> SUFFICES ASSUME TypeOK, GameStep PROVE TypeOK'
  OBVIOUS
<1> USE CellsAreBounded, BumpIsANumber DEF TypeOK, GameType, TickType, ReaderType
<1>1. CASE SwitchPath
  BY <1>1 DEF SwitchPath
<1>2. CASE DrawCell
  BY <1>2 DEF DrawCell
<1>3. CASE FlipRaw
  BY <1>3 DEF FlipRaw
<1>4. CASE SnapshotCell
  BY <1>4 DEF SnapshotCell
<1>5. CASE SnapshotDone
  BY <1>5 DEF SnapshotDone
<1>6. CASE EmitClear
  BY <1>6 DEF EmitClear, PixelRecord, Pixel
<1>7. CASE EmitRow
  BY <1>7 DEF EmitRow, PixelRecord, Pixel
<1>8. CASE EmitDone
  BY <1>8 DEF EmitDone
<1> QED
  BY <1>1, <1>2, <1>3, <1>4, <1>5, <1>6, <1>7, <1>8 DEF GameStep

(* The tick keeps its types.                                                *)
LEMMA TickKeepsTypes == TypeOK /\ TickStep => TypeOK'
<1> SUFFICES ASSUME TypeOK, TickStep PROVE TypeOK'
  OBVIOUS
<1> USE CellsAreBounded, BumpIsANumber DEF TypeOK, GameType, TickType, ReaderType
<1>1. CASE TickStage
  <2> DEFINE src == IF path = "vga13h" THEN back ELSE Snapshot
             bare == [c \in Cells |-> Pixel(src[c], FALSE, pubs')]
  <2>1. src \in [Cells -> Nat] /\ Snapshot \in [Cells -> Nat]
    BY DEF Snapshot
  <2>2. pubs' \in Nat
    BY <1>1 DEF TickStage
  <2>3. bare \in [Cells -> PixelRecord]
    BY <2>1, <2>2 DEF PixelRecord, Pixel
  <2>4. stage' = Composed(bare)
    BY <1>1 DEF TickStage
  <2>5. stage' \in [Cells -> PixelRecord]
    BY <2>3, <2>4, ComposedIsAFrame
  <2> QED
    BY <1>1, <2>1, <2>2, <2>5 DEF TickStage
<1>2. CASE TickBlit
  BY <1>2 DEF TickBlit
<1>3. CASE TickLivePage
  BY <1>3 DEF TickLivePage
<1>4. CASE TickLiveCell
  BY <1>4 DEF TickLiveCell, PixelRecord, Pixel
<1>5. CASE TickSkip
  BY <1>5 DEF TickSkip
<1>6. CASE TickCompose
  BY <1>6, ComposedIsAFrame DEF TickCompose
<1>7. CASE TickBump
  BY <1>7 DEF TickBump
<1> QED
  BY <1>1, <1>2, <1>3, <1>4, <1>5, <1>6, <1>7 DEF TickStep

(* What reading one cell does to the reader's copy.                         *)
LEMMA ReadCellEffect ==
  ASSUME TypeOK, ReadCell
  PROVE  /\ reader'.rgb = [reader.rgb EXCEPT ![reader.at] = pixels[reader.at]]
         /\ reader'.f0 = reader.f0
         /\ reader'.pc = IF reader.at < NCells THEN "read" ELSE "f1"
         /\ reader'.at = IF reader.at < NCells THEN reader.at + 1 ELSE 1
         /\ reader'.tries = reader.tries
         /\ reader' = [pc |-> reader'.pc, at |-> reader'.at, f0 |-> reader'.f0,
                       tries |-> reader'.tries, rgb |-> reader'.rgb]
BY DEF TypeOK, ReaderType, ReadCell

(* The reader keeps its types.                                              *)
LEMMA ReaderKeepsTypes == TypeOK /\ ReaderStep => TypeOK'
<1> SUFFICES ASSUME TypeOK, ReaderStep PROVE TypeOK'
  OBVIOUS
<1> USE CellsAreBounded DEF TypeOK, GameType, TickType, ReaderType
<1>1. CASE ReadF0
  BY <1>1 DEF ReadF0
<1>2. CASE ReadCell
  <2>1. reader'.rgb \in [Cells -> PixelRecord]
    BY <1>2, ReadCellEffect
  <2>2. reader'.pc \in {"read", "f1"} /\ reader'.at \in Cells
        /\ reader'.f0 \in Nat /\ reader'.tries \in Nat
    BY <1>2, ReadCellEffect
  <2>3. ReaderType'
    BY <1>2, <2>1, <2>2, ReadCellEffect
  <2> QED
    BY <1>2, <2>3 DEF ReadCell
<1>3. CASE ReadF1
  <2>1. CASE Retries
    <3>1. reader' = [reader EXCEPT !.pc = "f0", !.tries = @ + 1]
      BY <1>3, <2>1 DEF ReadF1
    <3>2. reader.tries + 1 \in Nat
      OBVIOUS
    <3>3. ReaderType'
      BY <3>1, <3>2
    <3> QED
      BY <1>3, <3>3 DEF ReadF1
  <2>2. CASE ~Retries
    BY <1>3, <2>2 DEF ReadF1
  <2> QED
    BY <2>1, <2>2
<1>4. CASE Present
  BY <1>4 DEF Present
<1> QED
  BY <1>1, <1>2, <1>3, <1>4 DEF ReaderStep

(* Type correctness: every buffer stays a whole frame and no copy loop of   *)
(* any of the three actors runs past its last cell.                         *)
THEOREM FramePublishTypes == Spec => []TypeOK
<1>1. TypeOK /\ UNCHANGED vars => TypeOK'
  BY DEF TypeOK, GameType, TickType, ReaderType, vars
<1>2. TypeOK /\ [Next]_vars => TypeOK'
  BY <1>1, GameKeepsTypes, TickKeepsTypes, ReaderKeepsTypes DEF Next
<1> QED
  BY <1>2, InitialTypes, PTL DEF Spec

-----------------------------------------------------------------------------
(* The overlay of an open panel.                                            *)

(* A frame is staged with the overlay composed over the panel.              *)
StagedWithOverlay == tick.pc = "blit" => \A c \in Panel : stage[c].over

(* What a tick that stages a frame puts into it: one publication, read from *)
(* one source, with the overlay.                                            *)
LEMMA StageEffect ==
  ASSUME TypeOK, TickStage
  PROVE  \A c \in Cells :
           /\ stage'[c].pub = pubs'
           /\ stage'[c].scene = (IF path = "vga13h" THEN back ELSE Snapshot)[c]
           /\ c \in Panel => stage'[c].over
<1> DEFINE src == IF path = "vga13h" THEN back ELSE Snapshot
           bare == [c \in Cells |-> Pixel(src[c], FALSE, pubs')]
<1>1. src \in [Cells -> Nat]
  BY DEF TypeOK, GameType, Snapshot
<1>2. pubs' \in Nat
  BY BumpIsANumber, CellsAreBounded DEF TickStage, TypeOK, TickType
<1>3. bare \in [Cells -> PixelRecord]
  BY <1>1, <1>2 DEF PixelRecord, Pixel
<1>4. stage' = Composed(bare)
  BY DEF TickStage
<1>5. \A c \in Cells : bare[c].pub = pubs' /\ bare[c].scene = src[c]
  BY DEF Pixel
<1>6. \A c \in Cells : /\ stage'[c].pub = bare[c].pub
                       /\ stage'[c].scene = bare[c].scene
                       /\ c \in Panel => stage'[c].over
  BY <1>3, <1>4, ComposedIsAFrame
<1> QED
  BY <1>5, <1>6

(* Only TickStage builds a frame to blit, and it composes the overlay.      *)
LEMMA StagesKeepTheOverlay ==
  TypeOK /\ StagedWithOverlay /\ [Next]_vars => StagedWithOverlay'
<1> SUFFICES ASSUME TypeOK, StagedWithOverlay, [Next]_vars
             PROVE  StagedWithOverlay'
  OBVIOUS
<1> USE DEF StagedWithOverlay
<1>0. CASE UNCHANGED vars
  BY <1>0 DEF vars
<1>1. CASE GameStep
  BY <1>1 DEF GameStep, SwitchPath, DrawCell, FlipRaw, SnapshotCell,
              SnapshotDone, EmitClear, EmitRow, EmitDone
<1>2. CASE ReaderStep
  BY <1>2 DEF ReaderStep, ReadF0, ReadCell, ReadF1, Present
<1>3. CASE TickStage
  BY <1>3, StageEffect, FrameAssumption DEF Cells
<1>4. CASE TickBlit
  BY <1>4 DEF TickBlit
<1>5. CASE TickLivePage \/ TickLiveCell
  <2>1. tick'.pc # "blit"
    <3>1. CASE TickLivePage
      BY <3>1 DEF TickLivePage
    <3>2. CASE TickLiveCell
      BY <3>2 DEF TickLiveCell, TypeOK, TickType
    <3> QED
      BY <1>5, <3>1, <3>2
  <2> QED
    BY <2>1
<1>6. CASE TickSkip \/ TickCompose \/ TickBump
  BY <1>6 DEF TickSkip, TickCompose, TickBump
<1> QED
  BY <1>0, <1>1, <1>2, <1>3, <1>4, <1>5, <1>6 DEF Next, TickStep

(* A step that takes the overlay off a panel cell is a cutscene frame or a  *)
(* live page.                                                               *)
LEMMA StepKeepsOverlay ==
  ASSUME TypeOK, StagedWithOverlay, [Next]_vars, NEW c \in Panel,
         pixels[c].over, ~pixels'[c].over
  PROVE  game.pc \in {"emit", "emitrow"} \/ tick.pc = "live"
<1>1. c \in Cells
  BY FrameAssumption DEF Cells
<1>2. pixels # pixels'
  OBVIOUS
<1>3. EmitClear \/ EmitRow \/ TickBlit \/ TickLiveCell \/ TickCompose
  BY <1>2 DEF Next, GameStep, TickStep, ReaderStep, SwitchPath, DrawCell,
              FlipRaw, SnapshotCell, SnapshotDone, EmitDone, TickStage,
              TickLivePage, TickSkip, TickBump, ReadF0, ReadCell, ReadF1,
              Present, vars
<1>4. CASE EmitClear \/ EmitRow
  BY <1>4 DEF EmitClear, EmitRow
<1>5. CASE TickLiveCell
  BY <1>5 DEF TickLiveCell
<1>6. CASE TickBlit
  <2>1. stage[c].over
    BY <1>6 DEF TickBlit, StagedWithOverlay
  <2> QED
    BY <1>1, <1>6, <2>1 DEF TickBlit, TypeOK, TickType
<1>7. CASE TickCompose
  BY <1>1, <1>7, ComposedIsAFrame DEF TickCompose, TypeOK, TickType
<1> QED
  BY <1>3, <1>4, <1>5, <1>6, <1>7

(* Once the overlay was composed over a panel cell of the shared pixels,    *)
(* only a cutscene frame or a live display page takes it off again: a       *)
(* staged tick of shm_tick never shows the bare world in the panel.         *)
THEOREM StagedTicksKeepTheOverlay == Spec => PanelKeepsOverlay
<1>1. Init => StagedWithOverlay
  BY DEF Init, StagedWithOverlay
<1>2. TypeOK /\ StagedWithOverlay /\ [Next]_vars
        => [\A c \in Panel : pixels[c].over /\ ~pixels'[c].over
              => \/ game.pc \in {"emit", "emitrow"}
                 \/ tick.pc = "live"]_vars
  BY StepKeepsOverlay
<1> QED
  BY <1>1, <1>2, StagesKeepTheOverlay, FramePublishTypes, PTL
  DEF Spec, PanelKeepsOverlay

-----------------------------------------------------------------------------
(* Only finished flips are published.                                       *)

(* The back buffer holds the scene up to the cell being drawn and one older *)
(* scene from there on; once drawn, it holds that scene.                    *)
BackIsSplit ==
  /\ game.pc = "draw" => \A c \in Cells :
       /\ c < game.at => back[c] = scene
       /\ c >= game.at => back[c] = back[NCells]
  /\ game.pc # "draw" => \A c \in Cells : back[c] = scene

(* Outside the copy the snapshot is whole, except that the popup refreshes  *)
(* it while a scene is drawn: it is whole again when the game may leave the *)
(* popup.  Inside the copy it is split at the cell being copied.            *)
CleanIsAFlip ==
  /\ game.pc \notin {"flip", "snapped"}
     /\ (path # "popup" \/ (game.pc = "draw" /\ game.at = 1))
       => \A c \in Cells : clean[c] = shown
  /\ game.pc = "flip" => \A c \in Cells :
       /\ c < game.at => clean[c] = scene
       /\ c >= game.at /\ path # "popup" => clean[c] = shown
  /\ game.pc = "snapped" => \A c \in Cells : clean[c] = scene

(* A raw flip is never split, and cutscenes alone emit.                     *)
PathOfPhase ==
  /\ game.pc = "flip" /\ path = "vga13h" => game.at = 1
  /\ game.pc = "snapped" => path # "vga13h"
  /\ game.pc \in {"emit", "emitrow", "emitted"} => path = "gdv"
  /\ game.pc \in {"flip", "snapped"} => path # "gdv"

FlipInv == BackIsSplit /\ CleanIsAFlip /\ PathOfPhase /\ PublishesFinishedFlips

(* What the flip invariant speaks about.                                    *)
FlipState == <<path, scene, back, clean, shown, game, tick, stage>>

(* A step that leaves these alone leaves the invariant alone.               *)
LEMMA FlipStutters == FlipInv /\ UNCHANGED FlipState => FlipInv'
BY DEF FlipInv, BackIsSplit, CleanIsAFlip, PathOfPhase,
       PublishesFinishedFlips, FlipState

(* The game thread draws, copies and emits whole scenes, in this order.     *)
LEMMA GameKeepsFlips == TypeOK /\ FlipInv /\ GameStep => FlipInv'
<1> SUFFICES ASSUME TypeOK, FlipInv, GameStep PROVE FlipInv'
  OBVIOUS
<1> USE CellsAreBounded
    DEF TypeOK, GameType, FlipInv, BackIsSplit, CleanIsAFlip, PathOfPhase
<1>0. PublishesFinishedFlips'
  <2>1. tick'.pc # "blit"
    BY DEF GameStep, SwitchPath, DrawCell, FlipRaw, SnapshotCell,
           SnapshotDone, EmitClear, EmitRow, EmitDone, Preempted
  <2> QED
    BY <2>1 DEF PublishesFinishedFlips
<1>1. CASE SwitchPath
  BY <1>0, <1>1 DEF SwitchPath
<1>2. CASE DrawCell
  <2>1. /\ back' = [back EXCEPT ![game.at] = scene] /\ game.pc = "draw"
        /\ path' = path /\ scene' = scene /\ clean' = clean /\ shown' = shown
    BY <1>2 DEF DrawCell
  <2>2. CASE game.at < NCells
    <3>1. game'.pc = "draw" /\ game'.at = game.at + 1
      BY <1>2, <2>2 DEF DrawCell
    <3>2. ASSUME NEW c \in Cells
          PROVE  /\ c < game'.at => back'[c] = scene
                 /\ c >= game'.at => back'[c] = back'[NCells]
      <4>0. c \in Nat /\ game.at \in Nat /\ NCells \in Nat
        BY DEF Cells
      <4>1. /\ c < game'.at => c < game.at \/ c = game.at
            /\ c >= game'.at => c >= game.at /\ c # game.at
            /\ game.at # NCells
        BY <2>2, <3>1, <4>0
      <4> QED
        BY <2>1, <4>1
    <3>2a. BackIsSplit'
      BY <2>1, <3>1, <3>2
    <3>3. CleanIsAFlip'
      <4>1. game'.at # 1
        BY <3>1, CellsAreOrdered
      <4>2. path # "popup" => \A c \in Cells : clean[c] = shown
        BY <2>1
      <4> QED
        BY <2>1, <3>1, <4>1, <4>2
    <3> QED
      BY <1>0, <2>1, <3>1, <3>2a, <3>3
  <2>3. CASE ~(game.at < NCells)
    <3>1. game'.pc = (IF path = "gdv" THEN "emit" ELSE "flip") /\ game'.at = 1
          /\ game.at = NCells
      BY <1>2, <2>3 DEF DrawCell, Cells
    <3>2. \A c \in Cells : c < NCells \/ c = NCells
      BY CellsAreOrdered, CellsAreBounded
    <3>3. BackIsSplit'
      BY <2>1, <3>1, <3>2
    <3>4. CleanIsAFlip'
      <4>1. path # "popup" => \A c \in Cells : clean[c] = shown
        BY <2>1
      <4>2. \A c \in Cells : ~(c < 1)
        BY DEF Cells
      <4> QED
        BY <2>1, <3>1, <4>1, <4>2
    <3> QED
      BY <1>0, <2>1, <3>1, <3>3, <3>4
  <2> QED
    BY <2>2, <2>3
<1>3. CASE FlipRaw
  <2>1. \A c \in Cells : ~(c < 1)
    BY DEF Cells
  <2> QED
    BY <1>0, <1>3, <2>1 DEF FlipRaw
<1>4. CASE SnapshotCell
  <2>1. /\ clean' = [clean EXCEPT ![game.at] = back[game.at]]
        /\ game.pc = "flip" /\ path # "vga13h" /\ back[game.at] = scene
        /\ path' = path /\ scene' = scene /\ back' = back /\ shown' = shown
    BY <1>4 DEF SnapshotCell
  <2>2. CASE game.at < NCells
    <3>1. game'.pc = "flip" /\ game'.at = game.at + 1
      BY <1>4, <2>1, <2>2 DEF SnapshotCell
    <3>2. ASSUME NEW c \in Cells
          PROVE  /\ c < game'.at => clean'[c] = scene
                 /\ c >= game'.at /\ path # "popup" => clean'[c] = shown
      <4>0. c \in Nat /\ game.at \in Nat
        BY DEF Cells
      <4>1. /\ c < game'.at => c < game.at \/ c = game.at
            /\ c >= game'.at => c >= game.at /\ c # game.at
        BY <3>1, <4>0
      <4> QED
        BY <2>1, <4>1
    <3>3. CleanIsAFlip'
      BY <2>1, <3>1, <3>2
    <3> QED
      BY <1>0, <2>1, <3>1, <3>3
  <2>3. CASE ~(game.at < NCells)
    <3>1. game'.pc = "snapped" /\ game.at = NCells
      BY <1>4, <2>3 DEF SnapshotCell, Cells
    <3>2. \A c \in Cells : c < NCells \/ c = NCells
      BY CellsAreOrdered, CellsAreBounded
    <3>3. CleanIsAFlip'
      BY <2>1, <3>1, <3>2
    <3> QED
      BY <1>0, <2>1, <3>1, <3>3
  <2> QED
    BY <2>2, <2>3
<1>5. CASE SnapshotDone
  <2>1. \A c \in Cells : ~(c < 1)
    BY DEF Cells
  <2> QED
    BY <1>0, <1>5, <2>1 DEF SnapshotDone
<1>6. CASE EmitClear
  BY <1>0, <1>6 DEF EmitClear
<1>7. CASE EmitRow
  BY <1>0, <1>7 DEF EmitRow
<1>8. CASE EmitDone
  <2>1. \A c \in Cells : ~(c < 1)
    BY DEF Cells
  <2> QED
    BY <1>0, <1>8, <2>1 DEF EmitDone
<1> QED
  BY <1>1, <1>2, <1>3, <1>4, <1>5, <1>6, <1>7, <1>8 DEF GameStep

(* The tick publishes the snapshot, or one it refreshes from the back       *)
(* buffer in the popup, wherever it lands in the game thread's loops.       *)
LEMMA TickKeepsFlips == TypeOK /\ FlipInv /\ TickStep => FlipInv'
<1> SUFFICES ASSUME TypeOK, FlipInv, TickStep PROVE FlipInv'
  OBVIOUS
<1>1. CASE TickStage
  <2>1. /\ path' = path /\ scene' = scene /\ back' = back /\ game' = game
        /\ clean' = (IF path = "vga13h" THEN clean ELSE Snapshot)
        /\ shown' = (IF path = "popup" THEN back[NCells] ELSE shown)
        /\ path # "gdv"
    BY <1>1 DEF TickStage
  <2>2. BackIsSplit' /\ PathOfPhase'
    BY <2>1 DEF FlipInv, BackIsSplit, PathOfPhase
  <2>3. CASE path = "popup"
    <3>1. clean' = back /\ shown' = back[NCells]
      BY <2>1, <2>3 DEF Snapshot
    <3>2. game.pc = "draw" /\ game.at = 1 => \A c \in Cells : back[c] = back[NCells]
      BY DEF FlipInv, BackIsSplit, Cells
    <3>3. game.pc # "draw" => \A c \in Cells : back[c] = scene
      BY DEF FlipInv, BackIsSplit
    <3>4. game.pc \notin {"flip", "snapped"} => game.pc = "draw"
      BY <2>1 DEF FlipInv, PathOfPhase, TypeOK, GameType
    <3>5. CleanIsAFlip'
      BY <2>1, <2>3, <3>1, <3>2, <3>3, <3>4 DEF CleanIsAFlip
    <3>6. PublishesFinishedFlips'
      BY <2>1, <2>3 DEF PublishesFinishedFlips
    <3> QED
      BY <2>2, <3>5, <3>6 DEF FlipInv
  <2>4. CASE path # "popup"
    <3>1. clean' = clean /\ shown' = shown
      BY <2>1, <2>4 DEF Snapshot
    <3>2. CleanIsAFlip'
      BY <2>1, <3>1 DEF FlipInv, CleanIsAFlip
    <3>3. path \in {"flip", "corner"} => \A c \in Cells : stage'[c].scene = clean[c]
      BY <1>1, <2>4, StageEffect DEF Snapshot
    <3>4. path \in {"flip", "corner"} =>
            \A c \in Cells : \/ clean[c] = shown
                             \/ clean[c] = scene /\ game.pc \in {"flip", "snapped"}
      <4> SUFFICES ASSUME path \in {"flip", "corner"}, NEW c \in Cells
                   PROVE  \/ clean[c] = shown
                          \/ clean[c] = scene /\ game.pc \in {"flip", "snapped"}
        OBVIOUS
      <4>1. CASE game.pc \notin {"flip", "snapped"}
        BY <4>1 DEF FlipInv, CleanIsAFlip
      <4>2. CASE game.pc = "snapped"
        BY <4>2 DEF FlipInv, CleanIsAFlip
      <4>3. CASE game.pc = "flip"
        <5>1. c < game.at \/ c >= game.at
          BY CellsAreOrdered DEF TypeOK, GameType
        <5> QED
          BY <4>3, <5>1 DEF FlipInv, CleanIsAFlip
      <4> QED
        BY <4>1, <4>2, <4>3
    <3>5. PublishesFinishedFlips'
      BY <2>1, <3>1, <3>3, <3>4 DEF PublishesFinishedFlips
    <3> QED
      BY <2>2, <3>2, <3>5 DEF FlipInv
  <2> QED
    BY <2>3, <2>4
<1>2. CASE TickBlit
  <2>1. tick.pc = "blit" /\ UNCHANGED <<path, scene, back, clean, shown, game, stage>>
    BY <1>2 DEF TickBlit
  <2> QED
    BY <2>1 DEF FlipInv, BackIsSplit, CleanIsAFlip, PathOfPhase,
                PublishesFinishedFlips
<1>3. CASE TickLivePage \/ TickLiveCell \/ TickSkip \/ TickCompose \/ TickBump
  <2>1. tick'.pc # "blit"
    <3>1. CASE TickLiveCell
      BY <3>1 DEF TickLiveCell, TypeOK, TickType
    <3> QED
      BY <1>3, <3>1 DEF TickLivePage, TickSkip, TickCompose, TickBump
  <2>2. UNCHANGED <<path, scene, back, clean, shown, game, stage>>
    BY <1>3 DEF TickLivePage, TickLiveCell, TickSkip, TickCompose, TickBump
  <2> QED
    BY <2>1, <2>2 DEF FlipInv, BackIsSplit, CleanIsAFlip, PathOfPhase,
                      PublishesFinishedFlips
<1> QED
  BY <1>1, <1>2, <1>3 DEF TickStep

(* The flip invariant holds of every behaviour.                             *)
LEMMA FlipsHold == Spec => []FlipInv
<1>1. Init => FlipInv
  <2> SUFFICES ASSUME Init PROVE FlipInv
    OBVIOUS
  <2>1. BackIsSplit
    BY CellsAreBounded, CellsAreOrdered DEF Init, BackIsSplit
  <2>2. CleanIsAFlip /\ PathOfPhase /\ PublishesFinishedFlips
    BY DEF Init, CleanIsAFlip, PathOfPhase, PublishesFinishedFlips
  <2> QED
    BY <2>1, <2>2 DEF FlipInv
<1>2. UNCHANGED vars \/ ReaderStep => UNCHANGED FlipState
  BY DEF vars, ReaderStep, ReadF0, ReadCell, ReadF1, Present, FlipState
<1>3. TypeOK /\ FlipInv /\ [Next]_vars => FlipInv'
  BY <1>2, FlipStutters, GameKeepsFlips, TickKeepsFlips DEF Next
<1> QED
  BY <1>1, <1>3, FramePublishTypes, PTL DEF Spec

(* Outside the live display paths and mode 13h a tick publishes cells of    *)
(* the flip copied last or of the one being copied, never of a scene whose  *)
(* drawing has not ended: the promise video_publish_composed is called for. *)
THEOREM TicksPublishFinishedFlips == Spec => []PublishesFinishedFlips
<1>1. FlipInv => PublishesFinishedFlips
  BY DEF FlipInv
<1> QED
  BY <1>1, FlipsHold, PTL

-----------------------------------------------------------------------------
(* What an upload with two equal reads of `frame` is made of.               *)

Emitting == game.pc \in {"emitrow", "emitted"}
Ticking == tick.pc # "idle"
Copying == tick.pc \in {"blit", "live"}

(* A publication has begun, or a tick runs, that has not bumped frame yet.  *)
Pending == Emitting \/ Ticking

(* frame does not wrap while publications are left.                         *)
FrameHasRoom ==
  /\ pubs <= MaxPub
  /\ Emitting \/ Copying => pubs > 0
  /\ frame + (IF Ticking THEN 1 ELSE 0) + (IF Emitting THEN 1 ELSE 0)
       <= MaxPub + pubs

(* The shared pixels belong to the publication that began last, except that *)
(* the cells its copy has not reached belong to the one before.             *)
PixelsAreRecent ==
  /\ Copying => ~Emitting
  /\ tick.pc = "blit" => \A c \in Cells : stage[c].pub = pubs
  /\ \A c \in Cells : /\ ~(Copying /\ c >= tick.at) => pixels[c].pub = pubs
                      /\ Copying /\ c >= tick.at => pixels[c].pub = pubs - 1

(* While frame has the value it was read with, the cells read so far come   *)
(* from the publication that began last or, until frame is bumped, from the *)
(* one before it.                                                           *)
ReadIsRecent ==
  reader.pc \in {"read", "f1"} =>
    /\ reader.f0 <= frame
    /\ reader.f0 = frame =>
         \A c \in Cells : reader.pc = "f1" \/ c < reader.at =>
           /\ reader.rgb[c].pub = pubs \/ reader.rgb[c].pub + 1 = pubs
           /\ ~Pending => reader.rgb[c].pub = pubs

UploadInv ==
  FrameHasRoom /\ PixelsAreRecent /\ ReadIsRecent /\ StableUploadSpansTwoPublications

(* What a step of a producer may do to a read that is under way.            *)
LEMMA ProducersKeepReads ==
  ASSUME TypeOK, TypeOK', UploadInv, reader' = reader,
         \/ frame' = frame + 1
         \/ frame' = frame /\ pubs' = pubs /\ (Pending => Pending')
         \/ frame' = frame /\ pubs' = pubs + 1 /\ ~Pending /\ Pending'
  PROVE  ReadIsRecent' /\ StableUploadSpansTwoPublications'
<1>1. StableUploadSpansTwoPublications'
  BY DEF UploadInv, StableUploadSpansTwoPublications
<1>2. /\ frame \in Nat /\ pubs \in Nat /\ reader.f0 \in Nat
      /\ \A c \in Cells : reader.rgb[c].pub \in Nat
  BY DEF TypeOK, TickType, ReaderType, PixelRecord
<1>3. SUFFICES ASSUME reader.pc \in {"read", "f1"}
      PROVE  /\ reader.f0 <= frame'
             /\ reader.f0 = frame' =>
                  \A c \in Cells : reader.pc = "f1" \/ c < reader.at =>
                    /\ reader.rgb[c].pub = pubs' \/ reader.rgb[c].pub + 1 = pubs'
                    /\ ~Pending' => reader.rgb[c].pub = pubs'
  BY <1>1 DEF ReadIsRecent
<1>4. /\ reader.f0 <= frame
      /\ reader.f0 = frame =>
           \A c \in Cells : reader.pc = "f1" \/ c < reader.at =>
             /\ reader.rgb[c].pub = pubs \/ reader.rgb[c].pub + 1 = pubs
             /\ ~Pending => reader.rgb[c].pub = pubs
  BY <1>3 DEF UploadInv, ReadIsRecent
<1>5. CASE frame' = frame + 1
  <2>1. reader.f0 <= frame' /\ reader.f0 # frame'
    BY <1>2, <1>4, <1>5
  <2> QED
    BY <2>1
<1>6. CASE frame' = frame /\ pubs' = pubs /\ (Pending => Pending')
  BY <1>4, <1>6
<1>7. CASE frame' = frame /\ pubs' = pubs + 1 /\ ~Pending /\ Pending'
  BY <1>4, <1>7
<1> QED
  BY <1>5, <1>6, <1>7

(* A counter below its bound is incremented.                                *)
LEMMA BumpsDoNotWrap ==
  ASSUME ~Endless, NEW n \in Nat, NEW m \in Nat
  PROVE  /\ Room(n, m) => n < m
         /\ n < m => Bump(n, m) = n + 1
BY DEF Room, Bump

(* The game thread's steps.                                                 *)
LEMMA GameKeepsUploads ==
  ASSUME ~Endless, TypeOK, TypeOK', FlipInv, UploadInv, GameStep
  PROVE  UploadInv'
<1>0. /\ tick.pc = "idle" /\ tick' = tick /\ reader' = reader /\ stage' = stage
      /\ ~Ticking /\ ~Copying /\ ~Ticking' /\ ~Copying'
  BY DEF GameStep, SwitchPath, DrawCell, FlipRaw, SnapshotCell, SnapshotDone,
         EmitClear, EmitRow, EmitDone, Preempted, Ticking, Copying
<1>1. /\ frame \in Nat /\ pubs \in Nat /\ MaxPub \in Nat /\ MaxFrame = 2 * MaxPub
      /\ MaxFrame \in Nat
  BY CellsAreBounded DEF TypeOK, TickType, MaxFrame
<1>2. \A c \in Cells : pixels[c].pub = pubs
  BY <1>0 DEF UploadInv, PixelsAreRecent
<1>3. CASE SwitchPath \/ DrawCell \/ FlipRaw \/ SnapshotCell \/ SnapshotDone
  <2>1. UNCHANGED <<frame, pubs, pixels>>
    BY <1>3 DEF SwitchPath, DrawCell, FlipRaw, SnapshotCell, SnapshotDone
  <2>2. ~Emitting /\ ~Emitting'
    <3>1. CASE SwitchPath \/ FlipRaw \/ SnapshotDone
      BY <3>1 DEF SwitchPath, FlipRaw, SnapshotDone, Emitting
    <3>2. CASE DrawCell
      BY <3>2 DEF DrawCell, Emitting
    <3>3. CASE SnapshotCell
      BY <3>3 DEF SnapshotCell, Emitting, TypeOK, GameType
    <3> QED
      BY <1>3, <3>1, <3>2, <3>3
  <2>3. ReadIsRecent' /\ StableUploadSpansTwoPublications'
    BY <1>0, <2>1, <2>2, ProducersKeepReads DEF Pending
  <2>4. FrameHasRoom'
    BY <1>0, <2>1, <2>2 DEF UploadInv, FrameHasRoom
  <2>5. PixelsAreRecent'
    BY <1>0, <1>2, <2>1, <2>2 DEF PixelsAreRecent, Copying
  <2> QED
    BY <2>3, <2>4, <2>5 DEF UploadInv
<1>4. CASE EmitClear
  <2>1. pubs' = pubs + 1 /\ pubs < MaxPub
    BY <1>1, <1>4, BumpsDoNotWrap DEF EmitClear
  <2>2. /\ frame' = frame /\ ~Emitting /\ Emitting'
        /\ \A c \in Cells : pixels'[c].pub = pubs'
    BY <1>4 DEF EmitClear, Emitting, Pixel
  <2>3. ReadIsRecent' /\ StableUploadSpansTwoPublications'
    BY <1>0, <2>1, <2>2, ProducersKeepReads DEF Pending
  <2>4. FrameHasRoom'
    BY <1>0, <1>1, <2>1, <2>2 DEF UploadInv, FrameHasRoom
  <2>5. PixelsAreRecent'
    BY <1>0, <2>2 DEF PixelsAreRecent, Copying
  <2> QED
    BY <2>3, <2>4, <2>5 DEF UploadInv
<1>5. CASE EmitRow
  <2>1. UNCHANGED <<frame, pubs>> /\ Emitting /\ Emitting'
    BY <1>5 DEF EmitRow, Emitting
  <2>2. \A c \in Cells : pixels'[c].pub = pubs
    BY <1>2, <1>5 DEF EmitRow, Pixel, TypeOK, GameType, TickType
  <2>3. ReadIsRecent' /\ StableUploadSpansTwoPublications'
    BY <1>0, <2>1, ProducersKeepReads DEF Pending
  <2>4. FrameHasRoom'
    BY <1>0, <2>1 DEF UploadInv, FrameHasRoom
  <2>5. PixelsAreRecent'
    BY <1>0, <2>1, <2>2 DEF PixelsAreRecent, Copying
  <2> QED
    BY <2>3, <2>4, <2>5 DEF UploadInv
<1>6. CASE EmitDone
  <2>1. UNCHANGED <<pubs, pixels>> /\ Emitting /\ ~Emitting'
    BY <1>6 DEF EmitDone, Emitting
  <2>2. frame + 1 <= MaxPub + pubs /\ pubs <= MaxPub
    BY <1>0, <1>1, <2>1 DEF UploadInv, FrameHasRoom
  <2>3. frame' = frame + 1
    BY <1>1, <1>6, <2>2, BumpsDoNotWrap DEF EmitDone
  <2>4. ReadIsRecent' /\ StableUploadSpansTwoPublications'
    BY <1>0, <2>3, ProducersKeepReads
  <2>5. FrameHasRoom'
    BY <1>0, <1>1, <2>1, <2>2, <2>3 DEF FrameHasRoom
  <2>6. PixelsAreRecent'
    BY <1>0, <1>2, <2>1 DEF PixelsAreRecent, Copying
  <2> QED
    BY <2>4, <2>5, <2>6 DEF UploadInv
<1> QED
  BY <1>3, <1>4, <1>5, <1>6 DEF GameStep

(* The tick's steps.                                                        *)
LEMMA TickKeepsUploads ==
  ASSUME ~Endless, TypeOK, TypeOK', FlipInv, UploadInv, TickStep
  PROVE  UploadInv'
<1>0. reader' = reader /\ (Emitting' <=> Emitting)
  BY DEF TickStep, TickStage, TickBlit, TickLivePage, TickLiveCell, TickSkip,
         TickCompose, TickBump, Emitting
<1>1. /\ frame \in Nat /\ pubs \in Nat /\ MaxPub \in Nat /\ MaxFrame = 2 * MaxPub
      /\ MaxFrame \in Nat /\ tick.at \in Nat
      /\ \A c \in Cells : c \in Nat /\ pixels[c].pub \in Nat
  BY CellsAreBounded DEF TypeOK, TickType, PixelRecord, MaxFrame
<1>2. CASE TickStage
  <2>1. pubs' = pubs + 1 /\ pubs < MaxPub
    BY <1>1, <1>2, BumpsDoNotWrap DEF TickStage
  <2>2. /\ frame' = frame /\ pixels' = pixels /\ path # "gdv"
        /\ ~Ticking /\ ~Copying /\ Ticking' /\ Copying' /\ tick'.at = 1
    BY <1>2 DEF TickStage, Ticking, Copying
  <2>3. ~Emitting /\ ~Emitting'
    BY <1>0, <2>2 DEF FlipInv, PathOfPhase, Emitting
  <2>4. ReadIsRecent' /\ StableUploadSpansTwoPublications'
    BY <1>0, <2>1, <2>2, <2>3, ProducersKeepReads DEF Pending
  <2>5. FrameHasRoom'
    BY <1>1, <2>1, <2>2, <2>3 DEF UploadInv, FrameHasRoom
  <2>6. \A c \in Cells : pixels'[c].pub = pubs' - 1
    BY <1>1, <2>1, <2>2 DEF UploadInv, PixelsAreRecent
  <2>7. PixelsAreRecent'
    BY <1>2, <2>2, <2>3, <2>6, StageEffect, CellsAreOrdered DEF PixelsAreRecent
  <2> QED
    BY <2>4, <2>5, <2>7 DEF UploadInv
<1>3. CASE TickLivePage
  <2>1. pubs' = pubs + 1 /\ pubs < MaxPub
    BY <1>1, <1>3, BumpsDoNotWrap DEF TickLivePage
  <2>2. /\ frame' = frame /\ pixels' = pixels /\ path # "gdv" /\ tick'.pc = "live"
        /\ ~Ticking /\ ~Copying /\ Ticking' /\ Copying' /\ tick'.at = 1
    BY <1>3 DEF TickLivePage, ShipsLivePage, Ticking, Copying
  <2>3. ~Emitting /\ ~Emitting'
    BY <1>0, <2>2 DEF FlipInv, PathOfPhase, Emitting
  <2>4. ReadIsRecent' /\ StableUploadSpansTwoPublications'
    BY <1>0, <2>1, <2>2, <2>3, ProducersKeepReads DEF Pending
  <2>5. FrameHasRoom'
    BY <1>1, <2>1, <2>2, <2>3 DEF UploadInv, FrameHasRoom
  <2>6. \A c \in Cells : pixels'[c].pub = pubs' - 1
    BY <1>1, <2>1, <2>2 DEF UploadInv, PixelsAreRecent
  <2>7. PixelsAreRecent'
    BY <2>2, <2>3, <2>6, CellsAreOrdered DEF PixelsAreRecent
  <2> QED
    BY <2>4, <2>5, <2>7 DEF UploadInv
<1>4. CASE TickBlit \/ TickLiveCell
  <2>1. /\ UNCHANGED <<frame, pubs, stage>> /\ Copying /\ Ticking
        /\ tick'.pc = "blit" => tick.pc = "blit"
        /\ tick.at < NCells => tick'.pc = tick.pc /\ tick'.at = tick.at + 1
        /\ ~(tick.at < NCells) => ~Copying' /\ tick'.pc # "idle"
    <3>1. CASE TickBlit
      BY <3>1 DEF TickBlit, Copying, Ticking, TypeOK, TickType
    <3>2. CASE TickLiveCell
      BY <3>2 DEF TickLiveCell, Copying, Ticking, TypeOK, TickType
    <3> QED
      BY <1>4, <3>1, <3>2
  <2>2. ~Emitting /\ ~Emitting' /\ Ticking'
    BY <1>0, <2>1 DEF UploadInv, PixelsAreRecent, Ticking
  <2>3. \A c \in Cells : pixels'[c].pub = IF c = tick.at THEN pubs ELSE pixels[c].pub
    <3>1. CASE TickBlit
      BY <3>1 DEF TickBlit, UploadInv, PixelsAreRecent, TypeOK, TickType
    <3>2. CASE TickLiveCell
      BY <3>2 DEF TickLiveCell, Pixel, TypeOK, TickType
    <3> QED
      BY <1>4, <3>1, <3>2
  <2>4. ReadIsRecent' /\ StableUploadSpansTwoPublications'
    BY <1>0, <2>1, <2>2, ProducersKeepReads DEF Pending
  <2>5. FrameHasRoom'
    BY <2>1, <2>2 DEF UploadInv, FrameHasRoom
  <2>6. PixelsAreRecent'
    <3>1. tick'.pc = "blit" => \A c \in Cells : stage'[c].pub = pubs'
      BY <2>1 DEF UploadInv, PixelsAreRecent
    <3>2. ASSUME NEW c \in Cells
          PROVE  /\ ~(Copying' /\ c >= tick'.at) => pixels'[c].pub = pubs'
                 /\ Copying' /\ c >= tick'.at => pixels'[c].pub = pubs' - 1
      <4>1. /\ ~(c >= tick.at) => pixels[c].pub = pubs
            /\ c >= tick.at => pixels[c].pub = pubs - 1
        BY <2>1 DEF UploadInv, PixelsAreRecent
      <4>2. pixels'[c].pub = IF c = tick.at THEN pubs ELSE pixels[c].pub
        BY <2>3
      <4>3. CASE tick.at < NCells
        <5>1. Copying' /\ tick'.at = tick.at + 1
          BY <2>1, <4>3 DEF Copying
        <5>2. /\ c >= tick'.at <=> c >= tick.at /\ c # tick.at
          BY <1>1, <5>1
        <5> QED
          BY <2>1, <4>1, <4>2, <5>1, <5>2
      <4>4. CASE ~(tick.at < NCells)
        <5>1. c >= tick.at => c = tick.at
          BY <1>1, <4>4, CellsAreOrdered DEF TypeOK, TickType, Cells
        <5> QED
          BY <2>1, <4>1, <4>2, <4>4, <5>1
      <4> QED
        BY <4>3, <4>4
    <3> QED
      BY <2>2, <3>1, <3>2 DEF PixelsAreRecent
  <2> QED
    BY <2>4, <2>5, <2>6 DEF UploadInv
<1>5. CASE TickSkip
  <2>1. /\ UNCHANGED <<frame, pubs, pixels, stage>> /\ tick'.pc = "compose"
        /\ ~Ticking /\ ~Copying /\ Ticking' /\ ~Copying' /\ frame < MaxPub
    BY <1>1, <1>5, BumpsDoNotWrap DEF TickSkip, Ticking, Copying
  <2>2. ReadIsRecent' /\ StableUploadSpansTwoPublications'
    BY <1>0, <2>1, ProducersKeepReads DEF Pending
  <2>3. FrameHasRoom'
    BY <1>0, <1>1, <2>1 DEF UploadInv, FrameHasRoom
  <2>4. PixelsAreRecent'
    BY <2>1 DEF UploadInv, PixelsAreRecent
  <2> QED
    BY <2>2, <2>3, <2>4 DEF UploadInv
<1>6. CASE TickCompose
  <2>1. /\ UNCHANGED <<frame, pubs, stage>> /\ tick'.pc = "bump"
        /\ Ticking /\ Ticking' /\ ~Copying /\ ~Copying'
        /\ \A c \in Cells : pixels'[c].pub = pixels[c].pub
    BY <1>6, ComposedIsAFrame DEF TickCompose, Ticking, Copying, TypeOK, TickType
  <2>2. ReadIsRecent' /\ StableUploadSpansTwoPublications'
    BY <1>0, <2>1, ProducersKeepReads DEF Pending
  <2>3. FrameHasRoom'
    BY <1>0, <2>1 DEF UploadInv, FrameHasRoom
  <2>4. PixelsAreRecent'
    BY <2>1 DEF UploadInv, PixelsAreRecent
  <2> QED
    BY <2>2, <2>3, <2>4 DEF UploadInv
<1>7. CASE TickBump
  <2>1. /\ UNCHANGED <<pubs, stage, pixels>> /\ tick'.pc = "idle"
        /\ Ticking /\ ~Ticking' /\ ~Copying /\ ~Copying'
    BY <1>7 DEF TickBump, Ticking, Copying
  <2>2. frame + 1 <= MaxPub + pubs /\ pubs <= MaxPub
    BY <1>1, <2>1 DEF UploadInv, FrameHasRoom
  <2>3. frame' = frame + 1
    BY <1>1, <1>7, <2>2, BumpsDoNotWrap DEF TickBump
  <2>4. ReadIsRecent' /\ StableUploadSpansTwoPublications'
    BY <1>0, <2>3, ProducersKeepReads
  <2>5. FrameHasRoom'
    BY <1>0, <1>1, <2>1, <2>3 DEF UploadInv, FrameHasRoom
  <2>6. PixelsAreRecent'
    BY <2>1 DEF UploadInv, PixelsAreRecent
  <2> QED
    BY <2>4, <2>5, <2>6 DEF UploadInv
<1> QED
  BY <1>2, <1>3, <1>4, <1>5, <1>6, <1>7 DEF TickStep

(* The reader's steps.                                                      *)
LEMMA ReaderKeepsUploads ==
  ASSUME TypeOK, UploadInv, ReaderStep
  PROVE  UploadInv'
<1>0. UNCHANGED <<game, tick, stage, pixels, frame, pubs>>
  BY DEF ReaderStep, ReadF0, ReadCell, ReadF1, Present
<1>1. FrameHasRoom' /\ PixelsAreRecent' /\ (Pending' <=> Pending)
  BY <1>0 DEF UploadInv, FrameHasRoom, PixelsAreRecent, Pending, Emitting,
              Copying, Ticking
<1>2. /\ frame \in Nat /\ pubs \in Nat /\ reader.at \in Nat
      /\ \A c \in Cells : /\ c \in Nat /\ reader.rgb[c].pub \in Nat
                          /\ pixels[c].pub \in Nat
  BY CellsAreBounded DEF TypeOK, TickType, ReaderType, PixelRecord
<1>3. CASE ReadF0
  <2>1. reader'.pc = "read" /\ reader'.f0 = frame /\ reader'.at = 1
    BY <1>3 DEF ReadF0, TypeOK, ReaderType
  <2>2. ReadIsRecent' /\ StableUploadSpansTwoPublications'
    BY <1>0, <1>2, <2>1, CellsAreOrdered
    DEF ReadIsRecent, StableUploadSpansTwoPublications
  <2> QED
    BY <1>1, <2>2 DEF UploadInv
<1>4. CASE ReadCell
  <2>1. reader'.pc \in {"read", "f1"} /\ reader'.f0 = reader.f0 /\ reader.pc = "read"
    BY <1>4, ReadCellEffect DEF ReadCell
  <2>2. ASSUME NEW c \in Cells, reader'.pc = "f1" \/ c < reader'.at
        PROVE  c < reader.at \/ c = reader.at
    <3>1. CASE reader.at < NCells
      <4>1. c < reader.at + 1
        BY <1>4, <2>2, <3>1, ReadCellEffect
      <4> QED
        BY <1>2, <4>1
    <3>2. CASE ~(reader.at < NCells)
      BY <3>2, CellsAreOrdered DEF TypeOK, ReaderType
    <3> QED
      BY <3>1, <3>2
  <2>3. pubs > 0 \/ ~Copying
    BY DEF UploadInv, FrameHasRoom
  <2>4. \A c \in Cells : /\ pixels[c].pub = pubs \/ pixels[c].pub + 1 = pubs
                         /\ ~Pending => pixels[c].pub = pubs
    BY <1>2, <2>3 DEF UploadInv, PixelsAreRecent, Pending, Copying, Ticking
  <2>5. \A c \in Cells :
          reader'.rgb[c] = IF c = reader.at THEN pixels[c] ELSE reader.rgb[c]
    BY <1>4, ReadCellEffect DEF TypeOK, ReaderType
  <2>6. /\ reader.f0 <= frame
        /\ reader.f0 = frame =>
             \A c \in Cells : c < reader.at =>
               /\ reader.rgb[c].pub = pubs \/ reader.rgb[c].pub + 1 = pubs
               /\ ~Pending => reader.rgb[c].pub = pubs
    BY <2>1 DEF UploadInv, ReadIsRecent
  <2>7. reader.f0 = frame =>
          \A c \in Cells : reader'.pc = "f1" \/ c < reader'.at =>
            /\ reader'.rgb[c].pub = pubs \/ reader'.rgb[c].pub + 1 = pubs
            /\ ~Pending => reader'.rgb[c].pub = pubs
    BY <2>2, <2>4, <2>5, <2>6
  <2>8. ReadIsRecent'
    BY <1>0, <1>1, <2>1, <2>6, <2>7 DEF ReadIsRecent
  <2> QED
    BY <1>1, <2>1, <2>8 DEF UploadInv, StableUploadSpansTwoPublications
<1>5. CASE ReadF1
  <2>1. reader.pc = "f1" /\ reader'.rgb = reader.rgb /\ reader'.pc \notin {"read", "f1"}
        /\ (reader'.pc = "stable" => frame = reader.f0)
    <3>1. CASE Retries
      BY <1>5, <3>1 DEF ReadF1, TypeOK, ReaderType
    <3>2. CASE ~Retries
      BY <1>5, <3>2 DEF ReadF1, TypeOK, ReaderType
    <3> QED
      BY <3>1, <3>2
  <2>2. frame = reader.f0 =>
          \A c, d \in Cells : reader.rgb[c].pub <= reader.rgb[d].pub + 1
    BY <1>2, <2>1 DEF UploadInv, ReadIsRecent
  <2> QED
    BY <1>1, <2>1, <2>2 DEF UploadInv, ReadIsRecent, StableUploadSpansTwoPublications
<1>6. CASE Present
  BY <1>1, <1>6 DEF Present, UploadInv, ReadIsRecent,
                    StableUploadSpansTwoPublications, TypeOK, ReaderType
<1> QED
  BY <1>3, <1>4, <1>5, <1>6 DEF ReaderStep

(* The frame guard of the present loop: an upload whose two reads of frame  *)
(* agree mixes at most two consecutive publications.  The behaviours are    *)
(* those in which frame does not wrap between the two reads; their length   *)
(* has no other bound.                                                      *)
THEOREM StableUploadsAreRecent ==
  ASSUME ~Endless
  PROVE  Spec => []StableUploadSpansTwoPublications
<1>1. Init => UploadInv
  <2> SUFFICES ASSUME Init PROVE UploadInv
    OBVIOUS
  <2>1. FrameHasRoom
    BY CellsAreBounded DEF Init, FrameHasRoom, Emitting, Copying, Ticking
  <2>2. PixelsAreRecent /\ ReadIsRecent /\ StableUploadSpansTwoPublications
    BY DEF Init, PixelsAreRecent, ReadIsRecent, Copying, Pixel,
           StableUploadSpansTwoPublications
  <2> QED
    BY <2>1, <2>2 DEF UploadInv
<1>2. UploadInv /\ UNCHANGED vars => UploadInv'
  BY DEF vars, UploadInv, FrameHasRoom, PixelsAreRecent, ReadIsRecent, Pending,
         Emitting, Copying, Ticking, StableUploadSpansTwoPublications
<1>3. TypeOK /\ TypeOK' /\ FlipInv /\ UploadInv /\ [Next]_vars => UploadInv'
  BY <1>2, GameKeepsUploads, TickKeepsUploads, ReaderKeepsUploads DEF Next
<1>4. UploadInv => StableUploadSpansTwoPublications
  BY DEF UploadInv
<1> QED
  BY <1>1, <1>3, <1>4, FramePublishTypes, FlipsHold, PTL DEF Spec
=============================================================================
