--------------------------- MODULE OverrideRegistry ---------------------------
(***************************************************************************)
(* The boot-time registry of function overrides                            *)
(* (platform/override_registry.c).                                         *)
(*                                                                         *)
(* Each plugin in turn registers callbacks for engine functions.  Then one *)
(* pass over the functions, in ascending order, builds the chain of each,  *)
(* checks that its entry still is a clean pad, and patches the entry with  *)
(* a jump to a thunk that walks the chain.  A chain that cannot be built   *)
(* is dropped or, under --strict-mods, ends the process; an entry that     *)
(* cannot be written takes every entry back.                               *)
(***************************************************************************)
EXTENDS Integers, Sequences, FiniteSets, FiniteSetsExt, SequencesExt

CONSTANTS
  Targets,    (* the ids of roth_ovr_targets, numbers                      *)
  Foreign,    (* ids plugins name that are not targets                     *)
  Plugins,    (* number of loaded plugins                                  *)
  Priorities,
  ChainMax,   (* CHAIN_MAX (64)                                            *)
  PendingMax  (* PENDING_MAX (1024)                                        *)

ASSUME OverrideAssumption ==
  /\ Targets \subseteq Nat /\ Foreign \cap Targets = {}
  /\ Plugins \in Nat \ {0} /\ Priorities \subseteq Int
  /\ ChainMax \in Nat \ {0} /\ PendingMax \in Nat

VARIABLES
  strict,    \* --strict-mods
  plugin,    \* g_cur_plugin
  pending,   \* g_pending: the registrations in the order they were made
  errors,    \* g_reg_errors # 0
  pc,        \* "register", "apply", "unwind", "done" or "exit"
  todo,      \* targets still to be visited by overrides_apply
  entry,     \* target -> "nop", "dirty" or "jmp"
  slot,      \* target -> the chain its thunk walks: places in pending
  patched,   \* g_patched, the first g_npatched of it
  made,      \* the local `patched`
  result,    \* what overrides_apply returned, or -1
  stuck      \* history: targets that the unwinding could not restore

registryVars == <<strict, plugin, pending, errors, pc, todo, entry, slot, patched,
                  made, result, stuck>>

RegistryInit ==
  /\ strict \in BOOLEAN
  /\ plugin = 1 /\ pending = <<>> /\ errors = FALSE
  /\ pc = "register" /\ todo = {}
  /\ entry \in [Targets -> {"nop", "dirty"}]
  /\ slot = [t \in Targets |-> <<>>]
  /\ patched = <<>> /\ made = 0 /\ result = -1 /\ stuck = {}

-----------------------------------------------------------------------------
(* registry_record, called by the plugins in load order.                    *)

NextPlugin ==
  /\ pc = "register" /\ plugin < Plugins
  /\ plugin' = plugin + 1
  /\ UNCHANGED <<strict, pending, errors, pc, todo, entry, slot, patched,
                 made, result, stuck>>

Record ==
  /\ pc = "register" /\ Len(pending) < PendingMax
  /\ \E id \in Targets, p \in Priorities :
       pending' = Append(pending, [id |-> id, prio |-> p, plugin |-> plugin])
  /\ UNCHANGED <<strict, plugin, errors, pc, todo, entry, slot, patched, made,
                 result, stuck>>

\* A null callback, an id that is no target, or a full table.
Reject ==
  /\ pc = "register"
  /\ Foreign # {} \/ Len(pending) = PendingMax
  /\ errors' = TRUE
  /\ UNCHANGED <<strict, plugin, pending, pc, todo, entry, slot, patched,
                 made, result, stuck>>

-----------------------------------------------------------------------------
(* overrides_apply.                                                         *)

Links(t) == {i \in DOMAIN pending : pending[i].id = t}

ApplyBegin ==
  /\ pc = "register" /\ plugin = Plugins
  /\ todo' = {pending[i].id : i \in DOMAIN pending}
  /\ pc' = IF strict /\ errors THEN "exit"
           ELSE IF pending = <<>> THEN "done" ELSE "apply"
  /\ result' = IF pc' = "done" THEN 0 ELSE -1
  /\ UNCHANGED <<strict, plugin, pending, errors, entry, slot, patched, made,
                 stuck>>

\* Mutant: the callback that runs first is the one of lowest priority.
BeforeReversed(i, j) == pending[i].prio < pending[j].prio

\* cmp_pending within one id: a higher priority is further out, then load order.
\* qsort may put two registrations of one plugin and priority in either order.
Before(i, j) ==
  \/ pending[i].prio > pending[j].prio
  \/ pending[i].prio = pending[j].prio /\ pending[i].plugin < pending[j].plugin

Sorted(S) == {s \in SetToSeqs(S) :
                \A i, j \in DOMAIN s : i < j => ~Before(s[j], s[i])}

Truncated(s) == IF Len(s) > ChainMax THEN SubSeq(s, 1, ChainMax) ELSE s

Target == Min(todo)
Duplicates(t) == \E i, j \in Links(t) : i # j /\ pending[i].prio = pending[j].prio

\* Mutant: --strict-mods skips a bad chain like the default mode does.
DropLenient ==
  /\ pc = "apply" /\ todo # {}
  /\ todo' = todo \ {Target}
  /\ UNCHANGED <<strict, plugin, pending, errors, pc, entry, slot, patched,
                 made, result, stuck>>

\* The chain is refused: two equal priorities under --strict-mods, a pad that is
\* not clean, or no memory for the chain.
Drop ==
  /\ pc = "apply" /\ todo # {}
  /\ todo' = todo \ {Target}
  /\ pc' = IF strict THEN "unwind" ELSE "apply"
  /\ UNCHANGED <<strict, plugin, pending, errors, entry, slot, patched, made,
                 result, stuck>>

Acceptable(t) == ~(strict /\ Duplicates(t)) /\ entry[t] = "nop"

\* Mutant: the slot is left for later.
FillsNothing(t) == UNCHANGED slot

\* Fill the slot of the target's thunk with its sorted chain.
Fills(t) == \E s \in Sorted(Links(t)) : slot' = [slot EXCEPT ![t] = Truncated(s)]

\* patch_entry writes the jump.
Patch ==
  /\ pc = "apply" /\ todo # {} /\ Acceptable(Target)
  /\ Fills(Target)
  /\ entry' = [entry EXCEPT ![Target] = "jmp"]
  /\ patched' = Append(patched, Target)
  /\ made' = made + 1
  /\ todo' = todo \ {Target}
  /\ UNCHANGED <<strict, plugin, pending, errors, pc, result, stuck>>

\* patch_entry cannot make the page writable.
PatchFails ==
  /\ pc = "apply" /\ todo # {} /\ Acceptable(Target)
  /\ Fills(Target)
  /\ pc' = "unwind"
  /\ UNCHANGED <<strict, plugin, pending, errors, todo, entry, patched, made,
                 result, stuck>>

ApplyDone ==
  /\ pc = "apply" /\ todo = {}
  /\ pc' = "done" /\ result' = made
  /\ UNCHANGED <<strict, plugin, pending, errors, todo, entry, slot, patched,
                 made, stuck>>

-----------------------------------------------------------------------------
(* unwind_all: one iteration per step.                                      *)

\* Mutant: the loop stops at the first entry that it cannot restore.
UnwindStops ==
  /\ pc = "unwind" /\ patched # <<>>
  /\ \/ /\ entry' = [entry EXCEPT ![Head(patched)] = "nop"]
        /\ patched' = Tail(patched) /\ UNCHANGED stuck
     \/ /\ stuck' = stuck \cup {Head(patched)}
        /\ patched' = <<>> /\ UNCHANGED entry
  /\ UNCHANGED <<strict, plugin, pending, errors, pc, todo, slot, made,
                 result>>

\* unpatch_entry says nothing when it cannot make the page writable.
UnwindOne ==
  /\ pc = "unwind" /\ patched # <<>>
  /\ \/ entry' = [entry EXCEPT ![Head(patched)] = "nop"] /\ UNCHANGED stuck
     \/ stuck' = stuck \cup {Head(patched)} /\ UNCHANGED entry
  /\ patched' = Tail(patched)
  /\ UNCHANGED <<strict, plugin, pending, errors, pc, todo, slot, made,
                 result>>

\* exit(2), or return what was patched before the unwinding.
UnwindDone ==
  /\ pc = "unwind" /\ patched = <<>>
  /\ pc' = IF strict THEN "exit" ELSE "done"
  /\ result' = IF strict THEN -1 ELSE made
  /\ UNCHANGED <<strict, plugin, pending, errors, todo, entry, slot, patched,
                 made, stuck>>

RegistryNext ==
  \/ NextPlugin \/ Record \/ Reject
  \/ ApplyBegin \/ Drop \/ Patch \/ PatchFails \/ ApplyDone
  \/ UnwindOne \/ UnwindDone

RegistrySpec == RegistryInit /\ [][RegistryNext]_registryVars

-----------------------------------------------------------------------------
Jumps == {t \in Targets : entry[t] = "jmp"}

(* The engine never jumps to a thunk without a chain: whatever was dropped, *)
(* failed or could not be taken back, an entry that jumps has a chain, made *)
(* of registrations for that very function.                                 *)
JumpsHaveChains ==
  \A t \in Jumps : /\ slot[t] # <<>>
                   /\ \A k \in DOMAIN slot[t] : slot[t][k] \in Links(t)

(* A chain is the outermost CHAIN_MAX registrations of its function, higher *)
(* priority first and load order within a priority, each of them once.      *)
ChainsKeepTheOutermost ==
  \A t \in Jumps :
    LET s == slot[t]
        In == {s[k] : k \in DOMAIN s}
        Key(i) == pending[i].prio * (Plugins + 1) + Plugins - pending[i].plugin
    IN  /\ Cardinality(In) = Len(s)
        /\ Len(s) = Min({ChainMax, Cardinality(Links(t))})
        /\ \A k \in 2 .. Len(s) : Key(s[k - 1]) >= Key(s[k])
        /\ \A i \in In, j \in Links(t) \ In : Key(i) >= Key(j)

(* An entry that cannot be written takes every entry back: afterwards no    *)
(* entry jumps that is not accounted for, except those whose page could not *)
(* be made writable again.                                                  *)
WriteFailureTakesAllBack ==
  pc \in {"done", "exit"} =>
    Jumps \ stuck = {patched[k] : k \in DOMAIN patched} \ stuck

(* --strict-mods is fail closed: if the program goes on, every function     *)
(* that a plugin registered for is patched, and no registration was refused.*)
StrictIsAllOrExit ==
  strict /\ pc = "done" =>
    ~errors /\ \A i \in DOMAIN pending : pending[i].id \in Jumps
=============================================================================
