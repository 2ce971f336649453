---------------------------- MODULE AgentCombiner ----------------------------
(***************************************************************************)
(* melon::var::detail::AgentCombiner (src/melon/var/detail/combiner.h)     *)
(* with op = +: every writer thread adds into its own thread-local Agent,  *)
(* readers combine or reset all agents under the combiner's _lock, and a   *)
(* thread that exits folds its agent into _global_result.  The element is  *)
(* the atomic ElementContainer (as for Adder) or the generic one, whose    *)
(* operations take the element's own _lock and which offers merge_global.  *)
(*                                                                         *)
(* Writers add 1 at a time.  The atomic modify() is a load and a           *)
(* compare_exchange_weak loop, two steps here; the locked one is one step. *)
(* merge_global follows the pattern its comment gives: the owner folds its *)
(* element into _global_result through GlobalValue::lock/unlock, which     *)
(* trade the element's lock for the combiner's.  The reader's loops over   *)
(* _agents hold _lock and                                                  *)
(* visit one agent per step, so writers' CASes interleave with them.  The  *)
(* combiner can be destroyed (~AgentCombiner, clear_all_agents) while      *)
(* no thread is writing to it, as its users must ensure.                   *)
(***************************************************************************)
EXTENDS Naturals, FiniteSets, FiniteSetsExt

CONSTANTS
    Threads,   \* writer threads
    MaxAdds,   \* bound on the number of additions
    MaxGens    \* bound on the number of combiners created in turn

VARIABLES
    atomicElem, \* ElementTp is atomical: the atomic ElementContainer
    elock,     \* elock[t]: t holds its element's _lock across steps
    val,       \* val[t]: agent->element._value of t's agent
    comb,      \* comb[t]: agent->combiner points to this combiner
    inList,    \* inList[t]: the agent is linked in _agents
    wpc,       \* wpc[t]: "idle", "cas" (inside modify), "mtest", "mwait",
               \* "mpost" (inside merge_global), "exit", "dead"
    old,       \* old[t]: modify's expected value
    global,    \* _global_result
    lockedBy,  \* holder of _lock across steps: "none" or "reader"
    rpc,       \* the reader: "idle", "combine" or "reset"
    rtodo,     \* agents the reader's loop has still to visit
    racc,      \* ret / tmp accumulated by the reader's loop
    rlo,       \* the variable's value when the reader's loop began
    alive,     \* the combiner has not been destroyed
    cgen,      \* how many combiners were destroyed before this one
    egen,      \* egen[t]: the combiner t's ~Agent read, as its cgen
    uaf,       \* some thread called into the destroyed combiner
    added,     \* additions completed so far
    harvested  \* sum of the values reset_all_agents() returned

vars == <<atomicElem, elock, val, comb, inList, wpc, old, global, lockedBy, rpc, rtodo, racc,
          rlo, alive, cgen, egen, uaf, added, harvested>>

Vals == 0..MaxAdds

TypeOK ==
    /\ val \in [Threads -> Vals]
    /\ comb \in [Threads -> BOOLEAN]
    /\ inList \in [Threads -> BOOLEAN]
    /\ atomicElem \in BOOLEAN /\ elock \in [Threads -> BOOLEAN]
    /\ wpc \in [Threads -> {"idle", "cas", "mtest", "mwait", "mpost", "exit", "dead"}]
    /\ old \in [Threads -> Vals]
    /\ global \in Vals
    /\ lockedBy \in {"none", "reader"}
    /\ rpc \in {"idle", "combine", "reset"}
    /\ rtodo \subseteq Threads
    /\ racc \in Vals /\ rlo \in Vals
    /\ alive \in BOOLEAN /\ uaf \in BOOLEAN
    /\ cgen \in 0..MaxGens - 1 /\ egen \in [Threads -> 0..MaxGens - 1]
    /\ added \in Vals /\ harvested \in Vals

(* A new combiner and threads whose agents are not attached to it.         *)
Init ==
    /\ atomicElem \in BOOLEAN
    /\ elock = [t \in Threads |-> FALSE]
    /\ val = [t \in Threads |-> 0]
    /\ comb = [t \in Threads |-> FALSE]
    /\ inList = [t \in Threads |-> FALSE]
    /\ wpc = [t \in Threads |-> "idle"]
    /\ old = [t \in Threads |-> 0]
    /\ global = 0
    /\ lockedBy = "none"
    /\ rpc = "idle"
    /\ rtodo = {}
    /\ racc = 0 /\ rlo = 0
    /\ alive = TRUE /\ uaf = FALSE
    /\ cgen = 0 /\ egen = [t \in Threads |-> 0]
    /\ added = 0 /\ harvested = 0

LockFree == lockedBy = "none"

(* What the variable should read: everything added and not yet reset.      *)
TrueSum == added - harvested

Unchanged_reader == UNCHANGED <<lockedBy, rpc, rtodo, racc, rlo>>
Unchanged_elem == UNCHANGED <<atomicElem, elock>>

(***************************************************************************)
(* get_or_create_tls_agent() followed by the first load of modify(): an   *)
(* agent not attached to this combiner is reset to the identity and        *)
(* appended to _agents under _lock.                                        *)
(***************************************************************************)
begin_modify(t) ==
    /\ alive /\ wpc[t] = "idle"
    /\ added + Cardinality({u \in Threads : wpc[u] = "cas"}) < MaxAdds
    /\ \/ /\ comb[t]
          /\ old' = [old EXCEPT ![t] = val[t]]
          /\ UNCHANGED <<val, comb, inList>>
       \/ /\ ~comb[t] /\ LockFree
          /\ val' = [val EXCEPT ![t] = 0]
          /\ comb' = [comb EXCEPT ![t] = TRUE]
          /\ inList' = [inList EXCEPT ![t] = TRUE]
          /\ old' = [old EXCEPT ![t] = 0]
    /\ wpc' = [wpc EXCEPT ![t] = "cas"]
    /\ UNCHANGED <<global, alive, cgen, egen, uaf, added, harvested>> /\ Unchanged_reader /\ Unchanged_elem

(* Mutant of cas: a plain store of old + 1, as if there were no reset.     *)
cas_blind_store(t) ==
    /\ wpc[t] = "cas"
    /\ val' = [val EXCEPT ![t] = old[t] + 1]
    /\ added' = added + 1
    /\ wpc' = [wpc EXCEPT ![t] = "idle"]
    /\ UNCHANGED <<comb, inList, old, global, alive, cgen, egen, uaf, harvested>>
    /\ Unchanged_reader /\ Unchanged_elem

(***************************************************************************)
(* compare_exchange_weak(old, old + 1): succeeds only if the value is      *)
(* still old; otherwise (or spuriously) old is reloaded and the op redone. *)
(***************************************************************************)
cas(t) ==
    /\ wpc[t] = "cas" /\ atomicElem
    /\ \/ /\ val[t] = old[t]
          /\ val' = [val EXCEPT ![t] = old[t] + 1]
          /\ added' = added + 1
          /\ wpc' = [wpc EXCEPT ![t] = "idle"]
          /\ UNCHANGED old
       \/ /\ old' = [old EXCEPT ![t] = val[t]]
          /\ UNCHANGED <<val, added, wpc>>
    /\ UNCHANGED <<comb, inList, global, alive, cgen, egen, uaf, harvested>>
    /\ Unchanged_reader /\ Unchanged_elem

(* The generic ElementContainer::modify: op under the element's _lock.     *)
modify_locked(t) ==
    /\ wpc[t] = "cas" /\ ~atomicElem
    /\ val' = [val EXCEPT ![t] = val[t] + 1]
    /\ added' = added + 1
    /\ wpc' = [wpc EXCEPT ![t] = "idle"]
    /\ UNCHANGED <<comb, inList, old, global, alive, cgen, egen, uaf, harvested>>
    /\ Unchanged_reader /\ Unchanged_elem

(***************************************************************************)
(* Agent::merge_global(op) on the generic container: element.merge_global  *)
(* locks the element and calls op(global_value, _value).  op is the        *)
(* pattern of combiner.h's comment: test_for_merging, then lock() (unlock  *)
(* the element, lock the combiner), merge the element into the result and  *)
(* clear it, unlock() (unlock the combiner, lock the element), return.     *)
(***************************************************************************)
merge_begin(t) ==
    /\ alive /\ wpc[t] = "idle" /\ comb[t] /\ ~atomicElem
    /\ elock' = [elock EXCEPT ![t] = TRUE]
    /\ wpc' = [wpc EXCEPT ![t] = "mtest"]
    /\ UNCHANGED <<atomicElem, val, comb, inList, old, global, alive, cgen, egen, uaf,
                   added, harvested>> /\ Unchanged_reader

(* test_for_merging: no, or GlobalValue::lock's _a->element._lock.unlock(). *)
merge_test(t) ==
    /\ wpc[t] = "mtest"
    /\ \/ wpc' = [wpc EXCEPT ![t] = "mpost"] /\ UNCHANGED elock
       \/ /\ elock' = [elock EXCEPT ![t] = FALSE]
          /\ wpc' = [wpc EXCEPT ![t] = "mwait"]
    /\ UNCHANGED <<atomicElem, val, comb, inList, old, global, alive, cgen, egen, uaf,
                   added, harvested>> /\ Unchanged_reader

(***************************************************************************)
(* _c->_lock.lock(), merge of local_value into the result, then unlock(): *)
(* _c->_lock.unlock() and _a->element._lock.lock().  No other thread holds *)
(* the element's lock across steps, so the relock does not wait.           *)
(***************************************************************************)
merge_lock(t) ==
    /\ wpc[t] = "mwait" /\ LockFree
    /\ global' = global + val[t]
    /\ val' = [val EXCEPT ![t] = 0]
    /\ elock' = [elock EXCEPT ![t] = TRUE]
    /\ wpc' = [wpc EXCEPT ![t] = "mpost"]
    /\ UNCHANGED <<atomicElem, comb, inList, old, alive, cgen, egen, uaf, added, harvested>>
    /\ Unchanged_reader

(* op returns; merge_global's guard unlocks the element.                   *)
merge_end(t) ==
    /\ wpc[t] = "mpost"
    /\ elock' = [elock EXCEPT ![t] = FALSE]
    /\ wpc' = [wpc EXCEPT ![t] = "idle"]
    /\ UNCHANGED <<atomicElem, val, comb, inList, old, global, alive, cgen, egen, uaf,
                   added, harvested>> /\ Unchanged_reader

(* Mutant of commit_and_clear: _lock is not taken.                         *)
commit_and_clear_unlocked(t) ==
    /\ alive /\ wpc[t] = "idle" /\ comb[t]
    /\ global' = global + val[t]
    /\ val' = [val EXCEPT ![t] = 0]
    /\ UNCHANGED <<comb, inList, wpc, old, alive, cgen, egen, uaf, added, harvested>>
    /\ Unchanged_reader /\ Unchanged_elem

(* commit_and_clear(agent), from the owning thread, under _lock.           *)
commit_and_clear(t) ==
    /\ alive /\ wpc[t] = "idle" /\ comb[t] /\ LockFree
    /\ global' = global + val[t]
    /\ val' = [val EXCEPT ![t] = 0]
    /\ UNCHANGED <<comb, inList, wpc, old, alive, cgen, egen, uaf, added, harvested>>
    /\ Unchanged_reader /\ Unchanged_elem

(* Thread exit, ~Agent(): reads agent->combiner without any lock.          *)
exit_begin(t) ==
    /\ wpc[t] = "idle"
    /\ wpc' = [wpc EXCEPT ![t] = IF comb[t] THEN "exit" ELSE "dead"]
    /\ egen' = [egen EXCEPT ![t] = cgen]
    /\ UNCHANGED <<val, comb, inList, old, global, alive, cgen, uaf, added, harvested>>
    /\ Unchanged_reader /\ Unchanged_elem

(***************************************************************************)
(* combiner->commit_and_erase(this), then combiner = NULL: under _lock,    *)
(* fold the agent's value into _global_result and unlink it.  Called on a  *)
(* combiner that has been destroyed, even if a new one now has its agent   *)
(* id, it is a use after free.                                             *)
(***************************************************************************)
Freed(t) == ~alive \/ egen[t] # cgen

commit_and_erase(t) ==
    /\ wpc[t] = "exit" /\ LockFree
    /\ uaf' = (uaf \/ Freed(t))
    /\ global' = IF Freed(t) THEN global ELSE global + val[t]
    /\ inList' = [inList EXCEPT ![t] = FALSE]
    /\ comb' = [comb EXCEPT ![t] = FALSE]
    /\ wpc' = [wpc EXCEPT ![t] = "dead"]
    /\ UNCHANGED <<val, old, alive, cgen, egen, added, harvested>> /\ Unchanged_reader /\ Unchanged_elem

(* A new thread starts in the exited one's place, with a fresh agent.      *)
restart(t) ==
    /\ wpc[t] = "dead"
    /\ wpc' = [wpc EXCEPT ![t] = "idle"]
    /\ val' = [val EXCEPT ![t] = 0]
    /\ UNCHANGED <<comb, inList, old, global, alive, cgen, egen, uaf, added, harvested>>
    /\ Unchanged_reader /\ Unchanged_elem

(* combine_agents() / reset_all_agents(): take _lock and start the loop.   *)
combine_begin ==
    /\ alive /\ rpc = "idle" /\ LockFree
    /\ lockedBy' = "reader" /\ rpc' = "combine"
    /\ racc' = global
    /\ rtodo' = {t \in Threads : inList[t]}
    /\ rlo' = TrueSum
    /\ UNCHANGED <<val, comb, inList, wpc, old, global, alive, cgen, egen, uaf, added, harvested>>
    /\ Unchanged_elem

reset_begin ==
    /\ alive /\ rpc = "idle" /\ LockFree
    /\ lockedBy' = "reader" /\ rpc' = "reset"
    /\ racc' = global
    /\ global' = 0
    /\ rtodo' = {t \in Threads : inList[t]}
    /\ rlo' = TrueSum
    /\ UNCHANGED <<val, comb, inList, wpc, old, alive, cgen, egen, uaf, added, harvested>>
    /\ Unchanged_elem

(***************************************************************************)
(* One agent of the loop: element.load, or element.exchange(identity); on  *)
(* the generic container both wait for the element's _lock.               *)
(***************************************************************************)
reader_step ==
    /\ rpc \in {"combine", "reset"}
    /\ \E t \in rtodo :
         /\ ~elock[t]
         /\ racc' = racc + val[t]
         /\ rtodo' = rtodo \ {t}
         /\ val' = IF rpc = "reset" THEN [val EXCEPT ![t] = 0] ELSE val
    /\ UNCHANGED <<comb, inList, wpc, old, global, lockedBy, rpc, rlo, alive, cgen, egen,
                   uaf, added, harvested>>
    /\ Unchanged_elem

(* End of the loop: release _lock and return ret / tmp.                    *)
reader_end ==
    /\ rpc \in {"combine", "reset"} /\ rtodo = {}
    /\ lockedBy' = "none" /\ rpc' = "idle"
    /\ harvested' = IF rpc = "reset" THEN harvested + racc ELSE harvested
    /\ UNCHANGED <<val, comb, inList, wpc, old, global, rtodo, racc, rlo,
                   alive, cgen, egen, uaf, added>>
    /\ Unchanged_elem

(* Mutant of clear_all_agents: the agents are unlinked but not reset, so  *)
(* agent->combiner still points at the freed combiner.                     *)
clear_all_agents_no_reset ==
    /\ inList' = [t \in Threads |-> FALSE]
    /\ UNCHANGED <<val, comb>>

(* clear_all_agents(): under _lock, reset every listed agent to            *)
(* (ElementTp(), NULL) and unlink it.                                      *)
clear_all_agents ==
    /\ val' = [t \in Threads |-> IF inList[t] THEN 0 ELSE val[t]]
    /\ comb' = [t \in Threads |-> IF inList[t] THEN FALSE ELSE comb[t]]
    /\ inList' = [t \in Threads |-> FALSE]

(***************************************************************************)
(* ~AgentCombiner(): clear_all_agents() resets every listed agent to       *)
(* (ElementTp(), NULL) and unlinks it under _lock; then destroy_agent().   *)
(* Its user destroys it when no thread writes to or reads it.             *)
(***************************************************************************)
destroy ==
    /\ alive /\ LockFree /\ rpc = "idle"
    /\ \A t \in Threads : wpc[t] \notin {"cas", "mtest", "mwait", "mpost"}
    /\ alive' = FALSE
    /\ clear_all_agents
    /\ UNCHANGED <<wpc, old, global, cgen, egen, uaf, added, harvested>>
    /\ Unchanged_reader /\ Unchanged_elem

(***************************************************************************)
(* A new AgentCombiner once the last one is gone: create_new_agent() pops  *)
(* the id destroy_agent() pushed on the free list (the only free id), so   *)
(* the new combiner's agents are the threads' same thread-local agents,    *)
(* constructed once per ThreadBlock and never reset by AgentGroup.  Its    *)
(* _global_result starts at the identity.                                  *)
(***************************************************************************)
construct ==
    /\ ~alive /\ cgen < MaxGens - 1
    /\ alive' = TRUE
    /\ cgen' = cgen + 1
    /\ global' = 0 /\ added' = 0 /\ harvested' = 0
    /\ UNCHANGED <<val, comb, inList, wpc, old, egen, uaf>>
    /\ Unchanged_reader /\ Unchanged_elem

Next ==
    \/ \E t \in Threads :
         \/ begin_modify(t) \/ cas(t) \/ modify_locked(t) \/ commit_and_clear(t)
         \/ merge_begin(t) \/ merge_test(t) \/ merge_lock(t) \/ merge_end(t)
         \/ exit_begin(t) \/ commit_and_erase(t) \/ restart(t)
    \/ combine_begin \/ reset_begin \/ reader_step \/ reader_end
    \/ destroy \/ construct

Spec == Init /\ [][Next]_vars

-----------------------------------------------------------------------------
(***************************************************************************)
(* No addition is lost or counted twice: while the combiner lives, what    *)
(* was added and not returned by reset_all_agents() is in _global_result,  *)
(* in the listed agents, or in a reset loop's tmp.  It is about modify()'s *)
(* CAS racing reset's exchange, and thread exit racing both loops.         *)
(***************************************************************************)
Conservation ==
    alive =>
        TrueSum = global
                  + MapThenSumSet(LAMBDA t : IF inList[t] THEN val[t] ELSE 0, Threads)
                  + (IF rpc = "reset" THEN racc ELSE 0)

(***************************************************************************)
(* combine_agents() returns a value the variable had during the call: at   *)
(* least its value when _lock was taken and at most its value at return    *)
(* (additions only grow it, and resets and exits are excluded by _lock).   *)
(***************************************************************************)
CombineInRange ==
    [][rpc = "combine" /\ rpc' = "idle" => rlo <= racc /\ racc <= TrueSum']_vars

(***************************************************************************)
(* No thread calls into a destroyed combiner: a thread exiting after it    *)
(* read agent->combiner does not use it once ~AgentCombiner has run.       *)
(***************************************************************************)
NoUseAfterFree == ~uaf
=============================================================================
