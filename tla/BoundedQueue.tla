---------------------------- MODULE BoundedQueue ----------------------------
(***************************************************************************)
(* melon::container::bounded_queue<T> (src/unnamed/part_011): a ring      *)
(* buffer of _cap slots, _start the top slot, _count items.  The fields   *)
(* are uint32_t; W is their width (32 in the code), so every sum of two   *)
(* fields wraps modulo 2^W before _mod() sees it.  A slot that holds no   *)
(* constructed T is None.  The queue is not thread-safe: each method is   *)
(* one step.                                                              *)
(***************************************************************************)
EXTENDS Naturals, Sequences

CONSTANTS
    Cap,     \* _cap, the capacity given at construction
    Values,  \* items, T() included
    None,    \* a slot with no live object
    W        \* bit width of _count, _cap and _start

ASSUME /\ W \in Nat \ {0}
       /\ Cap \in 1..(2^W - 1)    \* 1..max_capacity()
       /\ None \notin Values

VARIABLES items, count, start, ret

vars == <<items, count, start, ret>>

Slot == 0..(Cap - 1)

(* uint32_t arithmetic.                                                    *)
U(x) == x % (2^W)

(* _mod(off, cap): subtract cap while off >= cap.                          *)
RECURSIVE _mod(_, _)
_mod(off, cap) == IF off >= cap THEN _mod(off - cap, cap) ELSE off

TypeOK ==
    /\ items \in [Slot -> Values \cup {None}]
    /\ count \in 0..Cap
    /\ start \in Slot
    /\ ret \in BOOLEAN \cup Values

(* bounded_queue(capacity): nothing constructed, _count = _start = 0.      *)
Init ==
    /\ items = [i \in Slot |-> None]
    /\ count = 0
    /\ start = 0
    /\ ret = TRUE

(* push(item) and push(), the latter with v = T(): construct at the       *)
(* bottom slot _mod(_start + _count).                                      *)
push(v) ==
    \/ /\ count < Cap
       /\ items' = [items EXCEPT ![_mod(U(start + count), Cap)] = v]
       /\ count' = count + 1
       /\ ret' = TRUE
       /\ UNCHANGED start
    \/ /\ count = Cap
       /\ ret' = FALSE
       /\ UNCHANGED <<items, count, start>>

(* Mutant of elim_push: when full, _start is not advanced.                 *)
elim_push_keeps_start(v) ==
    /\ \/ /\ count < Cap
          /\ items' = [items EXCEPT ![_mod(U(start + count), Cap)] = v]
          /\ count' = count + 1
          /\ UNCHANGED start
       \/ /\ count = Cap
          /\ items' = [items EXCEPT ![start] = v]
          /\ UNCHANGED <<count, start>>
    /\ ret' = TRUE

(* elim_push(item): when full, overwrite the top slot, which is also the   *)
(* next bottom slot, and advance _start.                                   *)
elim_push(v) ==
    /\ \/ /\ count < Cap
          /\ items' = [items EXCEPT ![_mod(U(start + count), Cap)] = v]
          /\ count' = count + 1
          /\ UNCHANGED start
       \/ /\ count = Cap
          /\ items' = [items EXCEPT ![start] = v]
          /\ start' = _mod(U(start + 1), Cap)
          /\ UNCHANGED count
    /\ ret' = TRUE

(* Mutant of push_top: _start - 1 without the wrap to _cap - 1.            *)
push_top_no_wrap(v) ==
    \/ /\ count < Cap
       /\ start' = U(start - 1)
       /\ count' = count + 1
       /\ items' = [items EXCEPT ![U(start - 1)] = v]
       /\ ret' = TRUE
    \/ /\ count = Cap
       /\ ret' = FALSE
       /\ UNCHANGED <<items, count, start>>

(* push_top(item) and push_top(): step _start back, wrapping to _cap - 1.  *)
push_top(v) ==
    \/ /\ count < Cap
       /\ start' = IF start # 0 THEN start - 1 ELSE Cap - 1
       /\ count' = count + 1
       /\ items' = [items EXCEPT ![start'] = v]
       /\ ret' = TRUE
    \/ /\ count = Cap
       /\ ret' = FALSE
       /\ UNCHANGED <<items, count, start>>

(* pop() and pop(T *item): destroy the top; pop(item) copies it out.      *)
pop ==
    \/ /\ count > 0
       /\ count' = count - 1
       /\ ret' \in {TRUE, items[start]}
       /\ items' = [items EXCEPT ![start] = None]
       /\ start' = _mod(U(start + 1), Cap)
    \/ /\ count = 0
       /\ ret' = FALSE
       /\ UNCHANGED <<items, count, start>>

(* Mutant of pop_bottom: the slot is computed before --_count.             *)
pop_bottom_late_decrement ==
    \/ /\ count > 0
       /\ count' = count - 1
       /\ ret' \in {TRUE, items[_mod(U(start + count), Cap)]}
       /\ items' = [items EXCEPT ![_mod(U(start + count), Cap)] = None]
       /\ UNCHANGED start
    \/ /\ count = 0
       /\ ret' = FALSE
       /\ UNCHANGED <<items, count, start>>

(* pop_bottom() and pop_bottom(T *item): --_count, then destroy the slot  *)
(* _mod(_start + _count).                                                  *)
pop_bottom ==
    \/ /\ count > 0
       /\ count' = count - 1
       /\ ret' \in {TRUE, items[_mod(U(start + count'), Cap)]}
       /\ items' = [items EXCEPT ![_mod(U(start + count'), Cap)] = None]
       /\ UNCHANGED start
    \/ /\ count = 0
       /\ ret' = FALSE
       /\ UNCHANGED <<items, count, start>>

(* clear(): destroy the _count live slots from _start, then reset.         *)
clear ==
    /\ items' = [i \in Slot |->
                   IF \E k \in 0..(count - 1) : i = _mod(U(start + k), Cap)
                   THEN None ELSE items[i]]
    /\ count' = 0
    /\ start' = 0
    /\ ret' = TRUE

(***************************************************************************)
(* The accessors, read-only: the item they point at, None for nullptr.     *)
(* top() and bottom() test _count; top(index) and bottom(index) test       *)
(* index < _count and count from the top or from the bottom.               *)
(***************************************************************************)
top == IF count # 0 THEN items[start] ELSE None

top_at(index) ==
    IF index < count THEN items[_mod(U(start + index), Cap)] ELSE None

bottom == IF count # 0 THEN items[_mod(U(start + count - 1), Cap)] ELSE None

(* Mutant of bottom_at: the trailing - 1 is lost.                         *)
bottom_at_no_dec(index) ==
    IF index < count THEN items[_mod(U(start + count - index), Cap)] ELSE None

bottom_at(index) ==
    IF index < count THEN items[_mod(U(start + count - index - 1), Cap)] ELSE None

Next ==
    \/ \E v \in Values : push(v) \/ elim_push(v) \/ push_top(v)
    \/ pop \/ pop_bottom \/ clear

Spec == Init /\ [][Next]_vars

-----------------------------------------------------------------------------
(* The queue the ring stands for: _count items from _start, wrapping at    *)
(* _cap (true arithmetic, not the code's).                                 *)
Contents == [i \in 1..count |-> items[(start + i - 1) % Cap]]

Abstract == INSTANCE BoundedQueueSpec WITH q <- Contents

(***************************************************************************)
(* bounded_queue implements a bounded double-ended queue: every sequence   *)
(* of push, push_top, elim_push, pop, pop_bottom and clear changes the     *)
(* items from top to bottom, and returns, as BoundedQueueSpec says.        *)
(***************************************************************************)
Refines == Abstract!Spec

(***************************************************************************)
(* Exactly the _count slots from _start hold a constructed T: every push   *)
(* constructs into a free slot and every pop and clear() destroys the slot *)
(* it gives up, so no object is leaked, overwritten by placement new, or   *)
(* destroyed twice.                                                        *)
(***************************************************************************)
LiveSlotsExact ==
    \A i \in Slot :
        (items[i] # None) <=> (\E k \in 0..(count - 1) : i = (start + k) % Cap)

(***************************************************************************)
(* top(), bottom(), top(index) and bottom(index) name the items of the     *)
(* queue the ring stands for, counted from either end, and nullptr past    *)
(* its length, after any sequence of pushes and pops from both ends, which *)
(* moves _start around the ring.                                           *)
(***************************************************************************)
AccessorsAgree ==
    /\ top = IF count > 0 THEN Contents[1] ELSE None
    /\ bottom = IF count > 0 THEN Contents[count] ELSE None
    /\ \A i \in 0..Cap :
          /\ top_at(i) = IF i < count THEN Contents[i + 1] ELSE None
          /\ bottom_at(i) = IF i < count THEN Contents[count - i] ELSE None
=============================================================================
