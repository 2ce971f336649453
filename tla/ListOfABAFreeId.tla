--------------------------- MODULE ListOfABAFreeId ---------------------------
(***************************************************************************)
(* fiber::ListOfABAFreeId (src/melon/fiber/list_of_abafree_id.h): the      *)
(* container melon::Socket keeps of the fiber_session_t ids to notify on   *)
(* error.  Ids are never removed; an id that no longer exists() is simply  *)
(* overwritten by a later add().  add() runs on one thread at a time, but  *)
(* ids stop existing at any moment, on other threads.                      *)
(*                                                                         *)
(* Blocks are an arena 1..MaxBlocks linked through next; block 1 is        *)
(* _head_block and blocks are allocated in order, so blocks 1.._nblock are *)
(* the ones in the list.  An id is a number 1..NumIds; 0 is ID_INIT.       *)
(*                                                                         *)
(* The class is a template over IdTraits.  A run checks several            *)
(* instantiations at once: MAX_ENTRIES is chosen from Limits in Init and   *)
(* never changes.                                                          *)
(***************************************************************************)
EXTENDS Naturals, Sequences, FiniteSets

CONSTANTS
    BLOCK_SIZE,   \* IdTraits::BLOCK_SIZE
    Limits,       \* the values of IdTraits::MAX_ENTRIES checked
    NumIds        \* ids 1..NumIds are handed to add() in turn

ASSUME /\ BLOCK_SIZE \in Nat /\ BLOCK_SIZE >= 5
       /\ Limits \subseteq Nat /\ Limits # {} /\ \A l \in Limits : l >= BLOCK_SIZE
       /\ NumIds \in Nat \ {0}

ID_INIT == 0

\* add() refuses to grow once _nblock * BLOCK_SIZE > MAX_ENTRIES.
MaxBlocks == CHOOSE m \in {l \div BLOCK_SIZE + 1 : l \in Limits} :
                 \A l \in Limits : m >= l \div BLOCK_SIZE + 1

Blocks == 1..MaxBlocks
Index == 0..(BLOCK_SIZE - 1)
Ids == 1..NumIds

VARIABLES
    ids,        \* ids[b][i]: IdBlock::ids of block b
    next,       \* next[b]: IdBlock::next, 0 for NULL
    cur_block,  \* _cur_block
    cur_index,  \* _cur_index
    nblock,     \* _nblock
    live,       \* the ids for which IdTraits::exists() holds
    added,      \* ids whose add() returned 0
    issued,     \* ids handed to add() so far
    MAX_ENTRIES \* IdTraits::MAX_ENTRIES of this instantiation

vars == <<ids, next, cur_block, cur_index, nblock, live, added, issued, MAX_ENTRIES>>

TypeOK ==
    /\ ids \in [Blocks -> [Index -> 0..NumIds]]
    /\ next \in [Blocks -> 0..MaxBlocks]
    /\ cur_block \in 1..nblock
    /\ cur_index \in Index
    /\ nblock \in 1..MaxBlocks
    /\ live \subseteq Ids
    /\ added \subseteq Ids
    /\ issued \in 0..NumIds
    /\ MAX_ENTRIES \in Limits

(* The constructor: only _head_block, all ID_INIT.                         *)
Init ==
    /\ ids = [b \in Blocks |-> [i \in Index |-> ID_INIT]]
    /\ next = [b \in Blocks |-> 0]
    /\ cur_block = 1
    /\ cur_index = 0
    /\ nblock = 1
    /\ live = {}
    /\ added = {}
    /\ issued = 0
    /\ MAX_ENTRIES \in Limits

(***************************************************************************)
(* The body of add() is a sequential computation; it is modelled as a      *)
(* function on a record L of the fields it touches:                        *)
(*   [ids, next, cb (_cur_block), ci (_cur_index), nblock].                *)
(***************************************************************************)

(* Mutant of forward_index: wraps one position late.                      *)
forward_index_late(L) ==
    IF L.ci + 1 > BLOCK_SIZE
    THEN [L EXCEPT !.ci = 0,
                   !.cb = IF L.next[L.cb] # 0 THEN L.next[L.cb] ELSE 1]
    ELSE [L EXCEPT !.ci = @ + 1]

(* forward_index(): next position, from the last block back to the head.   *)
forward_index(L) ==
    IF L.ci + 1 >= BLOCK_SIZE
    THEN [L EXCEPT !.ci = 0,
                   !.cb = IF L.next[L.cb] # 0 THEN L.next[L.cb] ELSE 1]
    ELSE [L EXCEPT !.ci = @ + 1]

At(L, p) == L.ids[p[1]][p[2]]
Put(L, p, v) == [L EXCEPT !.ids[p[1]][p[2]] = v]

(* The position is not used: ID_INIT, or an id that no longer exists.      *)
Unused(v) == v = ID_INIT \/ v \notin live

(***************************************************************************)
(* The first loop of add(): look at up to 4 positions from the cursor, and *)
(* store id in the first unused one.  Returns the list, whether the id was *)
(* stored, and saved_pos, the crowded positions passed.                    *)
(***************************************************************************)
RECURSIVE Scan(_, _, _)
Scan(L, id, saved) ==
    IF Len(saved) = 4
    THEN [list |-> L, stored |-> FALSE, saved |-> saved]
    ELSE LET pos == <<L.cb, L.ci>>
             L1 == forward_index(L)
         IN  IF Unused(At(L, pos))
             THEN [list |-> Put(L1, pos, id), stored |-> TRUE, saved |-> saved]
             ELSE Scan(L1, id, Append(saved, pos))

(* Mutant of Grow: new_block->next is left NULL.                          *)
Grow_cuts_chain(L) ==
    LET nb == L.nblock + 1
        cb == L.cb
    IN  [L EXCEPT
           !.nblock = nb,
           !.ids = [@ EXCEPT
                      ![nb] = [i \in Index |-> IF i < L.ci THEN ID_INIT ELSE L.ids[cb][i]],
                      ![cb] = [i \in Index |-> IF i < L.ci THEN @[i] ELSE ID_INIT]],
           !.next = [@ EXCEPT ![nb] = 0, ![cb] = nb]]

(* Mutant of Grow: ids from _cur_index on are cleared but not copied.      *)
Grow_drops_tail(L) ==
    LET nb == L.nblock + 1
        cb == L.cb
    IN  [L EXCEPT
           !.nblock = nb,
           !.ids = [@ EXCEPT
                      ![nb] = [i \in Index |-> ID_INIT],
                      ![cb] = [i \in Index |-> IF i < L.ci THEN @[i] ELSE ID_INIT]],
           !.next = [@ EXCEPT ![nb] = L.next[cb], ![cb] = nb]]

(***************************************************************************)
(* A new block after _cur_block takes over the ids at _cur_index and       *)
(* beyond, which become ID_INIT in _cur_block.                             *)
(***************************************************************************)
Grow(L) ==
    LET nb == L.nblock + 1
        cb == L.cb
    IN  [L EXCEPT
           !.nblock = nb,
           !.ids = [@ EXCEPT
                      ![nb] = [i \in Index |-> IF i < L.ci THEN ID_INIT ELSE L.ids[cb][i]],
                      ![cb] = [i \in Index |-> IF i < L.ci THEN @[i] ELSE ID_INIT]],
           !.next = [@ EXCEPT ![nb] = L.next[cb], ![cb] = nb]]

(* Mutant of Scatter: *saved_pos[1] is not cleared after it is copied.     *)
Scatter_keeps_copy(L, sp, id) ==
    LET L1 == Put(L, <<L.cb, L.ci>>, At(L, sp[3]))
        L2 == Put(L1, sp[3], At(L1, sp[2]))
        L3 == forward_index(forward_index(L2))
        L4 == Put(L3, <<L3.cb, L3.ci>>, At(L3, sp[4]))
        L5 == Put(L4, sp[4], ID_INIT)
        L6 == forward_index(L5)
        L7 == Put(L6, <<L6.cb, L6.ci>>, id)
    IN  forward_index(L7)

(***************************************************************************)
(* Scatter the four crowded ids so that each is followed by an empty       *)
(* entry, and store id after them (the code's saved_pos[0..3] are sp[1..4] *)
(* here).                                                                  *)
(***************************************************************************)
Scatter(L, sp, id) ==
    LET L1 == Put(L, <<L.cb, L.ci>>, At(L, sp[3]))
        L2 == Put(L1, sp[3], At(L1, sp[2]))
        L2b == Put(L2, sp[2], ID_INIT)
        L3 == forward_index(forward_index(L2b))
        L4 == Put(L3, <<L3.cb, L3.ci>>, At(L3, sp[4]))
        L5 == Put(L4, sp[4], ID_INIT)
        L6 == forward_index(L5)
        L7 == Put(L6, <<L6.cb, L6.ci>>, id)
    IN  forward_index(L7)

Fields == [ids |-> ids, next |-> next, cb |-> cur_block, ci |-> cur_index,
           nblock |-> nblock]

Store(L) ==
    /\ ids' = L.ids
    /\ next' = L.next
    /\ cur_block' = L.cb
    /\ cur_index' = L.ci
    /\ nblock' = L.nblock

(* add()'s limit test, made before _nblock is incremented.                 *)
BlockLimitReached == nblock * BLOCK_SIZE > MAX_ENTRIES

(***************************************************************************)
(* add(id) for the next fresh id, which exists when it is added.  After a  *)
(* crowded scan it returns EAGAIN at the block limit, ENOMEM when the new  *)
(* block cannot be allocated (the cursor has still moved), or grows the    *)
(* list and scatters.                                                      *)
(***************************************************************************)
add ==
    /\ issued < NumIds
    /\ UNCHANGED MAX_ENTRIES
    /\ LET id == issued + 1
           r == Scan(Fields, id, <<>>)
       IN  /\ issued' = id
           /\ live' = live \cup {id}
           /\ \/ /\ r.stored
                 /\ Store(r.list)
                 /\ added' = added \cup {id}
              \/ /\ ~r.stored
                 /\ BlockLimitReached
                 /\ Store(r.list)
                 /\ UNCHANGED added
              \/ /\ ~r.stored
                 /\ ~BlockLimitReached
                 /\ Store(r.list)
                 /\ UNCHANGED added
              \/ /\ ~r.stored
                 /\ ~BlockLimitReached
                 /\ Store(Scatter(Grow(r.list), r.saved, id))
                 /\ added' = added \cup {id}

(* Another thread ends the session: exists(id) is false from now on.       *)
invalidate ==
    \E id \in live :
        /\ live' = live \ {id}
        /\ UNCHANGED <<ids, next, cur_block, cur_index, nblock, added, issued, MAX_ENTRIES>>

Next == add \/ invalidate

Spec == Init /\ [][Next]_vars

-----------------------------------------------------------------------------
(* The blocks apply() walks: from _head_block along next.                  *)
RECURSIVE Chain(_)
Chain(b) == IF b = 0 THEN <<>> ELSE <<b>> \o Chain(next[b])

Positions == {<<b, i>> : b \in {Chain(1)[k] : k \in 1..Len(Chain(1))}, i \in Index}

(***************************************************************************)
(* No id is lost: every id add() accepted and that still exists is met by  *)
(* apply(), so the socket's error notification reaches its session.  It is *)
(* about the scatter after a crowded scan, which moves ids between blocks. *)
(***************************************************************************)
NoLiveIdLost ==
    \A id \in added \cap live : \E p \in Positions : ids[p[1]][p[2]] = id

(***************************************************************************)
(* apply() calls fn at most once per id: no id is stored at two positions. *)
(***************************************************************************)
NoDuplicate ==
    \A p, q \in Positions :
        (p # q /\ ids[p[1]][p[2]] # ID_INIT) => ids[p[1]][p[2]] # ids[q[1]][q[2]]

(***************************************************************************)
(* The list is the chain of all allocated blocks: apply() and get_sizes()  *)
(* (_nblock * BLOCK_SIZE) see the same blocks.                             *)
(***************************************************************************)
ChainIsAllBlocks ==
    Len(Chain(1)) = nblock /\ {Chain(1)[k] : k \in 1..Len(Chain(1))} = 1..nblock

=============================================================================
