-------------------------- MODULE MemoryLogStorage --------------------------
(***************************************************************************)
(* melon::raft::MemoryLogStorage (src/unnamed/part_005): the log kept in a *)
(* std::deque of reference-counted LogEntry pointers, with the atomics     *)
(* _first_log_index and _last_log_index, every operation under _mutex.     *)
(*                                                                         *)
(* One writer, the LogManager's thread, creates entries (one reference),   *)
(* calls append_entries, which takes the lock once per entry, drops its   *)
(* own references when the call returns, and truncates or resets.  Reader *)
(* threads call get_entry, which returns the entry with a reference added, *)
(* and Release it later.  The popped entries of a truncation are released  *)
(* after the unlock.  A LogEntry is identified by its LogId (index, term); *)
(* a new one with the LogId of an entry still alive is not created.        *)
(***************************************************************************)
EXTENDS Integers, Sequences, SequencesExt

CONSTANTS
    Terms,       \* the terms entries may carry
    MaxIndex,    \* the largest index the log may reach
    BatchMax,    \* the most entries one append_entries call passes
    Readers      \* threads calling get_entry

Entry == [index : 1..MaxIndex, term : Terms]
NoEntry == [index |-> 0, term |-> 0]

VARIABLES
    data,        \* _log_entry_data
    first,       \* _first_log_index
    last,        \* _last_log_index
    refs,        \* refs[e]: the reference count of LogEntry e
    batch,       \* the entries append_entries has still to append
    wheld,       \* the entries the writer created and still holds
    held         \* held[r]: the entry reader r got from get_entry

vars == <<data, first, last, refs, batch, wheld, held>>

(* init(): an empty log whose next index is 1.                             *)
Init ==
    /\ data = <<>>
    /\ first = 1 /\ last = 0
    /\ refs = [e \in Entry |-> 0]
    /\ batch = <<>> /\ wheld = {}
    /\ held = [r \in Readers |-> NoEntry]

AddRef(S) == [e \in Entry |-> IF e \in S THEN refs[e] + 1 ELSE refs[e]]
Release(S) == [e \in Entry |-> IF e \in S THEN refs[e] - 1 ELSE refs[e]]

(***************************************************************************)
(* The LogManager builds entries for the next indexes and calls            *)
(* append_entries; an empty vector returns 0 at once and is not modelled.  *)
(***************************************************************************)
append_entries ==
    /\ batch = <<>> /\ wheld = {}
    /\ \E n \in 1..BatchMax, ts \in [1..BatchMax -> Terms] :
         LET b == [j \in 1..n |-> [index |-> last + j, term |-> ts[j]]]
         IN /\ last + n <= MaxIndex
            /\ \A j \in 1..n : refs[b[j]] = 0
            /\ batch' = b
            /\ wheld' = ToSet(b)
            /\ refs' = AddRef(ToSet(b))
    /\ UNCHANGED <<data, first, last, held>>

(***************************************************************************)
(* append_entry, called by append_entries for each entry in turn: an entry *)
(* whose index is not _last_log_index + 1 fails CHECK(false), aborting the *)
(* process; otherwise AddRef, push_back, and _last_log_index + 1.          *)
(***************************************************************************)
append_entry ==
    /\ batch # <<>>
    /\ Head(batch).index = last + 1
    /\ data' = Append(data, Head(batch))
    /\ last' = last + 1
    /\ refs' = AddRef({Head(batch)})
    /\ batch' = Tail(batch)
    /\ UNCHANGED <<first, wheld, held>>

(* append_entries has returned: the LogManager releases its references.    *)
writer_release ==
    /\ batch = <<>> /\ wheld # {}
    /\ refs' = Release(wheld)
    /\ wheld' = {}
    /\ UNCHANGED <<data, first, last, batch, held>>

(* The writer is between calls.                                            *)
WriterIdle == batch = <<>>

(* Mutant of truncate_prefix: _last_log_index is not raised when the      *)
(* truncation goes beyond the last entry.                                  *)
truncate_prefix_no_fixup(k) ==
    LET n == SelectInSeq(data, LAMBDA e : e.index >= k)
        keep == IF n = 0 THEN Len(data) + 1 ELSE n
    IN /\ WriterIdle
       /\ data' = SubSeq(data, keep, Len(data))
       /\ first' = k
       /\ refs' = Release(ToSet(SubSeq(data, 1, keep - 1)))
       /\ UNCHANGED <<last, batch, wheld, held>>

(***************************************************************************)
(* truncate_prefix: pop from the front while the entry's index is below    *)
(* first_index_kept, store _first_log_index, raise _last_log_index if it   *)
(* is now below first - 1, unlock, and Release the popped entries.         *)
(***************************************************************************)
truncate_prefix(k) ==
    LET n == SelectInSeq(data, LAMBDA e : e.index >= k)
        keep == IF n = 0 THEN Len(data) + 1 ELSE n
    IN /\ WriterIdle
       /\ data' = SubSeq(data, keep, Len(data))
       /\ first' = k
       /\ last' = IF k > last THEN k - 1 ELSE last
       /\ refs' = Release(ToSet(SubSeq(data, 1, keep - 1)))
       /\ UNCHANGED <<batch, wheld, held>>

(***************************************************************************)
(* truncate_suffix: pop from the back while the entry's index is above     *)
(* last_index_kept, store _last_log_index, lower _first_log_index if it is *)
(* now above last + 1, unlock, and Release the popped entries.             *)
(***************************************************************************)
truncate_suffix(k) ==
    LET m == SelectLastInSeq(data, LAMBDA e : e.index <= k)
    IN /\ WriterIdle
       /\ data' = SubSeq(data, 1, m)
       /\ last' = k
       /\ first' = IF first > k THEN k + 1 ELSE first
       /\ refs' = Release(ToSet(SubSeq(data, m + 1, Len(data))))
       /\ UNCHANGED <<batch, wheld, held>>

(* Mutant of reset: a next_log_index <= 0 is not refused.                  *)
reset_unchecked(n) ==
    /\ WriterIdle
    /\ data' = <<>>
    /\ first' = n /\ last' = n - 1
    /\ refs' = Release(ToSet(data))
    /\ UNCHANGED <<batch, wheld, held>>

(***************************************************************************)
(* reset: EINVAL for next_log_index <= 0; otherwise pop every entry, set   *)
(* first = next_log_index and last = next_log_index - 1, Release.          *)
(***************************************************************************)
reset(n) ==
    /\ WriterIdle
    /\ \/ /\ n <= 0
          /\ UNCHANGED <<data, first, last, refs>>
       \/ /\ n > 0
          /\ data' = <<>>
          /\ first' = n /\ last' = n - 1
          /\ refs' = Release(ToSet(data))
    /\ UNCHANGED <<batch, wheld, held>>

(* Mutant of get_entry: the entry is returned without AddRef.              *)
get_entry_noref(r, i) ==
    /\ held[r] = NoEntry
    /\ first <= i /\ i <= last
    /\ held' = [held EXCEPT ![r] = data[i - first + 1]]
    /\ UNCHANGED <<data, first, last, refs, batch, wheld>>

(***************************************************************************)
(* get_entry: NULL for an index outside first..last; otherwise the entry   *)
(* at index - first, AddRef'd (its CHECK on the entry's index is what      *)
(* Implements checks).                                                     *)
(***************************************************************************)
get_entry(r, i) ==
    /\ held[r] = NoEntry
    /\ \/ /\ i < first \/ i > last
          /\ UNCHANGED vars
       \/ /\ first <= i /\ i <= last
          /\ held' = [held EXCEPT ![r] = data[i - first + 1]]
          /\ refs' = AddRef({data[i - first + 1]})
          /\ UNCHANGED <<data, first, last, batch, wheld>>

(* The reader is done with the entry and calls Release.                    *)
reader_release(r) ==
    /\ held[r] # NoEntry
    /\ refs' = Release({held[r]})
    /\ held' = [held EXCEPT ![r] = NoEntry]
    /\ UNCHANGED <<data, first, last, batch, wheld>>

(***************************************************************************)
(* A LogManager truncates a prefix from first on and a suffix up to last   *)
(* (MemoryLogStorage checks neither).                                      *)
(***************************************************************************)
Next ==
    \/ append_entries \/ append_entry \/ writer_release
    \/ \E k \in first..MaxIndex + 1 : truncate_prefix(k)
    \/ \E k \in 0..last : truncate_suffix(k)
    \/ \E n \in 0..MaxIndex + 1 : reset(n)
    \/ \E r \in Readers, i \in 0..MaxIndex + 1 : get_entry(r, i)
    \/ \E r \in Readers : reader_release(r)

Spec == Init /\ [][Next]_vars

-----------------------------------------------------------------------------
MaxRefs == 2 + Cardinality(Readers)

TypeOK ==
    /\ data \in Seq(Entry) /\ Len(data) <= MaxIndex
    /\ first \in 1..MaxIndex + 1 /\ last \in 0..MaxIndex
    /\ refs \in [Entry -> 0..MaxRefs]
    /\ batch \in Seq(Entry) /\ wheld \subseteq Entry
    /\ held \in [Readers -> Entry \cup {NoEntry}]

(***************************************************************************)
(* Every LogEntry's count is exactly the number of its holders: the deque, *)
(* the writer and each reader hold one reference each.  No entry is freed  *)
(* while the storage or a reader still uses it, even when a truncation     *)
(* pops it after get_entry handed it out, and none leaks.                  *)
(***************************************************************************)
Holders(e) ==
    (IF e \in ToSet(data) THEN 1 ELSE 0) + (IF e \in wheld THEN 1 ELSE 0)
        + Cardinality({r \in Readers : held[r] = e})

RefsExact == \A e \in Entry : refs[e] = Holders(e)

(***************************************************************************)
(* The deque implements the abstract log: the entry at position p of the   *)
(* deque has index first + p - 1 (get_entry's and get_term's CHECK), the   *)
(* deque covers first..last, and every operation changes the log as        *)
(* LogStorage says, including the first/last fix-ups of the truncations.  *)
(***************************************************************************)
LogOf == [i \in {data[p].index : p \in 1..Len(data)} |->
            (CHOOSE p \in 1..Len(data) : data[p].index = i)]

Abstract == INSTANCE LogStorage
    WITH log <- [i \in DOMAIN LogOf |-> data[LogOf[i]].term]

Implements == Abstract!Spec
=============================================================================
