----------------------------- MODULE LogStorage -----------------------------
(***************************************************************************)
(* What a melon::raft log storage promises its LogManager: the log is a    *)
(* function from the interval first..last of indexes to terms.  Appending  *)
(* extends it by one index, truncate_prefix drops the indexes below a      *)
(* given one, truncate_suffix those above one, and reset empties it so     *)
(* that the next append gets a given index.  Reads change nothing.  The    *)
(* operations are those of MemoryLogStorage (src/unnamed/part_005), with   *)
(* the arguments a LogManager passes: a prefix is never truncated below    *)
(* first, nor a suffix above last.                                         *)
(***************************************************************************)
EXTENDS Integers

CONSTANTS
    Terms,       \* the terms entries may carry
    MaxIndex     \* the largest index the log may reach

VARIABLES
    first,       \* _first_log_index
    last,        \* _last_log_index
    log          \* the entries, a function first..last -> Terms

vars == <<first, last, log>>

(* The log kept between two new bounds: what is dropped is forgotten.      *)
Keep(f, l) == [i \in f..l |-> log[i]]

(* MemoryLogStorage::init.                                                 *)
Init == first = 1 /\ last = 0 /\ log = [i \in 1..0 |-> 1]

append_entry(t) ==
    /\ last < MaxIndex
    /\ last' = last + 1
    /\ log' = [i \in first..last + 1 |-> IF i = last + 1 THEN t ELSE log[i]]
    /\ UNCHANGED first

(* Truncating beyond last leaves an empty log that starts at the index.    *)
truncate_prefix(k) ==
    /\ first' = k
    /\ last' = IF k > last THEN k - 1 ELSE last
    /\ log' = Keep(k, last')

(* Truncating below first leaves an empty log that ends at the index.      *)
truncate_suffix(k) ==
    /\ last' = k
    /\ first' = IF first > k THEN k + 1 ELSE first
    /\ log' = Keep(first', k)

reset(n) ==
    /\ first' = n /\ last' = n - 1
    /\ log' = [i \in n..n - 1 |-> 1]

Next ==
    \/ \E t \in Terms : append_entry(t)
    \/ \E k \in first..MaxIndex + 1 : truncate_prefix(k)
    \/ \E k \in 0..last : truncate_suffix(k)
    \/ \E n \in 1..MaxIndex + 1 : reset(n)

Spec == Init /\ [][Next]_vars
=============================================================================
