--------------------------- MODULE MC_BoundedQueue ---------------------------
(* W = 3 stands for the 32-bit fields: max_capacity() is 2^W - 1 = 7.      *)
(* MCCap = 4 = 2^(W-1) is the largest capacity for which _start + _count   *)
(* cannot wrap; MCCapOver = 5 is one more.  With Cap <- MCCapOver, Refines *)
(* fails: the uint32_t wrap of _start + _count (a hazard in PROJECT.json). *)
EXTENDS BoundedQueue

MCW == 3
MCCap == 4
MCCapOver == 5
=============================================================================
