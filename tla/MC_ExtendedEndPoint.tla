------------------------ MODULE MC_ExtendedEndPoint ------------------------
(* Model-checking instance of ExtendedEndPoint: threads, pool slots and    *)
(* addresses are model values; threads and slots are interchangeable.      *)
EXTENDS ExtendedEndPoint, TLC

CONSTANTS t1, t2, t3, s1, s2, s3, a1, a2

MCThreads == {t1, t2, t3}
MCSlots == {s1, s2, s3}
MCAddrs == {a1}
MCAddrs2 == {a1, a2}

Symm == Permutations(MCThreads) \cup Permutations(MCSlots)
=============================================================================
