----------------------------- MODULE MC_Collector -----------------------------
EXTENDS Collector

CONSTANTS s1, s2, s3, s4

MCSamples == {s1, s2, s3, s4}
MCMaxPending == 2
(* BASE 4 and 2 expected samples per second of 2 ticks: ranges 1..4 are   *)
(* all reachable, and intervals from a stepped-back clock to 1.5 seconds.  *)
MCBase == 4
MCExpected == 2
MCUSec == 2
MCIntervals == {-1, 0, 1, 2, 3}
=============================================================================
