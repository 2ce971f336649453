------------------------- MODULE MC_MemoryLogStorage -------------------------
(***************************************************************************)
(* MemoryLogStorage with two terms, indexes up to 3, batches of up to two  *)
(* entries and two readers: enough for a batch to be half appended while a *)
(* reader holds an entry, for a truncation to pop an entry a reader holds, *)
(* and for each truncation to go past either end of the log.               *)
(***************************************************************************)
EXTENDS MemoryLogStorage

CONSTANTS r1, r2

MCTerms == {1, 2}
MCMaxIndex == 3
MCBatchMax == 2
MCReaders == {r1, r2}

(* The readers are interchangeable. *)
ReaderSymmetry == Permutations(MCReaders)
=============================================================================
