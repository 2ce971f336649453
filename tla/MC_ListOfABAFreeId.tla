------------------------- MODULE MC_ListOfABAFreeId -------------------------
(* Five entries per block.  With MAX_ENTRIES = 10 add() can grow to three  *)
(* blocks, insert a block in the middle of the chain, wrap from the last   *)
(* block to the head, and scatter across a block boundary.  With           *)
(* MAX_ENTRIES = 5 the second block is the last, and a crowded scan with   *)
(* two blocks returns EAGAIN.                                              *)
EXTENDS ListOfABAFreeId

MCBlockSize == 5
MCLimits == {5, 10}
MCNumIds == 10

=============================================================================
