-------------------------- MODULE BoundedQueueSpec --------------------------
(***************************************************************************)
(* What melon::container::bounded_queue promises (src/unnamed/part_011):   *)
(* a double-ended queue of at most Cap items, top at the head of q, bottom *)
(* at its end.  ret is the result of the last call: a bool, or the item a  *)
(* pop(T *item) copied out.                                                     *)
(***************************************************************************)
EXTENDS Naturals, Sequences

CONSTANTS Cap, Values

VARIABLES q, ret

Results == BOOLEAN \cup Values

TypeOK == q \in Seq(Values) /\ Len(q) <= Cap /\ ret \in Results

Init == q = <<>> /\ ret = TRUE

Full == Len(q) = Cap

(* push(item) / push(): append at the bottom unless full.                  *)
PushBottom(v) ==
    \/ ~Full /\ q' = Append(q, v) /\ ret' = TRUE
    \/ Full /\ UNCHANGED q /\ ret' = FALSE

(* push_top(item) / push_top(): insert at the top unless full.             *)
PushTop(v) ==
    \/ ~Full /\ q' = <<v>> \o q /\ ret' = TRUE
    \/ Full /\ UNCHANGED q /\ ret' = FALSE

(* elim_push(item): when full the topmost item makes room.                 *)
ElimPush(v) ==
    /\ q' = IF Full THEN Append(Tail(q), v) ELSE Append(q, v)
    /\ ret' = TRUE

(* pop() / pop(T *item): remove the top, reporting it or just success.          *)
PopTop ==
    \/ q # <<>> /\ q' = Tail(q) /\ ret' \in {TRUE, Head(q)}
    \/ q = <<>> /\ UNCHANGED q /\ ret' = FALSE

(* pop_bottom() / pop_bottom(T *item).                                          *)
PopBottom ==
    \/ q # <<>> /\ q' = SubSeq(q, 1, Len(q) - 1) /\ ret' \in {TRUE, q[Len(q)]}
    \/ q = <<>> /\ UNCHANGED q /\ ret' = FALSE

Clear == q' = <<>> /\ ret' = TRUE

Next ==
    \/ \E v \in Values : PushBottom(v) \/ PushTop(v) \/ ElimPush(v)
    \/ PopTop \/ PopBottom \/ Clear

Spec == Init /\ [][Next]_<<q, ret>>
=============================================================================
