---------------------------- MODULE BoundedFifo ----------------------------
(***************************************************************************)
(* What the output queues promise: at most Capacity items wait, an item    *)
(* offered to a full queue is refused and changes nothing ("drops the      *)
(* newest"), and items leave in the order in which they were accepted.     *)
(***************************************************************************)
EXTENDS Naturals, Sequences

CONSTANTS Items, Capacity

VARIABLES
  contents,  \* the items waiting, oldest first
  taken,     \* the items that left in the last step
  accepted   \* the answer to the last offer

vars == <<contents, taken, accepted>>

Init == contents = <<>> /\ taken = <<>> /\ accepted = TRUE

Offer(item) ==
  /\ accepted' = (Len(contents) < Capacity)
  /\ contents' = IF accepted' THEN Append(contents, item) ELSE contents
  /\ taken' = <<>>

Take(n) ==
  /\ taken' = SubSeq(contents, 1, n)
  /\ contents' = SubSeq(contents, n + 1, Len(contents))
  /\ UNCHANGED accepted

Next ==
  \/ \E item \in Items : Offer(item)
  \/ \E n \in 0 .. Len(contents) : Take(n)

Spec == Init /\ [][Next]_vars
=============================================================================
