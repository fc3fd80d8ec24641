---------------------------- MODULE LossyChannel ----------------------------
(***************************************************************************)
(* What a line of frames promises: what is received was sent, once, and in *)
(* the order in which it was sent. Anything may be lost.                   *)
(***************************************************************************)
EXTENDS Naturals, SequencesExt

VARIABLES
  sent,     \* every message sent, all different
  received

\* The place of the last message received among those sent.
Reached == IF received = <<>> THEN 0
           ELSE CHOOSE k \in DOMAIN sent : sent[k] = Last(received)

Init == sent = <<>> /\ received = <<>>

Send == IsPrefix(sent, sent') /\ UNCHANGED received

Receive ==
  /\ \E arrived \in SUBSET (Reached + 1 .. Len(sent)) :
       LET order == SetToSortSeq(arrived, <)
       IN  received' = received \o [k \in DOMAIN order |-> sent[order[k]]]
  /\ UNCHANGED sent

Spec == Init /\ [][Send \/ Receive]_<<sent, received>>
=============================================================================
