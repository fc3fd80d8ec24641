---------------------------- MODULE MCExpression ----------------------------
(***************************************************************************)
(* A pedal of five positions between the rails, a filter that keeps enough *)
(* of a fraction to settle, and a clock that wraps within a few messages.  *)
(***************************************************************************)
EXTENDS Expression

MCCalibrations == {[heel |-> 1, toe |-> 5], [heel |-> 2, toe |-> 3]}

MCAssignments ==
  {[enabled |-> TRUE, inverted |-> FALSE, minimum |-> 0, maximum |-> 4],
   [enabled |-> TRUE, inverted |-> TRUE, minimum |-> 1, maximum |-> 3],
   [enabled |-> FALSE, inverted |-> FALSE, minimum |-> 0, maximum |-> 0]}
=============================================================================
