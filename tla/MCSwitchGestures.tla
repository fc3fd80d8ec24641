-------------------------- MODULE MCSwitchGestures --------------------------
(***************************************************************************)
(* Small instances of SwitchGestures: three switches, of which one pair is *)
(* no chord; the thresholds are scaled down, in the order of the real      *)
(* ones, and a pass of the control loop can be late by more than a repeat. *)
(***************************************************************************)
EXTENDS SwitchGestures, TLC

CONSTANTS A, B, C

EitherPartner == Permutations({B, C})
TwoChords == {{A, B}, {A, C}}
=============================================================================
