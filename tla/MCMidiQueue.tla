---------------------------- MODULE MCMidiQueue ----------------------------
(***************************************************************************)
(* A queue of four: full, empty and wrapped with two messages that a       *)
(* reordering would confuse.                                               *)
(***************************************************************************)
EXTENDS MidiQueue

CONSTANTS program, control
=============================================================================
