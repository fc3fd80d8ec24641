---------------------------- MODULE MCEditorLink ----------------------------
(***************************************************************************)
(* Small instances of EditorLink. The sizes keep the order of the real     *)
(* ones: the replay cache holds fewer responses than a pedal with an image *)
(* gives while connecting, and fewer than a sync takes.                    *)
(***************************************************************************)
EXTENDS EditorLink, TLC

CONSTANTS factory, custom, first, second

NoImage == {Nil}
ImageOrNone == {Nil, [sequence |-> 0, config |-> custom]}

EitherConfig == Permutations({factory, custom})
EitherConfigOrSync == EitherConfig \cup Permutations({first, second})

\* Bound of LinkTwoSyncs: what is on the wire, in both directions.
FewInFlight == Len(requests) + Len(responses) <= 2
=============================================================================
