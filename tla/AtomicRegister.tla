--------------------------- MODULE AtomicRegister ---------------------------
(***************************************************************************)
(* What a durable setting promises its user, whatever the storage does     *)
(* underneath: a change that was requested takes effect completely or not  *)
(* at all, a power loss leaves the old value or the requested one, an      *)
(* acknowledged change has taken effect, and nothing else changes it.      *)
(*                                                                         *)
(* docs/protocol.md asks this of the active configuration image, and the   *)
(* tests of ConfigStore ask it of the expression calibration.              *)
(***************************************************************************)

CONSTANTS Values,   \* what the register can hold
          Nothing   \* "no change is in progress"

VARIABLES value,    \* what a controller powered up now would use
          pending   \* the requested value while a change is in progress

vars == <<value, pending>>

Init == value \in Values /\ pending = Nothing

\* A caller asks for the value v.
Request(v) ==
  /\ pending = Nothing
  /\ pending' = v
  /\ UNCHANGED value

\* The one instant at which the requested value becomes the durable one.
TakeEffect ==
  /\ pending # Nothing
  /\ value' = pending
  /\ UNCHANGED pending

\* The change is over, and the caller is told that it took effect.
Acknowledge ==
  /\ pending # Nothing
  /\ value' = pending
  /\ pending' = Nothing

\* Power is lost (or the change is given up): the old value or the new one.
GiveUp ==
  /\ pending # Nothing
  /\ value' \in {value, pending}
  /\ pending' = Nothing

Next ==
  \/ \E v \in Values : Request(v)
  \/ TakeEffect
  \/ Acknowledge
  \/ GiveUp

Spec == Init /\ [][Next]_vars
=============================================================================
