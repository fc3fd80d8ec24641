---------------------------- MODULE MCSerialLink ----------------------------
(***************************************************************************)
(* Requests with and without a payload, noise that looks like the          *)
(* beginning of a magic, and a response that takes two or three flushes.   *)
(***************************************************************************)
EXTENDS SerialLink

MCPayloads == {<<>>, <<5, 2, 3>>}
MCNoises == {<<77>>, <<65, 77, 80, 67>>}
=============================================================================
