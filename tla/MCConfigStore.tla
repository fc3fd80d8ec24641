--------------------------- MODULE MCConfigStore ---------------------------
(***************************************************************************)
(* Small instances of ConfigStore for TLC.                                 *)
(***************************************************************************)
EXTENDS ConfigStore, TLC

CONSTANTS small, large, factory, user

MCImagePages == small :> 1 @@ large :> 2
MCOnePage == small :> 1 @@ large :> 1

\* Bound of StoreFaults: one calibration after another is the subject of StoreAtomicity.
OneCalibration == \A i \in Index : settings[i] # Nil => settings[i].generation = 1
=============================================================================
