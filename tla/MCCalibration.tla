--------------------------- MODULE MCCalibration ----------------------------
(***************************************************************************)
(* Three candidates, the first and the last of the seven among them.       *)
(***************************************************************************)
EXTENDS Calibration

MCCandidates == <<1100, 200, 50>>
=============================================================================
