--------------------------- MODULE MCCommandLayer ---------------------------
(***************************************************************************)
(* A client's handler and an effect, each with a state of its own.         *)
(***************************************************************************)
EXTENDS CommandLayer, TLC

CONSTANTS c1, e1, s1, s2

MCWants == (c1 :> {s1}) @@ (e1 :> {s2})
=============================================================================
