------------------------------ MODULE MCRollup ------------------------------
(* Instances of Rollup for TLC. *)
EXTENDS Rollup, TLC

CONSTANTS e1, e2, w1, w2
=============================================================================
