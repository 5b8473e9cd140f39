--------------------------- MODULE MCBrokenTurns ---------------------------
(***************************************************************************)
(* A small instance of BrokenTurns for TLC.                                *)
(***************************************************************************)
EXTENDS BrokenTurns

OneResult == {[resolution |-> "fulfilled", score |-> 1, whole |-> TRUE]}

\* An empty cycle, and one with a single ring left.
TwoRings == {0, 2}
=============================================================================
