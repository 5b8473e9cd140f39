---------------------------- MODULE MCPrediction ----------------------------
(***************************************************************************)
(* A small instance of Prediction for TLC.                                 *)
(***************************************************************************)
EXTENDS Prediction

\* A ring that was skipped over, and a mutant.
TwoScores == {-8, 10}

\* Below zero, and in the ten of the lowest tier.
TwoFinals == {-5, 168}

\* Between two bands, and the highest.
TwoLevels == {79, 175}

\* Just below the lowest tier of the highest level.
OneSetup == {155}

\* A cycle joined in its middle.
OneRing == {1}

Mutant == {"mutant_specific"}
=============================================================================
