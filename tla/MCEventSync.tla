---------------------------- MODULE MCEventSync ----------------------------
(***************************************************************************)
(* Small instances of EventSync for TLC.                                   *)
(***************************************************************************)
EXTENDS EventSync, TLC

Plain == [resolution |-> "fulfilled", score |-> 10, whole |-> TRUE]

\* Skipping costs 20 and needs 20.
Skip == [resolution |-> "skipped", score |-> -20, whole |-> TRUE]

\* Qualities 300 and 0: the score is below the table's CHECK.
Poor == [resolution |-> "quality_below", score |-> -148, whole |-> TRUE]

\* Qualities 1.5 and 0: the server's decoder wants whole numbers.
Fractional == [resolution |-> "quality_below", score |-> 2, whole |-> FALSE]

OnePlain     == {Plain}
PlainAndPoor == {Plain, Poor}
AllResults   == {Plain, Skip, Poor, Fractional}

Zero     == {0}
RawRings == {-1, 7}
Scores   == {20}

FlushSymmetry == Permutations(Flushes)
=============================================================================
