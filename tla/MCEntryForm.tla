---------------------------- MODULE MCEntryForm ----------------------------
(* A small instance of EntryForm for TLC. *)
EXTENDS EntryForm

Met == {"medicine", "equipment_80", "mutant_specific"}

\* 63 and 58 with a fraction and without; a large gap; no gap; a negative one.
Typed == {[required |-> 126, actual |-> 116], [required |-> 127, actual |-> 116],
          [required |-> 129, actual |-> 116], [required |-> 600, actual |-> 0],
          [required |-> 10, actual |-> 10], [required |-> 10, actual |-> -2]}

FirstScores == {0, 20, 25}
=============================================================================
