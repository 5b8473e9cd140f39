---------------------------- MODULE MCDeployment ----------------------------
(***************************************************************************)
(* A small instance of Deployment for TLC.                                 *)
(***************************************************************************)
EXTENDS Deployment, TLC

ScriptSymmetry == Permutations(Scripts)

Whole4 == [required |-> 8, actual |-> 0]
Whole10 == [required |-> 20, actual |-> 0]

\* The mutants, a merged task, and a task with qualities whose requested score
\* is missing, negative, zero and not zero.
FewReports ==
  {[task |-> "mutant_specific", resolution |-> r, q |-> NoQualities] :
     r \in {"fulfilled", "mutant_unspecified", "normal_pet"}}
    \cup {[task |-> "flower_instrument", resolution |-> "fulfilled", q |-> NoQualities],
          [task |-> "medicine", resolution |-> "fulfilled", q |-> Whole10],
          [task |-> "medicine", resolution |-> "quality_below", q |-> Whole4],
          [task |-> "medicine", resolution |-> "skipped", q |-> NoQualities]}
=============================================================================
