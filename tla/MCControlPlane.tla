---------------------------- MODULE MCControlPlane ----------------------------
(* Model-checking instance of ControlPlane. *)
EXTENDS ControlPlane, TLC

\* Rows are told apart by their contents only; goroutines are not permuted, since
\* Free picks one of them.
RowSymmetry == Permutations(Queries) \cup Permutations(Subs) \cup Permutations(Approvers) \cup Permutations(Runners)
=============================================================================
