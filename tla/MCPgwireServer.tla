---------------------------- MODULE MCPgwireServer ----------------------------
(* Model-checking instance of PgwireServer. *)
EXTENDS PgwireServer, TLC

\* Connections are interchangeable in the runs that check no liveness.
ConnSymmetry == Permutations(Conns)
=============================================================================
