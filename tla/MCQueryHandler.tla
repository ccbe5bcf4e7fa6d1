---------------------------- MODULE MCQueryHandler ----------------------------
(* Model-checking instances of QueryHandler: sessions of one customer, each on  *)
(* BigQuery, on Snowflake or on Databricks, whose connector is a stub, so that  *)
(* they share a worker and may share a connector.                               *)
EXTENDS QueryHandler, TLC

MCIdents == {<<"acme", "bigquery">>, <<"acme", "snowflake">>, <<"acme", "databricks">>}
MCOneIdent == {<<"acme", "bigquery">>}

\* A row of either engine for every session, or for one session only.
MCRows == [s \in Sessions |-> 1]
MCRowsOfOne == [s \in Sessions |-> IF s = CHOOSE t \in Sessions : TRUE THEN 1 ELSE 0]
SessionSymmetry == Permutations(Sessions)
=============================================================================
