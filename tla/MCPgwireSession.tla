---------------------------- MODULE MCPgwireSession ----------------------------
(* Model-checking instance of PgwireSession: one statement name and text, the   *)
(* key of one customer and a database name of another.                          *)
EXTENDS PgwireSession

MCServer == [tls |-> FALSE, auth |-> TRUE]
MCKeyOwner == [k \in {"key"} |-> "acme"]
MCDatabases == {<<"acme", "bigquery">>, <<"other", "bigquery">>, <<"acme", "oracle">>}
=============================================================================
