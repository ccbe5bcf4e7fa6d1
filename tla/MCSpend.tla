-------------------------------- MODULE MCSpend --------------------------------
(* Two connections, of two warehouse types. *)
EXTENDS Spend

MCConns == <<"bigquery", "snowflake">>
=============================================================================
