------------------------------- MODULE MCCdcSync -------------------------------
(* Model-checking instance of CdcSync: a Snowflake table and a BigQuery table   *)
(* that was added for full loads or for loads by its watermark.                 *)
EXTENDS CdcSync

MCTables == {"orders", "events"}
MCWarehouse == [t \in Tables |-> IF t = "orders" THEN "snowflake" ELSE "bigquery"]
MCAdded == {[t \in Tables |-> [mode |-> IF t = "events" THEN m ELSE "full", col |-> t = "events"]] : m \in Modes}
=============================================================================
