-------------------------------- MODULE CdcSync --------------------------------
(***************************************************************************)
(* internal/sync with internal/iceberg/writer.go: the loop of uv-sync that   *)
(* copies warehouse tables to Iceberg and records what it did in             *)
(* synced_tables, while the warehouses insert rows and the API changes the   *)
(* same synced_tables rows (replay, upsert, promote).                        *)
(*                                                                           *)
(* The warehouse, the Iceberg copy and the synced_tables row are read and    *)
(* written one after the other, every call may fail, and the process may     *)
(* stop between any two of them. One customer: uv-sync is a singleton, and a *)
(* customer's tables are synced one at a time.                               *)
(***************************************************************************)
EXTENDS Integers, Sequences, FiniteSets

CONSTANTS
  Tables,      \* the customer's rows of synced_tables
  Warehouse,   \* warehouse_type of the connection of each table
  Added,       \* the sync_modes and watermark columns with which the tables may have been added
  MaxRows,     \* bound: rows inserted into one source table
  MaxInserts,  \* bound: rows inserted into all of them
  MaxTime,     \* bound: the clock
  MaxRequests, \* bound: API requests
  MaxFaults,   \* bound: failing calls and crashes
  None,        \* Go's nil
  Unparsable   \* a last_watermark that parseWatermark rejects

Warehouses == {"bigquery", "snowflake", "databricks"}

Modes == {"full", "watermark"}   \* "full" is cdc_native and manual

ASSUME WarehouseAssumption == Warehouse \in [Tables -> Warehouses]
ASSUME AddedAssumption == Added \subseteq [Tables -> [mode : Modes, col : BOOLEAN]]
ASSUME SyncBoundsAssumption ==
  /\ MaxRows \in Nat /\ MaxInserts \in Nat /\ MaxTime \in Nat /\ MaxRequests \in Nat /\ MaxFaults \in Nat
ASSUME NotValues ==
  None \notin Nat \cup Tables /\ Unparsable \notin Nat /\ None # Unparsable

VARIABLES
  now,       \* wall clock, in the seconds that a stored watermark keeps
  src,       \* source tables: the watermark column of each row, in insertion order
  copy,      \* source rows that are in the Iceberg table
  row,       \* synced_tables
  pc,        \* where the syncer is
  conns,     \* connections the tick has not come to
  work,      \* <<table, row>> as ListSyncedTables returned them, not synced yet
  cur,       \* the table being synced, None between syncs
  old,       \* its row as listed
  result,    \* rows the query job returns
  buf,       \* rows in the temporary file
  count,     \* changeCount of a stream, rows read of a query
  requests,  \* API requests so far
  faults     \* faults so far

storeVars == <<copy, row>>
tickVars == <<conns, work>>
syncVars == <<cur, old, result, buf, count>>
vars == <<now, src, storeVars, pc, tickVars, syncVars, requests, faults>>

Rows == 1..MaxRows
States == {"pending", "live", "error"}
Watermarks == Nat \cup {None, Unparsable}
SyncedTable == [state : States, mode : Modes, col : BOOLEAN, watermark : Watermarks]
PCs == {"idle", "loop", "begin", "append", "parquet", "commit", "run", "read", "mark", "fail"}
Streamed == {t \in Tables : Warehouse[t] = "snowflake"}
Queried == {t \in Tables : Warehouse[t] = "bigquery"}
TablesOf(c) == {t \in Tables : Warehouse[t] = c}

\* The rows of source table t.
Visible(t) == 1..Len(src[t])

Goto(from, to) == pc = from /\ pc' = to
Fault == faults < MaxFaults /\ faults' = faults + 1

\* syncTable returns (or never will) and its locals are gone.
Forget ==
  cur' = None /\ old' = None /\ result' = {} /\ buf' = {} /\ count' = 0

-----------------------------------------------------------------------------

\* Tables have been added through the API; no tick has run.
Init ==
  /\ now = 1
  /\ src = [t \in Tables |-> <<>>]
  /\ copy = [t \in Tables |-> {}]
  /\ \E a \in Added :
       row = [t \in Tables |-> [state |-> "pending", mode |-> a[t].mode, col |-> a[t].col, watermark |-> None]]
  /\ pc = "idle"
  /\ conns = {} /\ work = {}
  /\ cur = None /\ old = None /\ result = {} /\ buf = {} /\ count = 0
  /\ requests = 0 /\ faults = 0

-----------------------------------------------------------------------------
(* The world: time, the warehouse, the API.                                  *)

Clock ==
  /\ now < MaxTime
  /\ now' = now + 1
  /\ UNCHANGED <<src, storeVars, pc, tickVars, syncVars, requests, faults>>

Insert(t) ==
  /\ Len(src[t]) < MaxRows /\ Cardinality(UNION {{u} \X Visible(u) : u \in Tables}) < MaxInserts
  /\ src' = [src EXCEPT ![t] = Append(@, now)]
  /\ UNCHANGED <<now, storeVars, pc, tickVars, syncVars, requests, faults>>

Request(t, r) ==
  /\ requests < MaxRequests
  /\ requests' = requests + 1
  /\ row' = [row EXCEPT ![t] = r]
  /\ UNCHANGED <<now, src, copy, pc, tickVars, syncVars, faults>>

\* A column whose name does not look temporal takes any string.
syncReplay(t, w) ==
  /\ row[t].col
  /\ Request(t, [row[t] EXCEPT !.watermark = w, !.state = "pending"])

\* createSyncedTable for a table that exists.
UpsertSyncedTable(t, m, c) ==
  Request(t, [row[t] EXCEPT !.mode = m, !.col = c])

workbenchPromote(t) ==
  Request(t, [row[t] EXCEPT !.mode = "watermark", !.state = "pending"])

-----------------------------------------------------------------------------
(* The tick: connections, then the tables of each.                           *)

Tick ==
  /\ Goto("idle", "loop")
  /\ conns' = {Warehouse[t] : t \in Tables}
  /\ work' = {}
  /\ UNCHANGED <<now, src, storeVars, syncVars, requests, faults>>

\* Only tables of some states are listed.
ListStates(c, states) ==
  /\ pc = "loop" /\ work = {} /\ c \in conns
  /\ conns' = conns \ {c}
  /\ work' = {<<t, row[t]>> : t \in {u \in TablesOf(c) : row[u].state \in states}}
  /\ UNCHANGED <<now, src, storeVars, pc, syncVars, requests, faults>>


ListOnlyLive(c) == ListStates(c, {"live"})

ListSyncedTables(c) ==
  /\ pc = "loop" /\ work = {} /\ c \in conns
  /\ conns' = conns \ {c}
  /\ work' = {<<t, row[t]>> : t \in TablesOf(c)}
  /\ UNCHANGED <<now, src, storeVars, pc, syncVars, requests, faults>>

\* An error of ListConnections or ListSyncedTables ends the customer's tick.
ListFails ==
  /\ Goto("loop", "idle") /\ work = {} /\ conns # {}
  /\ conns' = {} /\ Fault
  /\ UNCHANGED <<now, src, storeVars, work, syncVars, requests>>

TickDone ==
  /\ Goto("loop", "idle") /\ work = {} /\ conns = {}
  /\ UNCHANGED <<now, src, storeVars, tickVars, syncVars, requests, faults>>

\* The two warehouses swapped.
syncTableSwapped(t, r) ==
  /\ pc = "loop" /\ <<t, r>> \in work
  /\ work' = work \ {<<t, r>>}
  /\ cur' = t /\ old' = r
  /\ pc' = IF Warehouse[t] = "bigquery" THEN "begin" ELSE "run"
  /\ UNCHANGED <<now, src, storeVars, conns, result, buf, count, requests, faults>>

syncTable(t, r) ==
  /\ pc = "loop" /\ <<t, r>> \in work
  /\ work' = work \ {<<t, r>>}
  /\ cur' = t /\ old' = r
  /\ pc' = CASE Warehouse[t] = "bigquery" -> "run"
             [] Warehouse[t] = "snowflake" -> "begin"
             [] OTHER -> "fail"
  /\ UNCHANGED <<now, src, storeVars, conns, result, buf, count, requests, faults>>

\* An error return before anything was written.
SyncFails ==
  /\ pc \in {"begin", "append", "run", "read"}
  /\ pc' = "fail" /\ Fault
  /\ UNCHANGED <<now, src, storeVars, tickVars, syncVars, requests>>

\* The process stops; an open transaction is rolled back.
Crash ==
  /\ pc # "idle"
  /\ pc' = "idle" /\ Fault
  /\ conns' = {} /\ work' = {} /\ Forget
  /\ UNCHANGED <<now, src, storeVars, requests>>

-----------------------------------------------------------------------------
(* syncSnowflakeTable: begin, count, append to Iceberg, commit, mark.        *)

\* What the stream of t holds: every change since it was created. Only DML consumes a
\* stream, and nothing in this code issues any (external).
Stream(t) == Visible(t)

\* No credentials, a failing ping, or a count that cannot be read (it stays 0): the
\* table is skipped without an error.
SnowflakeUnavailable ==
  /\ Goto("begin", "loop")
  /\ Fault /\ Forget
  /\ UNCHANGED <<now, src, storeVars, tickVars, requests>>

\* The transaction counts the changes; it issues no other statement.
SnowflakeBegin ==
  /\ Goto("begin", "append")
  /\ Stream(cur) # {}
  /\ count' = Cardinality(Stream(cur))
  /\ UNCHANGED <<now, src, storeVars, tickVars, cur, old, result, buf, requests, faults>>

SnowflakeNoChanges ==
  /\ Goto("begin", "loop")
  /\ Stream(cur) = {}
  /\ Forget
  /\ UNCHANGED <<now, src, storeVars, tickVars, requests, faults>>

\* COPY puts rows into the Iceberg table, next to what is there or in its place (which
\* of the two a COPY without OVERWRITE does is DuckDB's affair).
Write(rows) == \E kept \in {{}, copy[cur]} : copy' = [copy EXCEPT ![cur] = kept \cup rows]

\* A failing append is logged only, as BigQuery's is.
SnowflakeAppendSwallowed ==
  /\ pc \in {"append", "parquet"} /\ pc' = "commit"
  /\ UNCHANGED <<now, src, storeVars, tickVars, syncVars, requests, faults>>

\* Only the changes since the last sync are read.
SnowflakeAppendSince ==
  /\ pc \in {"append", "parquet"} /\ pc' = "commit"
  /\ Write({i \in Stream(cur) : old.watermark = None \/ src[cur][i] > old.watermark})
  /\ UNCHANGED <<now, src, row, tickVars, syncVars, requests, faults>>

\* Append: the writer's own DuckDB reads the stream, as it is now and outside the
\* Snowflake transaction. Whether it knows a table of that name is external: NewWriter
\* attaches nothing, so that as deployed both attempts fail.
SnowflakeAppend ==
  /\ pc \in {"append", "parquet"} /\ pc' = "commit"
  /\ Write(Stream(cur))
  /\ UNCHANGED <<now, src, row, tickVars, syncVars, requests, faults>>

\* Whatever fails in the first COPY (the extension is missing, the stream is unknown,
\* S3 refuses), a second one is tried with FORMAT parquet.
IcebergFails ==
  /\ Goto("append", "parquet")
  /\ UNCHANGED <<now, src, storeVars, tickVars, syncVars, requests, faults>>

ParquetFails ==
  /\ Goto("parquet", "fail")
  /\ UNCHANGED <<now, src, storeVars, tickVars, syncVars, requests, faults>>

\* Committing a transaction that has read only: the stream stays as it is.
SnowflakeCommit ==
  /\ Goto("commit", "mark")
  /\ UNCHANGED <<now, src, storeVars, tickVars, syncVars, requests, faults>>

SnowflakeCommitFails ==
  /\ Goto("commit", "fail")
  /\ Fault
  /\ UNCHANGED <<now, src, storeVars, tickVars, syncVars, requests>>

-----------------------------------------------------------------------------
(* syncBigQueryTable: query, drain the iterator into a file, overwrite.      *)

\* The rows of t that a job selects by the watermark wm; a full load has none.
Selected(t, mode, wm) ==
  IF mode = "full" \/ wm = None THEN Visible(t) ELSE {i \in Visible(t) : src[t][i] > wm}

BigQueryRun ==
  /\ Goto("run", "read")
  /\ old.mode = "full" \/ old.watermark # Unparsable
  /\ result' = Selected(cur, old.mode, old.watermark)
  /\ buf' = {} /\ count' = 0
  /\ UNCHANGED <<now, src, storeVars, tickVars, cur, old, requests, faults>>

parseWatermarkFails ==
  /\ Goto("run", "fail")
  /\ old.mode = "watermark" /\ old.watermark = Unparsable
  /\ UNCHANGED <<now, src, storeVars, tickVars, syncVars, requests, faults>>

BigQueryNext ==
  /\ pc = "read"
  /\ \E i \in result \ buf : buf' = buf \cup {i}
  /\ count' = count + 1
  /\ UNCHANGED <<now, src, storeVars, pc, tickVars, cur, old, result, requests, faults>>

\* The caller of streamToIceberg: an empty increment is not recorded.
AfterStream ==
  IF old.mode = "watermark" /\ count = 0
    THEN pc' = "loop" /\ Forget
    ELSE pc' = "mark" /\ UNCHANGED syncVars

\* An iterator error ends the loop like the end of the rows.
BigQueryOverwriteEarly ==
  /\ pc = "read"
  /\ copy' = [copy EXCEPT ![cur] = buf]
  /\ AfterStream
  /\ UNCHANGED <<now, src, row, tickVars, requests, faults>>

BigQueryOverwrite ==
  /\ pc = "read" /\ buf = result
  /\ copy' = [copy EXCEPT ![cur] = buf]
  /\ AfterStream
  /\ UNCHANGED <<now, src, row, tickVars, requests, faults>>

\* A failing CreateTableAs is logged, and the sync goes on.
BigQueryOverwriteFails ==
  /\ pc = "read" /\ buf = result
  /\ Fault
  /\ AfterStream
  /\ UNCHANGED <<now, src, storeVars, tickVars, requests>>

-----------------------------------------------------------------------------
(* MarkSyncedTableState, from the two ends of a sync.                        *)

MarkSyncedTableState(t, state, watermark) ==
  row' = [row EXCEPT ![t] = [row[t] EXCEPT !.state = state,
            !.watermark = IF watermark = None THEN row[t].watermark ELSE watermark]]

MarkLive ==
  /\ Goto("mark", "loop")
  /\ MarkSyncedTableState(cur, "live", now)
  /\ Forget
  /\ UNCHANGED <<now, src, copy, tickVars, requests, faults>>

MarkLiveFails ==
  /\ Goto("mark", "fail")
  /\ Fault
  /\ UNCHANGED <<now, src, storeVars, tickVars, syncVars, requests>>

markError ==
  /\ Goto("fail", "loop")
  /\ MarkSyncedTableState(cur, "error", None)
  /\ Forget
  /\ UNCHANGED <<now, src, copy, tickVars, requests, faults>>

\* The error of markError itself is dropped.
markErrorFails ==
  /\ Goto("fail", "loop")
  /\ Fault /\ Forget
  /\ UNCHANGED <<now, src, storeVars, tickVars, requests>>

-----------------------------------------------------------------------------

Syncer ==
  \/ Tick \/ TickDone
  \/ \E c \in Warehouses : ListSyncedTables(c)
  \/ \E w \in work : syncTable(w[1], w[2])
  \/ SnowflakeBegin \/ SnowflakeNoChanges \/ SnowflakeAppend \/ IcebergFails
  \/ ParquetFails \/ SnowflakeCommit
  \/ BigQueryRun \/ parseWatermarkFails \/ BigQueryNext \/ BigQueryOverwrite
  \/ MarkLive \/ markError

Faults ==
  \/ ListFails \/ SyncFails \/ Crash \/ SnowflakeUnavailable \/ SnowflakeCommitFails
  \/ BigQueryOverwriteFails \/ MarkLiveFails \/ markErrorFails

API ==
  \E t \in Tables :
    \/ \E w \in (0..now) \cup {Unparsable} : syncReplay(t, w)
    \/ \E m \in Modes, c \in BOOLEAN : UpsertSyncedTable(t, m, c)
    \/ workbenchPromote(t)

World == Clock \/ \E t \in Streamed \cup Queried : Insert(t)   \* what no one reads may as well be empty

Next == Syncer \/ Faults \/ API \/ World

\* The ticker keeps ticking and the goroutine runs; nothing else is promised.
Spec == Init /\ [][Next]_vars /\ WF_vars(Syncer)

-----------------------------------------------------------------------------
(* Properties.                                                               *)

\* Every variable has its type; a sync that has begun has a table of the right warehouse.
TypeOK ==
  /\ now \in Nat \ {0}
  /\ src \in [Tables -> Seq(Nat \ {0})] /\ \A t \in Tables : Len(src[t]) <= MaxRows
  /\ copy \in [Tables -> SUBSET Rows]
  /\ row \in [Tables -> SyncedTable]
  /\ pc \in PCs /\ conns \subseteq Warehouses /\ work \subseteq (Tables \X SyncedTable)
  /\ cur \in Tables \cup {None} /\ old \in SyncedTable \cup {None}
  /\ result \subseteq Rows /\ buf \subseteq result
  /\ count \in Nat /\ requests \in 0..MaxRequests /\ faults \in 0..MaxFaults
  /\ pc \notin {"idle", "loop"} => cur \in Tables /\ old \in SyncedTable
  /\ pc \in {"begin", "append", "parquet", "commit"} => cur \in Streamed
  /\ pc \in {"run", "read"} => cur \in Queried

\* When syncSnowflakeTable gets to MarkSyncedTableState, the changes that it counted in
\* the Snowflake transaction are in the Iceberg table, although another database read
\* them, later, in up to two attempts; and a Snowflake table that is shown as live has rows.
CountedIsCopied ==
  \A t \in Streamed :
    /\ pc = "mark" /\ cur = t => 1..count \subseteq copy[t]
    /\ row[t].state = "live" => copy[t] # {}

\* No step takes rows out of the Iceberg table of a stream: neither a second attempt, nor
\* a failure between append and commit, nor an append that replaces what was there.
StreamKept == [][\A t \in Streamed : copy[t] \subseteq copy'[t]]_vars

\* An Iceberg table written by syncBigQueryTable is the whole answer of one query
\* (all rows of some moment after some watermark), never part of one: an iterator that
\* fails half-way, a crash and a failing write leave the table as it was.
NeverPartial ==
  \A t \in Queried : \E n \in 0..Len(src[t]), w \in 0..now :
    copy[t] = {i \in 1..n : src[t][i] > w}


\* A fully loaded BigQuery table that is new or was asked to replay does not stay
\* pending: the next ticks load it or record an error.
PendingPickedUp ==
  \A t \in Queried : []<>(row[t].mode # "full" \/ row[t].state # "pending")
=============================================================================
