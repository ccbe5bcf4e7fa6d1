--------------------------------- MODULE Spend ---------------------------------
(***************************************************************************)
(* What queries cost: query_log rows written by the proxy and the           *)
(* workbench, the hourly backfiller of internal/cost that looks up what a   *)
(* warehouse charged and rolls a day up into cost_attribution, the same     *)
(* rollup run by a workbench request, and the reports that read the         *)
(* figures (the gates are in Gates).  One customer: every statement is      *)
(* scoped by customer_id.  Amounts are small naturals, a time unit is an    *)
(* hour, and every query of the model has the same text.  The reads of a    *)
(* handler that writes nothing are taken together.                          *)
(***************************************************************************)
EXTENDS ApiRequests, FiniteSetsExt

CONSTANTS
  Conns,        \* warehouse types of the customer's connections, newest first
  Served,       \* the connections whose warehouse the customer's sessions name
  Cron,         \* the backfiller of uv-sync
  Costs,        \* what a warehouse may charge for a query
  DayLen,       \* hours of a day
  Start,        \* hours of the first day that have passed when the clock starts
  MaxRows,      \* bound: rows of query_log
  LookupLimit, EstimateLimit,  \* rows a tick takes up at most: 1000 and 2000
  Size          \* external: what the table's row_count amounts to, at a rate of 1

ASSUME SpendAssumption ==
  /\ DayLen \in Nat \ {0}
  /\ Start \in 0 .. DayLen - 1
  /\ MaxRows \in Nat /\ {LookupLimit, EstimateLimit} \subseteq Nat \ {0}
  /\ Costs \subseteq Nat
  /\ Size \in Nat
  /\ Conns \in Seq(STRING) /\ Conns # <<>> /\ Served \subseteq DOMAIN Conns
  /\ Cron \notin Handlers

VARIABLES
  log,          \* table query_log, in the order of started_at
  bill,         \* external: the latest charge of each warehouse in each hour, None when it has none
  attribution,  \* table cost_attribution: a row, or None, for each connection and day
  task          \* the backfiller and each workbench request

spendVars == <<log, bill, attribution, task>>
vars == <<api, spendVars>>

Procs == Handlers \cup {Cron}
Ids == DOMAIN Conns
Day(t) == (t + Start) \div DayLen
Days == 0 .. Day(MaxTime)
Routes == {"duckdb", "warehouse", "fallback", "error"}
Idle == [pc |-> "idle", todo |-> {}, conn |-> 0, sums |-> None]
Figures == [total : Nat, duck : Nat, wh : Nat, dd : Nat, savings : Nat]

Tasks == [pc : {"idle", "lookup", "select", "estimate", "sum", "write"}, todo : SUBSET DOMAIN log,
          conn : {0} \cup Ids, sums : {None} \cup Figures]

(* only the backfiller looks charges up, a rollup has a connection and, once it has read them, sums *)
TaskOK(p, t) ==
  /\ t \in Tasks
  /\ t.pc \in {"sum", "write"} <=> t.conn # 0
  /\ t.pc = "write" => t.sums \in Figures
  /\ t.pc = "lookup" => p = Cron

TypeOK ==
  /\ ApiTypeOK
  /\ log \in Seq([conn : {0} \cup Ids, route : Routes, at : 0 .. now, key : BOOLEAN,
                  est : {None} \cup Nat, actual : {None} \cup Nat])
  /\ Len(log) <= MaxRows
  /\ bill \in [Ids -> [0 .. MaxTime -> {None} \cup Costs]]
  /\ attribution \in [Ids -> [Days -> {None} \cup Figures]]
  /\ task \in [Procs -> Tasks]
  /\ \A p \in Procs : TaskOK(p, task[p])

Init ==
  /\ ApiInit
  /\ log = <<>>
  /\ bill = [c \in Ids |-> [t \in 0 .. MaxTime |-> None]]
  /\ attribution = [c \in Ids |-> [d \in Days |-> None]]
  /\ task = [p \in Procs |-> Idle]

Set(p, t) == task' = [task EXCEPT ![p] = t]

-----------------------------------------------------------------------------
(* Sums over the log, unit by unit.  A NULL amount counts as zero: SUM skips *)
(* it.                                                                       *)
Amount(a) == IF a = None THEN 0 ELSE a
Units(rows, f(_)) == UNION {{i} \X (1 .. Amount(f(log[i]))) : i \in rows}
Total(rows, f(_)) == Cardinality(Units(rows, f))
Actual(r) == r.actual
Estimate(r) == r.est
Ran(routes) == {i \in DOMAIN log : log[i].route \in routes}
Charged == {i \in DOMAIN log : log[i].actual # None}
Warehouse == {"warehouse", "fallback"}
Last24h == {i \in DOMAIN log : log[i].at + DayLen > now}

(* the SELECT of rollup: the rows of connection c on day d *)
Sums(c, d) ==
  LET rows == {i \in DOMAIN log : log[i].conn = c /\ Day(log[i].at) = d}
      duck == rows \cap Ran({"duckdb"})
  IN  [total |-> Cardinality(rows), duck |-> Cardinality(duck),
       wh |-> Total(rows \cap Ran(Warehouse), Actual),
       dd |-> Total(duck, Actual),
       savings |-> Total(duck, Estimate) - Total(duck, Actual)]

-----------------------------------------------------------------------------
(* Queries.  A statement of the proxy is logged with its API key and no      *)
(* cost; one that ends in an error has no connection; a failed insert is     *)
(* ignored.  What the warehouse runs it charges for.                         *)
InsertQueryLog(c, route, key, est) ==
  log' = Append(log, [conn |-> c, route |-> route, at |-> now, key |-> key, est |-> est, actual |-> None])

Charge(c, cost) == bill' = [bill EXCEPT ![c][now] = cost]

Query(c, route, cost) ==
  /\ Len(log) < MaxRows
  /\ IF route = "duckdb" THEN UNCHANGED bill ELSE Charge(c, cost)
  /\ \/ Works /\ InsertQueryLog(IF route = "error" THEN 0 ELSE c, route, TRUE, None)
     \/ Fails /\ route = "duckdb" /\ InsertQueryLog(0, route, TRUE, None)      \* activeConnectionID
     \/ Fails /\ UNCHANGED log
  /\ Silent /\ UNCHANGED <<calls, now, attribution, task>>

(* Pool.ExecuteRows gives an error: of the worker, of the query or of its rows *)
ExecuteRowsFails == Works /\ UNCHANGED <<log, task>> /\ Answer("workbenchRun", 400, None)

(* The workbench: a DuckDB query priced at the BigQuery rate, logged under   *)
(* the newest connection, then rolled up at once. When its connection   *)
(* cannot be read, or the insert fails, nothing is rolled up.                *)
workbenchRun(h, est) ==
  /\ Len(log) < MaxRows
  /\ Call
  /\ \/ ExecuteRowsFails
     \/ /\ Works
        /\ InsertQueryLog(1, "duckdb", FALSE, est)
        /\ Set(h, [Idle EXCEPT !.pc = "select"]) /\ Silent
     \/ /\ Fails                                                                  \* ListConnections
        /\ InsertQueryLog(0, "duckdb", FALSE, est)
        /\ UNCHANGED task /\ Answer("workbenchRun", 200, est)
     \/ Fails /\ UNCHANGED <<log, task>> /\ Answer("workbenchRun", 200, est)      \* InsertQueryLog
  /\ UNCHANGED <<bill, attribution>>

-----------------------------------------------------------------------------
(* The backfiller.                                                           *)
Newest(rows, n) == {i \in rows : Cardinality({j \in rows : j > i}) < n}      \* ORDER BY started_at DESC LIMIT n

Pending == Newest({i \in Last24h : log[i].actual = None /\ log[i].route \in Warehouse}, LookupLimit)

Unestimated == Newest({i \in Last24h : log[i].est = None /\ log[i].route # "error"}, EstimateLimit)

(* mutant: a tick with nothing to look up ends there *)
tickOnlyPending ==
  /\ task[Cron].pc = "idle"
  /\ Works /\ Pending # {} /\ Set(Cron, [Idle EXCEPT !.pc = "lookup", !.todo = Pending])
  /\ Silent /\ UNCHANGED <<calls, now, log, bill, attribution>>

tick ==                                  \* a failed select ends the tick
  /\ task[Cron].pc = "idle"
  /\ \/ Works /\ Set(Cron, [Idle EXCEPT !.pc = IF Pending = {} THEN "select" ELSE "lookup", !.todo = Pending])
     \/ Fails /\ UNCHANGED task
  /\ Silent /\ UNCHANGED <<calls, now, log, bill, attribution>>

Advance(p, i, next) ==
  LET rest == task[p].todo \ {i}
  IN  [task[p] EXCEPT !.todo = rest, !.pc = IF rest = {} THEN next ELSE @, !.conn = IF rest = {} /\ next = "sum" THEN 1 ELSE 0]

(* The latest charge of the newest connection of that type near started_at, *)
(* whichever query it is for: BigQuery without one costs 0, Snowflake        *)
(* without one is an error.                                                  *)
LookupCost(c, t) ==
  LET of == Min({k \in Ids : Conns[k] = Conns[c]})
  IN  IF bill[of][t] = None /\ Conns[of] = "bigquery" THEN 0 ELSE bill[of][t]

(* one pending row: the lookup and the update of what it found *)
lookup(p) ==
  /\ task[p].pc = "lookup"
  /\ LET i == Max(task[p].todo)
         cost == LookupCost(log[i].conn, log[i].at)
     IN  \/ /\ Works
            /\ log' = IF cost = None THEN log ELSE [log EXCEPT ![i].actual = cost]
            /\ Set(p, Advance(p, i, "select"))
         \/ Fails /\ Set(p, Advance(p, i, "select")) /\ UNCHANGED log              \* the lookup or the UPDATE
         \/ Fails /\ Set(p, Idle) /\ UNCHANGED log                                \* ListConnections
  /\ Silent /\ UNCHANGED <<calls, now, bill, attribution>>

CostForBytes(warehouse, n) == IF warehouse = "snowflake" THEN 2 * n ELSE n

EstimateSQL(c) == CostForBytes(IF c = 0 THEN "bigquery" ELSE Conns[c], Size)

selectUnestimated(p) ==                  \* a failed select is logged: the rollup goes on
  /\ task[p].pc = "select"
  /\ \/ /\ Works
        /\ Set(p, IF Unestimated = {} THEN [Idle EXCEPT !.pc = "sum", !.conn = 1]
                  ELSE [Idle EXCEPT !.pc = "estimate", !.todo = Unestimated])
     \/ Fails /\ Set(p, [Idle EXCEPT !.pc = "sum", !.conn = 1])
  /\ Silent /\ UNCHANGED <<calls, now, log, bill, attribution>>

backfillEstimatedCost(p) ==
  /\ task[p].pc = "estimate"
  /\ LET i == Max(task[p].todo)
     IN  /\ \/ Works /\ log' = [log EXCEPT ![i].est = EstimateSQL(log[i].conn)]
            \/ Fails /\ UNCHANGED log
         /\ Set(p, Advance(p, i, "sum"))
  /\ Silent /\ UNCHANGED <<calls, now, bill, attribution>>

(* rollup, one connection after the other; an error ends it, and a workbench *)
(* request answers either way                                                *)
EndRollup(p) ==
  /\ Set(p, Idle)
  /\ IF p = Cron THEN Silent ELSE Answer("workbenchRun", 200, None)

rollupSelect(p) ==
  /\ task[p].pc = "sum"
  /\ \/ /\ Works
        /\ Set(p, [task[p] EXCEPT !.pc = "write", !.sums = Sums(task[p].conn, Day(now))])
        /\ Silent
     \/ Fails /\ EndRollup(p)
  /\ UNCHANGED <<calls, now, log, bill, attribution>>

(* mutant: the upsert adds to the row *)
UpsertAdds(c, d, sums) ==
  attribution' = [attribution EXCEPT ![c][d] = IF @ = None THEN sums ELSE [f \in DOMAIN sums |-> @[f] + sums[f]]]

Upsert(c, d, sums) == attribution' = [attribution EXCEPT ![c][d] = sums]

rollupUpsert(p) ==                       \* the period is of the time of the upsert
  /\ task[p].pc = "write"
  /\ \/ /\ Works
        /\ Upsert(task[p].conn, Day(now), task[p].sums)
        /\ IF task[p].conn = Len(Conns) THEN EndRollup(p)
           ELSE Set(p, [Idle EXCEPT !.pc = "sum", !.conn = task[p].conn + 1]) /\ Silent
     \/ Fails /\ EndRollup(p) /\ UNCHANGED attribution
  /\ UNCHANGED <<calls, now, log, bill>>

Backfill(p) ==
  lookup(p) \/ selectUnestimated(p) \/ backfillEstimatedCost(p) \/ rollupSelect(p) \/ rollupUpsert(p)

Stop(p) ==                               \* uv-sync stops, or the request's client goes away
  /\ task[p].pc # "idle"
  /\ Fails
  /\ Set(p, Idle)
  /\ Silent /\ UNCHANGED <<calls, now, log, bill, attribution>>

-----------------------------------------------------------------------------
(* Reports.                                                                  *)
Ask(op, body) == (Serve(op, 200, body) \/ Refuse(op)) /\ UNCHANGED spendVars

queryAnalytics ==
  LET of(r) == Last24h \cap Ran({r})
  IN  Ask("queryAnalytics", {<<r, Cardinality(of(r)), Total(of(r), Actual), Total(of(r), Estimate)>> :
                               r \in {x \in Routes : of(x) # {}}})

Rollups(days) == {<<x[1], x[2], attribution[x[1]][x[2]]>> : x \in {y \in Ids \X days : attribution[y[1]][y[2]] # None}}

savings == Ask("savings", Rollups(Days))

(* by api_key; grouped by user or dashboard every row is unattributed *)
spendBreakdown ==
  LET of(k) == {i \in Charged : log[i].key = k}
  IN  Ask("spendBreakdown", {<<k, Total(of(k), Actual), Cardinality(of(k))>> : k \in {x \in BOOLEAN : of(x) # {}}})

(* the days with a charge; fewer than two are not enough for the regression *)
costForecast ==
  LET samples == {Day(log[i].at) : i \in Charged}
  IN  Ask("costForecast", <<IF Cardinality(samples) < 2 THEN "insufficient" ELSE "ols-linear-60d", Cardinality(samples)>>)

(* rolled-up days that have ended, or when there are none the log by day *)
costAttributionCSV ==
  LET ended == {d \in Days : (d + 1) * DayLen <= now + Start}
      all(d) == {i \in DOMAIN log : Day(log[i].at) = d}
  IN  Ask("costAttributionCSV",
          IF Rollups(ended) # {} THEN Rollups(ended)
          ELSE {<<d, Cardinality(all(d)), Total(all(d) \cap Ran(Warehouse), Actual),
                  Total(all(d) \cap Ran({"duckdb"}), Estimate)>> : d \in {x \in Days : all(x) # {}}})

Next ==
  \/ \E c \in Served, r \in Routes, cost \in Costs : Query(c, r, cost)
  \/ \E h \in Free({x \in Handlers : task[x].pc = "idle"}), est \in Costs : workbenchRun(h, est)
  \/ tick
  \/ \E p \in Procs : Backfill(p) \/ Stop(p)
  \/ queryAnalytics \/ savings \/ spendBreakdown \/ costForecast \/ costAttributionCSV
  \/ Clock /\ UNCHANGED spendVars

(* the hourly ticker fires again and again, and a tick goes on once it has begun *)
Spec == Init /\ [][Next]_vars /\ WF_vars(tick \/ Backfill(Cron))

-----------------------------------------------------------------------------
(* figures that are at most what the log holds for connection c on day d *)
BackedBy(sums, c, d) == sums.total <= Sums(c, d).total /\ sums.duck <= Sums(c, d).duck /\ sums.wh <= Sums(c, d).wh

(* No figure of cost_attribution is made up: whatever rollups overlap, fail, *)
(* or read before midnight and write after it, a row's counts and warehouse  *)
(* cost are at most what the log holds for its own day, or for an earlier    *)
(* one, and no query is counted twice.                                       *)
AttributionBacked ==
  \A c \in Ids, d \in Days :
    attribution[c][d] # None => \E e \in 0 .. d : BackedBy(attribution[c][d], c, e)

(* Once queries, faults and the clock rest, today's row of every connection  *)
(* equals today's log and every query a warehouse ran today has a cost: a    *)
(* stale rollup that overwrites a newer one does not last, and what a tick's *)
(* limits leave out a later tick takes up.                                   *)
TodayConverges ==
  <>[](/\ \A c \in Ids : attribution[c][Day(now)] = Sums(c, Day(now))
       /\ \A i \in Ran(Warehouse) : Day(log[i].at) = Day(now) => log[i].actual # None)
=============================================================================
