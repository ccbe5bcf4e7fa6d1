------------------------------ MODULE QueryHandler ------------------------------
(***************************************************************************)
(* internal/proxy/handler.go with what a statement goes through: the pool   *)
(* of DuckDB workers (internal/workers/pool.go), the cache of warehouse     *)
(* connectors (internal/connectors), the response written while rows        *)
(* arrive, the query_log row and the lineage queue; and Handler.Close,      *)
(* which main calls while statements of a forced shutdown still run.        *)
(*                                                                          *)
(* Which engine Decide picks and what rows an engine returns are chosen     *)
(* freely; every engine, the rewriter and the database may fail.            *)
(***************************************************************************)
EXTENDS Naturals, Sequences, FiniteSets

CONSTANTS
  Sessions,    \* goroutines in execute, one statement at a time
  Main,        \* the goroutine that calls Close
  Idents,      \* pairs <<customer, warehouse type>> a session may belong to
  MaxRows,     \* bound: rows an engine sends for one statement of each session
  MaxStmts,    \* bound: statements of one session
  LineageCap,  \* capacity of lineageCh (256 in the code)
  None         \* Go's nil

ASSUME NamesAssumption == None \notin Sessions \cup {Main} /\ Main \notin Sessions
ASSUME BoundsAssumption == MaxRows \in [Sessions -> Nat] /\ MaxStmts \in Nat /\ LineageCap \in Nat

Customers == {i[1] : i \in Idents}

VARIABLES
  ident,      \* Session.Identity
  pc,         \* where execute is
  nstmts,     \* statements started
  done,       \* the statement's context is done (deadline, cancel, shutdown)
  gone,       \* a write to the client has failed, and every further one will
  stalled,    \* execute is in a write to a client that does not read
  resp,       \* the messages written for the current statement
  route,      \* routeUsed
  ret,        \* what connectorFor was called for: "run" or "log"
  logged,     \* route_decision of the query_log rows of the current statement
  poolMu,     \* holder of Pool.mu, None when free
  poolClosed, \* Pool.closed
  workers,    \* customers with a DuckDB worker
  connMu,     \* write holder of Handler.mu, None when free
  conns,      \* keys of connsByCustomer
  opened,     \* history: connectors the factory has opened for each key
  connClosed, \* keys whose connector has been closed
  lineageCh,  \* the queue of captureLineage: the customers of its jobs
  quit,       \* lineageQuit is closed
  consumer,   \* the lineage consumer is running
  close       \* Handler.Close: "not called", "called", "conns closed", "returned"

stmtVars == <<nstmts, done, gone, stalled, resp, route, ret, logged>>
poolVars == <<poolMu, poolClosed, workers>>
connVars == <<connMu, conns, opened, connClosed>>
lineageVars == <<lineageCh, quit, consumer>>
vars == <<ident, pc, stmtVars, poolVars, connVars, lineageVars, close>>

PCs == {"idle", "rewrite", "workerFor", "creating", "duckdb", "duckRows", "connectorFor",
        "connLock", "opening", "warehouse", "whRows", "error", "log"}
ErrorMsg == [m |-> "E", by |-> "proxy"]
Msgs == [m : {"T", "D", "C"}, by : {"duckdb", "warehouse"}] \cup {ErrorMsg}

Cust(s) == ident[s][1]
Warehouse(s) == ident[s][2]

Goto(s, from, to) == pc[s] = from /\ ~stalled[s] /\ pc' = [pc EXCEPT ![s] = to]

\* A frame of engine e goes out (RowDescription T, DataRow D, CommandComplete C).
Write(s, m, e) ==
  /\ ~gone[s] /\ ~stalled[s]
  /\ resp' = [resp EXCEPT ![s] = Append(@, [m |-> m, by |-> e])]

RowsBy(s, e) == Cardinality({i \in DOMAIN resp[s] : resp[s][i] = [m |-> "D", by |-> e]})

-----------------------------------------------------------------------------

NewPool == poolMu = None /\ poolClosed = FALSE /\ workers = {}

Init ==
  /\ ident \in [Sessions -> Idents]
  /\ pc = [s \in Sessions |-> "idle"]
  /\ nstmts = [s \in Sessions |-> 0]
  /\ done = [s \in Sessions |-> FALSE]
  /\ gone = [s \in Sessions |-> FALSE]
  /\ stalled = [s \in Sessions |-> FALSE]
  /\ resp = [s \in Sessions |-> <<>>]
  /\ route = [s \in Sessions |-> "none"]
  /\ ret = [s \in Sessions |-> "run"]
  /\ logged = [s \in Sessions |-> <<>>]
  /\ NewPool
  /\ connMu = None /\ conns = {} /\ connClosed = {}
  /\ opened = [k \in Idents |-> 0]
  /\ lineageCh = <<>> /\ quit = FALSE /\ consumer = TRUE
  /\ close = "not called"

-----------------------------------------------------------------------------
(* The statement, its context and its client.                               *)

Start(s) ==
  /\ nstmts[s] < MaxStmts /\ ~gone[s]
  /\ Goto(s, "idle", "rewrite")
  /\ nstmts' = [nstmts EXCEPT ![s] = @ + 1]
  /\ resp' = [resp EXCEPT ![s] = <<>>]
  /\ logged' = [logged EXCEPT ![s] = <<>>]
  /\ UNCHANGED <<ident, done, gone, stalled, route, ret, poolVars, connVars, lineageVars, close>>

\* The 30 s deadline, a CancelRequest or the shutdown ends the context.
ContextDone(s) ==
  /\ pc[s] # "idle" /\ ~done[s]
  /\ done' = [done EXCEPT ![s] = TRUE]
  /\ UNCHANGED <<ident, pc, nstmts, gone, stalled, resp, route, ret, logged,
                 poolVars, connVars, lineageVars, close>>

\* The client reads nothing, and rows have filled the socket's buffer and the
\* Writer's, in which a header or an error finds room: the write does not return,
\* for no connection has a deadline and the context is not looked at, until the
\* client reads again or the write fails.
ClientStalls(s) ==
  /\ pc[s] \in {"duckRows", "whRows"} /\ ~gone[s] /\ ~stalled[s]
  /\ stalled' = [stalled EXCEPT ![s] = TRUE]
  /\ UNCHANGED <<ident, pc, nstmts, done, gone, resp, route, ret, logged,
                 poolVars, connVars, lineageVars, close>>

ClientReads(s) ==
  /\ pc[s] # "idle" /\ stalled[s]
  /\ stalled' = [stalled EXCEPT ![s] = FALSE]
  /\ UNCHANGED <<ident, pc, nstmts, done, gone, resp, route, ret, logged,
                 poolVars, connVars, lineageVars, close>>

RewriteFails(s) ==
  /\ Goto(s, "rewrite", "error")
  /\ UNCHANGED <<ident, stmtVars, poolVars, connVars, lineageVars, close>>

\* A branch of the switch that does not set routeUsed.
RouteUnmarked(s, target) ==
  /\ Goto(s, "rewrite", IF target = "duckdb" THEN "workerFor" ELSE "connectorFor")
  /\ UNCHANGED <<ident, stmtVars, poolVars, connVars, lineageVars, close>>

\* The rewriter returns and Decide picks the target.
Route(s, target) ==
  /\ Goto(s, "rewrite", IF target = "duckdb" THEN "workerFor" ELSE "connectorFor")
  /\ route' = [route EXCEPT ![s] = target]
  /\ UNCHANGED <<ident, nstmts, done, gone, stalled, resp, ret, logged,
                 poolVars, connVars, lineageVars, close>>

-----------------------------------------------------------------------------
(* Pool.ExecuteStreaming.  An error from here makes execute run the         *)
(* statement again on the warehouse, into the same response.                *)

\* The fallback that forgets to change routeUsed.
FallBackUnmarked(s, from) == Goto(s, from, "connectorFor") /\ UNCHANGED route

FallBack(s, from) ==
  /\ Goto(s, from, "connectorFor")
  /\ route' = [route EXCEPT ![s] = "fallback"]

\* workerFor without the test of p.closed.
workerForUnchecked(s) ==
  /\ poolMu = None
  /\ \/ /\ Cust(s) \in workers
        /\ Goto(s, "workerFor", "duckdb")
        /\ UNCHANGED poolMu
     \/ /\ Cust(s) \notin workers
        /\ Goto(s, "workerFor", "creating")
        /\ poolMu' = s
  /\ UNCHANGED <<ident, stmtVars, poolClosed, workers, connVars, lineageVars, close>>

\* workerFor gets Pool.mu: the pool is closed, the worker is there, or it has to
\* be created with the lock held.
workerFor(s) ==
  /\ poolMu = None
  /\ \/ /\ poolClosed
        /\ FallBack(s, "workerFor")
        /\ UNCHANGED poolMu
     \/ /\ ~poolClosed /\ Cust(s) \in workers
        /\ Goto(s, "workerFor", "duckdb")
        /\ UNCHANGED <<route, poolMu>>
     \/ /\ ~poolClosed /\ Cust(s) \notin workers
        /\ Goto(s, "workerFor", "creating")
        /\ poolMu' = s
        /\ UNCHANGED route
  /\ UNCHANGED <<ident, nstmts, done, gone, stalled, resp, ret, logged,
                 poolClosed, workers, connVars, lineageVars, close>>

\* Under the statement's context; the optional extensions may be missing.
installExtensions(s) == ~done[s]

\* Extensions are installed and the catalog attached.
CreateWorker(s) ==
  /\ installExtensions(s)
  /\ Goto(s, "creating", "duckdb")
  /\ poolMu' = None
  /\ workers' = workers \cup {Cust(s)}
  /\ UNCHANGED <<ident, stmtVars, poolClosed, connVars, lineageVars, close>>

\* The error return that leaves Pool.mu locked.
CreateWorkerFailsLocked(s) ==
  /\ FallBack(s, "creating")
  /\ UNCHANGED <<ident, nstmts, done, gone, stalled, resp, ret, logged,
                 poolVars, connVars, lineageVars, close>>

CreateWorkerFails(s) ==
  /\ FallBack(s, "creating")
  /\ poolMu' = None
  /\ UNCHANGED <<ident, nstmts, done, gone, stalled, resp, ret, logged,
                 poolClosed, workers, connVars, lineageVars, close>>

\* QueryContext succeeds and the RowDescription is written.
DuckHeader(s) ==
  /\ ~done[s] /\ Cust(s) \in workers
  /\ Goto(s, "duckdb", "duckRows")
  /\ Write(s, "T", "duckdb")
  /\ UNCHANGED <<ident, nstmts, done, gone, stalled, route, ret, logged,
                 poolVars, connVars, lineageVars, close>>

DuckRow(s) ==
  /\ pc[s] = "duckRows" /\ RowsBy(s, "duckdb") < MaxRows[s]
  /\ Write(s, "D", "duckdb")
  /\ UNCHANGED <<ident, pc, nstmts, done, gone, stalled, route, ret, logged,
                 poolVars, connVars, lineageVars, close>>

\* The rows end and the CommandComplete is written; activeConnectionID is next.
DuckComplete(s) ==
  /\ Goto(s, "duckRows", "connectorFor")
  /\ Write(s, "C", "duckdb")
  /\ ret' = [ret EXCEPT ![s] = "log"]
  /\ UNCHANGED <<ident, nstmts, done, gone, stalled, route, logged,
                 poolVars, connVars, lineageVars, close>>

\* The query, the scan of a row or the iteration fails, at any point; or a write.
DuckFails(s) ==
  /\ FallBack(s, "duckdb") \/ FallBack(s, "duckRows")
  /\ UNCHANGED gone \/ gone' = [gone EXCEPT ![s] = TRUE]
  /\ UNCHANGED <<ident, nstmts, done, stalled, resp, ret, logged,
                 poolVars, connVars, lineageVars, close>>

-----------------------------------------------------------------------------
(* connectorFor: called to run the statement, and after a success to find   *)
(* the connection id for the log.                                           *)

GotConnector(s) == IF ret[s] = "run" THEN "warehouse" ELSE "log"
NoConnector(s) == IF ret[s] = "run" THEN "error" ELSE "log"

\* Under the read lock.
ReadConnector(s) ==
  /\ connMu = None
  /\ Goto(s, "connectorFor", IF ident[s] \in conns THEN GotConnector(s) ELSE "connLock")
  /\ UNCHANGED <<ident, stmtVars, poolVars, connVars, lineageVars, close>>

\* The write lock without a second look at the map.
LockConnectorsNoRecheck(s) ==
  /\ connMu = None
  /\ Goto(s, "connLock", "opening")
  /\ connMu' = s
  /\ UNCHANGED <<ident, stmtVars, poolVars, conns, opened, connClosed, lineageVars, close>>

\* Under the write lock: somebody else may have opened the connector meanwhile.
LockConnectors(s) ==
  /\ connMu = None
  /\ \/ /\ ident[s] \in conns
        /\ Goto(s, "connLock", GotConnector(s))
        /\ UNCHANGED connMu
     \/ /\ ident[s] \notin conns
        /\ Goto(s, "connLock", "opening")
        /\ connMu' = s
  /\ UNCHANGED <<ident, stmtVars, poolVars, conns, opened, connClosed, lineageVars, close>>

\* The connection's row, which is read under the statement's context.
GetConnectionForCustomer(s) == ~done[s]

\* BigQuery's client is made without a call; Snowflake is pinged; any other type of
\* warehouse is a stub whose ExecuteStreaming returns ErrNotImplemented.
NewBigQuery(s) == Warehouse(s) = "bigquery"
NewSnowflake(s) == Warehouse(s) = "snowflake" /\ ~done[s]
newStub(s) == Warehouse(s) \notin {"bigquery", "snowflake"}

\* Factory.For returns a connector; the lock was held all the time.
OpenConnector(s) ==
  /\ GetConnectionForCustomer(s)
  /\ NewBigQuery(s) \/ NewSnowflake(s) \/ newStub(s)
  /\ Goto(s, "opening", GotConnector(s))
  /\ connMu' = None
  /\ conns' = conns \cup {ident[s]}
  /\ opened' = [opened EXCEPT ![ident[s]] = @ + 1]
  /\ UNCHANGED <<ident, stmtVars, poolVars, connClosed, lineageVars, close>>

OpenConnectorFails(s) ==
  /\ Goto(s, "opening", NoConnector(s))
  /\ connMu' = None
  /\ UNCHANGED <<ident, stmtVars, poolVars, conns, opened, connClosed, lineageVars, close>>

-----------------------------------------------------------------------------
(* Connector.ExecuteStreaming of BigQuery and Snowflake.                    *)

\* The query runs (on BigQuery at the third attempt at the latest) and the
\* RowDescription is written (by BigQuery together with the first row or, without
\* one, the CommandComplete).
WhHeader(s) ==
  /\ ~done[s] /\ ident[s] \notin connClosed /\ ~newStub(s)
  /\ Goto(s, "warehouse", "whRows")
  /\ Write(s, "T", "warehouse")
  /\ UNCHANGED <<ident, nstmts, done, gone, stalled, route, ret, logged,
                 poolVars, connVars, lineageVars, close>>

WhRow(s) ==
  /\ pc[s] = "whRows" /\ RowsBy(s, "warehouse") < MaxRows[s]
  /\ Write(s, "D", "warehouse")
  /\ UNCHANGED <<ident, pc, nstmts, done, gone, stalled, route, ret, logged,
                 poolVars, connVars, lineageVars, close>>

WhComplete(s) ==
  /\ Goto(s, "whRows", "connectorFor")
  /\ Write(s, "C", "warehouse")
  /\ ret' = [ret EXCEPT ![s] = "log"]
  /\ UNCHANGED <<ident, nstmts, done, gone, stalled, route, logged,
                 poolVars, connVars, lineageVars, close>>

\* BigQuery: it.Next fails after the header: a warning, then CommandComplete.
WhSwallow(s) ==
  /\ Warehouse(s) = "bigquery" /\ RowsBy(s, "warehouse") > 0
  /\ Goto(s, "whRows", "connectorFor")
  /\ Write(s, "C", "warehouse")
  /\ ret' = [ret EXCEPT ![s] = "log"]
  /\ UNCHANGED <<ident, nstmts, done, gone, stalled, route, logged,
                 poolVars, connVars, lineageVars, close>>

\* The query fails, the iteration of Snowflake's rows fails, or a write does.
WhFails(s) ==
  /\ \/ Goto(s, "warehouse", "error") /\ UNCHANGED gone
     \/ Goto(s, "whRows", "error") /\ Warehouse(s) # "bigquery" /\ UNCHANGED gone
     \/ /\ Goto(s, "warehouse", "error") \/ Goto(s, "whRows", "error")
        /\ gone' = [gone EXCEPT ![s] = TRUE]
  /\ UNCHANGED <<ident, nstmts, done, stalled, resp, route, ret, logged, poolVars, connVars, lineageVars, close>>

-----------------------------------------------------------------------------
(* The end of execute.                                                      *)

\* The locals of execute and its context are gone with it.
Return(s, from) ==
  /\ Goto(s, from, "idle")
  /\ done' = [done EXCEPT ![s] = FALSE]
  /\ route' = [route EXCEPT ![s] = "none"]
  /\ ret' = [ret EXCEPT ![s] = "run"]
  /\ UNCHANGED <<ident, nstmts, stalled, poolVars, connVars, close>>

\* InsertQueryLog under the statement's context; its error is ignored.
InsertQueryLog(s, r) ==
  \/ ~done[s] /\ logged' = [logged EXCEPT ![s] = Append(@, r)]
  \/ UNCHANGED logged

\* respondError that returns the error it has written: the loop writes it again.
respondErrorTwice(s) ==
  /\ Return(s, "error")
  /\ resp' = [resp EXCEPT ![s] = IF gone[s] THEN @ ELSE @ \o <<ErrorMsg, ErrorMsg>>]
  /\ InsertQueryLog(s, "error")
  /\ UNCHANGED <<gone, lineageVars>>

\* The ErrorResponse is written unless the client is gone, the row says "error",
\* and the loop gets no error.
respondError(s) ==
  /\ Return(s, "error")
  /\ \/ ~gone[s] /\ resp' = [resp EXCEPT ![s] = Append(@, ErrorMsg)] /\ UNCHANGED gone
     \/ gone' = [gone EXCEPT ![s] = TRUE] /\ UNCHANGED resp
  /\ InsertQueryLog(s, "error")
  /\ UNCHANGED lineageVars

\* A send that waits for room.
captureLineageBlocking(s) ==
  /\ Len(lineageCh) < LineageCap
  /\ lineageCh' = Append(lineageCh, Cust(s))

\* The job is dropped when the queue is full.
captureLineage(s) ==
  lineageCh' = IF Len(lineageCh) < LineageCap
               THEN Append(lineageCh, Cust(s))
               ELSE lineageCh

LogSuccess(s) ==
  /\ Return(s, "log")
  /\ InsertQueryLog(s, route[s])
  /\ captureLineage(s)
  /\ UNCHANGED <<gone, resp, quit, consumer>>

-----------------------------------------------------------------------------
(* The lineage consumer.                                                    *)

\* One job is taken and recorded, within 30 s.
Consume ==
  /\ consumer /\ lineageCh # <<>>
  /\ lineageCh' = Tail(lineageCh)
  /\ UNCHANGED <<ident, pc, stmtVars, poolVars, connVars, quit, consumer, close>>

ConsumerQuits ==
  /\ consumer /\ quit
  /\ consumer' = FALSE
  /\ UNCHANGED <<ident, pc, stmtVars, poolVars, connVars, lineageCh, quit, close>>

-----------------------------------------------------------------------------
(* Handler.Close.                                                           *)

CloseCalled ==
  /\ close = "not called"
  /\ close' = "called"
  /\ quit' = TRUE
  /\ UNCHANGED <<ident, pc, stmtVars, poolVars, connVars, lineageCh, consumer>>

\* Handler.mu is taken and every connector closed.
CloseConns ==
  /\ close = "called" /\ connMu = None
  /\ close' = "conns closed"
  /\ connMu' = Main
  /\ connClosed' = conns
  /\ UNCHANGED <<ident, pc, stmtVars, poolVars, conns, opened, lineageVars>>

\* Pool.Close, with Handler.mu still held; both locks are released.
ClosePool ==
  /\ close = "conns closed" /\ poolMu = None
  /\ close' = "returned"
  /\ poolClosed' = TRUE /\ workers' = {}
  /\ connMu' = None
  /\ UNCHANGED <<ident, pc, stmtVars, poolMu, conns, opened, connClosed, lineageVars>>

-----------------------------------------------------------------------------

Next ==
  \/ Consume \/ ConsumerQuits
  \/ CloseCalled \/ CloseConns \/ ClosePool
  \/ \E s \in Sessions :
       \/ Start(s) \/ ContextDone(s) \/ ClientStalls(s) \/ ClientReads(s)
       \/ RewriteFails(s) \/ \E t \in {"duckdb", "warehouse"} : Route(s, t)
       \/ workerFor(s) \/ CreateWorker(s) \/ CreateWorkerFails(s)
       \/ DuckHeader(s) \/ DuckRow(s) \/ DuckComplete(s) \/ DuckFails(s)
       \/ ReadConnector(s) \/ LockConnectors(s) \/ OpenConnector(s) \/ OpenConnectorFails(s)
       \/ WhHeader(s) \/ WhRow(s) \/ WhComplete(s) \/ WhSwallow(s) \/ WhFails(s)
       \/ respondError(s) \/ LogSuccess(s)

SafetySpec == Init /\ [][Next]_vars

\* A call under a context that is done returns with an error (BigQuery's
\* iterator with a completed response).
Abort(s) ==
  /\ done[s]
  /\ \/ CreateWorkerFails(s) \/ DuckFails(s)
     \/ OpenConnectorFails(s) \/ WhFails(s) \/ WhComplete(s) \/ WhSwallow(s)

\* What depends neither on an engine nor on the client: the deadline fires, calls
\* under a finished context return, unless they are stuck in a write, locks are
\* taken when free, local steps are run.
Scheduled(s) ==
  \/ ContextDone(s) \/ Abort(s)
  \/ RewriteFails(s) \/ \E t \in {"duckdb", "warehouse"} : Route(s, t)
  \/ workerFor(s) \/ ReadConnector(s) \/ LockConnectors(s)
  \/ respondError(s) \/ LogSuccess(s)

\* Go runs every goroutine that can run.  Weak fairness suffices for the locks,
\* although they are taken and released, since statements are bounded.
Fairness ==
  /\ WF_vars(CloseConns \/ ClosePool)
  /\ \A s \in Sessions : WF_vars(Scheduled(s))

Spec == SafetySpec /\ Fairness

-----------------------------------------------------------------------------
(* Properties.                                                              *)

\* Every variable keeps its type.
TypeOK ==
  /\ ident \in [Sessions -> Idents]
  /\ pc \in [Sessions -> PCs]
  /\ nstmts \in [Sessions -> 0 .. MaxStmts]
  /\ done \in [Sessions -> BOOLEAN] /\ gone \in [Sessions -> BOOLEAN]
  /\ stalled \in [Sessions -> BOOLEAN]
  /\ resp \in [Sessions -> Seq(Msgs)]
  /\ route \in [Sessions -> {"none", "duckdb", "warehouse", "fallback"}]
  /\ ret \in [Sessions -> {"run", "log"}]
  /\ logged \in [Sessions -> Seq({"duckdb", "warehouse", "fallback", "error"})]
  /\ poolMu \in Sessions \cup {None} /\ poolClosed \in BOOLEAN /\ workers \subseteq Customers
  /\ connMu \in Sessions \cup {Main, None} /\ conns \subseteq Idents
  /\ opened \in [Idents -> Nat] /\ connClosed \subseteq Idents
  /\ lineageCh \in Seq(Customers)
  /\ quit \in BOOLEAN /\ consumer \in BOOLEAN
  /\ close \in {"not called", "called", "conns closed", "returned"}

Terminators(r) == {i \in DOMAIN r : r[i].m \in {"C", "E"}}
Answered(s) == pc[s] = "idle" /\ nstmts[s] > 0

\* Whatever fails at whatever point, and although an engine may have written part
\* of a result before another one starts, a statement's response has exactly one
\* CommandComplete or ErrorResponse and it comes last.
OneTerminator ==
  \A s \in Sessions :
    /\ \A i \in Terminators(resp[s]) : i = Len(resp[s])
    /\ Answered(s) /\ ~gone[s] => Terminators(resp[s]) # {}

\* The query_log row agrees with what the client was sent: there is at most one
\* row, it says "error" exactly for an ErrorResponse, and otherwise names the engine
\* whose CommandComplete ended the response, "fallback" if DuckDB was tried before.
LogTruthful ==
  \A s \in Sessions : Answered(s) /\ logged[s] # <<>> =>
    LET last == resp[s][Len(resp[s])]
        fromDuckDB == \E i \in DOMAIN resp[s] : resp[s][i].by = "duckdb"
    IN /\ Len(logged[s]) = 1
       /\ ~gone[s] => (logged[s][1] = "error" <=> last.m = "E")
       /\ logged[s][1] = "duckdb" => last = [m |-> "C", by |-> "duckdb"]
       /\ logged[s][1] = "warehouse" => last = [m |-> "C", by |-> "warehouse"] /\ ~fromDuckDB
       /\ logged[s][1] = "fallback" => last = [m |-> "C", by |-> "warehouse"]

\* Statements of one customer and warehouse that arrive together share one
\* connector: the factory never opens a second one, which nobody would close.
OneConnectorPerKey == \A k \in Idents : opened[k] = IF k \in conns THEN 1 ELSE 0

\* A pool that has been closed stays empty, whoever was waiting for its lock when
\* it closed: a worker created then would never be closed.
ClosedPoolStaysEmpty == poolClosed => workers = {} /\ poolMu = None

\* Every statement is answered: nobody waits forever for a lock, for the queue of a
\* lineage consumer that has quit, for an engine, or because the client of another
\* session does not read; only its own client can keep a statement from ending.
StatementAnswered == \A s \in Sessions : pc[s] # "idle" ~> (pc[s] = "idle" \/ stalled[s])

\* Close returns although statements hold the locks it needs while they open
\* connectors and create workers, and although clients may never read again.
CloseReturns == close = "called" ~> close = "returned"

\* "Re-execute on warehouse, return result ... a valid one": a response that ends
\* with CommandComplete has one RowDescription, so its rows come from one engine.
OneResultSet ==
  \A s \in Sessions : Answered(s) /\ (\E i \in DOMAIN resp[s] : resp[s][i].m = "C") =>
    Cardinality({i \in DOMAIN resp[s] : resp[s][i].m = "T"}) = 1
=============================================================================
