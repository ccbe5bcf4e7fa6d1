------------------------- MODULE QueryHandler_proofs -------------------------
(***************************************************************************)
(* Proofs about QueryHandler for every number of sessions, customers,       *)
(* warehouses, rows and statements.  The inductive invariant ties the two   *)
(* locks to where their holders are in execute, and the response a          *)
(* statement has written so far to routeUsed and to where it is.            *)
(***************************************************************************)
EXTENDS QueryHandler, TLAPS

\* One step of execute in session s.
SessionStep(s) ==
  \/ Start(s) \/ ContextDone(s) \/ ClientStalls(s) \/ ClientReads(s)
  \/ RewriteFails(s) \/ \E t \in {"duckdb", "warehouse"} : Route(s, t)
  \/ workerFor(s) \/ CreateWorker(s) \/ CreateWorkerFails(s)
  \/ DuckHeader(s) \/ DuckRow(s) \/ DuckComplete(s) \/ DuckFails(s)
  \/ ReadConnector(s) \/ LockConnectors(s) \/ OpenConnector(s) \/ OpenConnectorFails(s)
  \/ WhHeader(s) \/ WhRow(s) \/ WhComplete(s) \/ WhSwallow(s) \/ WhFails(s)
  \/ respondError(s) \/ LogSuccess(s)

HandlerStep == Consume \/ ConsumerQuits \/ CloseCalled \/ CloseConns \/ ClosePool

-----------------------------------------------------------------------------
(* The inductive invariant.                                                 *)

\* Whoever creates a worker holds Pool.mu.
PoolLocked == \A s \in Sessions : pc[s] = "creating" => poolMu = s

\* Whoever opens a connector holds Handler.mu and opens a missing one; Close holds
\* it between its two halves.
ConnLocked ==
  /\ \A s \in Sessions : pc[s] = "opening" => connMu = s /\ ident[s] \notin conns
  /\ close = "conns closed" => connMu = Main

LocksInv == PoolLocked /\ ConnLocked /\ OneConnectorPerKey /\ ClosedPoolStaysEmpty

\* No CommandComplete and no ErrorResponse yet.
Open(r) == \A i \in DOMAIN r : r[i].m \notin {"C", "E"}

\* The last message is m and nothing before it ends the response.
EndsWith(r, m) ==
  /\ Len(r) > 0 /\ r[Len(r)] = m
  /\ \A i \in DOMAIN r : r[i].m \in {"C", "E"} => i = Len(r)

NotFrom(r, e) == \A i \in DOMAIN r : r[i].by # e

Connecting == {"connectorFor", "connLock", "opening"}

\* routeUsed and the second call of connectorFor against where execute is.
RouteInv(s) ==
  /\ ret[s] = "log" => pc[s] \in Connecting \cup {"log"}
  /\ pc[s] = "log" => ret[s] = "log"
  /\ pc[s] \in {"idle", "rewrite"} => route[s] = "none"
  /\ pc[s] \in {"workerFor", "creating", "duckdb", "duckRows"} => route[s] = "duckdb"
  /\ pc[s] \in {"warehouse", "whRows"} => route[s] \in {"warehouse", "fallback"}
  /\ pc[s] \in Connecting /\ ret[s] = "run" => route[s] \in {"warehouse", "fallback"}
  /\ ret[s] = "log" => route[s] # "none"

Complete(s) == [m |-> "C", by |-> IF route[s] = "duckdb" THEN "duckdb" ELSE "warehouse"]

\* What has been written and logged while the statement runs.
RespInv(s) ==
  pc[s] # "idle" =>
    /\ logged[s] = <<>>
    /\ ret[s] = "run" => Open(resp[s])
    /\ ret[s] = "log" => EndsWith(resp[s], Complete(s))
    /\ pc[s] = "rewrite" => resp[s] = <<>>
    /\ route[s] \in {"none", "warehouse"} => NotFrom(resp[s], "duckdb")

\* OneTerminator and LogTruthful of one session.
AnsweredInv(s) ==
  /\ \A i \in Terminators(resp[s]) : i = Len(resp[s])
  /\ Answered(s) /\ ~gone[s] => Terminators(resp[s]) # {}
  /\ Answered(s) /\ logged[s] # <<>> =>
       LET last == resp[s][Len(resp[s])]
       IN /\ Len(logged[s]) = 1
          /\ ~gone[s] => (logged[s][1] = "error" <=> last.m = "E")
          /\ logged[s][1] = "duckdb" => last = [m |-> "C", by |-> "duckdb"]
          /\ logged[s][1] = "warehouse" =>
               last = [m |-> "C", by |-> "warehouse"] /\ NotFrom(resp[s], "duckdb")
          /\ logged[s][1] = "fallback" => last = [m |-> "C", by |-> "warehouse"]

StatementInv == \A s \in Sessions : RouteInv(s) /\ RespInv(s) /\ AnsweredInv(s)

IInv == TypeOK /\ LocksInv /\ StatementInv
-----------------------------------------------------------------------------
(* Sequences of messages.                                                   *)

\* Appending a message leaves the earlier ones where they are.
LEMMA AppendFacts ==
  ASSUME NEW S, NEW r \in Seq(S), NEW m \in S
  PROVE  /\ Append(r, m) \in Seq(S) /\ Len(Append(r, m)) = Len(r) + 1
         /\ Append(r, m)[Len(r) + 1] = m
         /\ \A i \in DOMAIN r : i # Len(r) + 1 /\ Append(r, m)[i] = r[i]
         /\ \A i \in DOMAIN Append(r, m) : i \in DOMAIN r \/ i = Len(r) + 1
OBVIOUS

\* A frame that does not end the response leaves it open.
LEMMA AppendKeepsOpen ==
  ASSUME NEW r \in Seq(Msgs), NEW m \in Msgs, Open(r), m.m \notin {"C", "E"}
  PROVE  Open(Append(r, m))
BY AppendFacts DEF Open

\* A terminator written to an open response is the only one and the last.
LEMMA AppendEnds ==
  ASSUME NEW r \in Seq(Msgs), NEW m \in Msgs, Open(r)
  PROVE  EndsWith(Append(r, m), m)
<1>1. Len(r) \in Nat
  OBVIOUS
<1>2. \A i \in DOMAIN Append(r, m) :
        Append(r, m)[i].m \in {"C", "E"} => i = Len(Append(r, m))
  BY AppendFacts DEF Open
<1> QED BY <1>1, <1>2, AppendFacts DEF EndsWith

\* A message of another sender does not bring in sender e.
LEMMA AppendNotFrom ==
  ASSUME NEW r \in Seq(Msgs), NEW m \in Msgs, NEW e, NotFrom(r, e), m.by # e
  PROVE  NotFrom(Append(r, m), e)
BY AppendFacts DEF NotFrom

-----------------------------------------------------------------------------
(* What a step may touch.                                                   *)

\* A statement changes the variables of its own session only.
LEMMA OthersUntouched ==
  ASSUME TypeOK, NEW s \in Sessions, SessionStep(s), NEW t \in Sessions, t # s
  PROVE  /\ pc'[t] = pc[t] /\ nstmts'[t] = nstmts[t] /\ gone'[t] = gone[t]
         /\ resp'[t] = resp[t] /\ route'[t] = route[t] /\ ret'[t] = ret[t]
         /\ logged'[t] = logged[t]
<1> USE DEF TypeOK, stmtVars, Goto, Write, FallBack, Return, InsertQueryLog
<1>1. CASE Start(s)
  BY <1>1 DEF Start
<1>2. CASE ContextDone(s) \/ ClientStalls(s) \/ ClientReads(s)
  BY <1>2 DEF ContextDone, ClientStalls, ClientReads
<1>3. CASE RewriteFails(s)
  BY <1>3 DEF RewriteFails
<1>4. CASE \E to \in {"duckdb", "warehouse"} : Route(s, to)
  BY <1>4 DEF Route
<1>5. CASE workerFor(s)
  BY <1>5 DEF workerFor
<1>6. CASE CreateWorker(s)
  BY <1>6 DEF CreateWorker
<1>7. CASE CreateWorkerFails(s)
  BY <1>7 DEF CreateWorkerFails
<1>8. CASE DuckHeader(s)
  BY <1>8 DEF DuckHeader
<1>9. CASE DuckRow(s)
  BY <1>9 DEF DuckRow
<1>10. CASE DuckComplete(s)
  BY <1>10 DEF DuckComplete
<1>11. CASE DuckFails(s)
  BY <1>11 DEF DuckFails
<1>12. CASE ReadConnector(s)
  BY <1>12 DEF ReadConnector
<1>13. CASE LockConnectors(s)
  BY <1>13 DEF LockConnectors
<1>14. CASE OpenConnector(s)
  BY <1>14 DEF OpenConnector
<1>15. CASE OpenConnectorFails(s)
  BY <1>15 DEF OpenConnectorFails
<1>16. CASE WhHeader(s)
  BY <1>16 DEF WhHeader
<1>17. CASE WhRow(s)
  BY <1>17 DEF WhRow
<1>18. CASE WhComplete(s)
  BY <1>18 DEF WhComplete
<1>19. CASE WhSwallow(s)
  BY <1>19 DEF WhSwallow
<1>20. CASE WhFails(s)
  BY <1>20 DEF WhFails
<1>21. CASE respondError(s)
  BY <1>21 DEF respondError
<1>22. CASE LogSuccess(s)
  BY <1>22 DEF LogSuccess
<1> QED
  BY <1>1, <1>2, <1>3, <1>4, <1>5, <1>6, <1>7, <1>8, <1>9, <1>10, <1>11, <1>12, <1>13, <1>14, <1>15, <1>16, <1>17, <1>18, <1>19, <1>20, <1>21, <1>22 DEF SessionStep

\* The consumer and Close do not touch a statement.
LEMMA HandlerKeepsStatements ==
  ASSUME HandlerStep \/ UNCHANGED vars
  PROVE  UNCHANGED <<ident, pc, stmtVars, opened, conns>>
BY DEF HandlerStep, vars, connVars, Consume, ConsumerQuits, CloseCalled, CloseConns, ClosePool

-----------------------------------------------------------------------------
(* Type correctness.                                                        *)

\* The handler starts well typed.
LEMMA TypeInit == Init => TypeOK
<1> SUFFICES ASSUME Init PROVE TypeOK
  OBVIOUS
<1>1. \A S : <<>> \in Seq(S)
  OBVIOUS
<1>2. resp \in [Sessions -> Seq(Msgs)]
  BY <1>1 DEF Init
<1>3. logged \in [Sessions -> Seq({"duckdb", "warehouse", "fallback", "error"})]
  BY <1>1 DEF Init
<1>4. nstmts \in [Sessions -> 0 .. MaxStmts]
  <2>1. 0 \in 0 .. MaxStmts
    BY BoundsAssumption
  <2>2. nstmts = [s \in Sessions |-> 0]
    BY DEF Init
  <2> QED BY <2>1, <2>2
<1>5. lineageCh \in Seq(Customers)
  BY <1>1 DEF Init
<1> QED BY <1>2, <1>3, <1>4, <1>5 DEF Init, TypeOK, NewPool, PCs

\* A function into sequences stays one when an entry is emptied or extended.
LEMMA SeqEntry ==
  ASSUME NEW S, NEW f \in [Sessions -> Seq(S)], NEW s \in Sessions
  PROVE  /\ [f EXCEPT ![s] = <<>>] \in [Sessions -> Seq(S)]
         /\ \A m \in S : [f EXCEPT ![s] = Append(f[s], m)] \in [Sessions -> Seq(S)]
<1>1. <<>> \in Seq(S) /\ \A m \in S : Append(f[s], m) \in Seq(S)
  BY AppendFacts
<1> QED BY <1>1

\* A frame keeps the type of the responses.
LEMMA WriteTyped ==
  ASSUME resp \in [Sessions -> Seq(Msgs)], NEW s \in Sessions,
         NEW k \in {"T", "D", "C"}, NEW e \in {"duckdb", "warehouse"}, Write(s, k, e)
  PROVE  resp' \in [Sessions -> Seq(Msgs)]
<1>1. [m |-> k, by |-> e] \in Msgs
  BY DEF Msgs
<1> QED BY <1>1, SeqEntry DEF Write

\* So does a row for the query_log.
LEMMA LogTyped ==
  ASSUME NEW s \in Sessions, NEW r \in {"duckdb", "warehouse", "fallback", "error"},
         logged \in [Sessions -> Seq({"duckdb", "warehouse", "fallback", "error"})],
         InsertQueryLog(s, r)
  PROVE  logged' \in [Sessions -> Seq({"duckdb", "warehouse", "fallback", "error"})]
<1>1. logged' = logged \/ logged' = [logged EXCEPT ![s] = Append(logged[s], r)]
  BY DEF InsertQueryLog
<1> QED BY <1>1, SeqEntry

\* The row that is logged names a route: execute has chosen one by then.
LEMMA TypeStepOfSession ==
  ASSUME TypeOK, StatementInv, NEW s \in Sessions, SessionStep(s)
  PROVE  TypeOK'
<1> USE NamesAssumption, BoundsAssumption
<1>0. Cust(s) \in Customers
  BY DEF TypeOK, Cust, Customers
<1> USE DEF TypeOK, vars, stmtVars, poolVars, connVars, lineageVars, PCs, Goto, Write, FallBack
<1>1. CASE Start(s)
  <2>1. resp' \in [Sessions -> Seq(Msgs)]
    BY <1>1, SeqEntry DEF Start
  <2>2. logged' \in [Sessions -> Seq({"duckdb", "warehouse", "fallback", "error"})]
    BY <1>1, SeqEntry DEF Start
  <2>3. nstmts' \in [Sessions -> 0 .. MaxStmts]
    <3>1. nstmts[s] < MaxStmts /\ nstmts' = [nstmts EXCEPT ![s] = nstmts[s] + 1]
      BY <1>1 DEF Start
    <3>2. nstmts \in [Sessions -> 0 .. MaxStmts]
      OBVIOUS
    <3> HIDE DEF TypeOK
    <3>3. nstmts[s] + 1 \in 0 .. MaxStmts
      BY <3>1, <3>2
    <3> QED BY <3>1, <3>2, <3>3
  <2> QED BY <1>1, <2>1, <2>2, <2>3 DEF Start
<1>2. CASE ContextDone(s) \/ ClientStalls(s) \/ ClientReads(s)
  BY <1>2 DEF ContextDone, ClientStalls, ClientReads
<1>3. CASE RewriteFails(s)
  BY <1>3 DEF RewriteFails
<1>4. CASE \E t \in {"duckdb", "warehouse"} : Route(s, t)
  <2>1. PICK t \in {"duckdb", "warehouse"} : Route(s, t)
    BY <1>4
  <2>2. CASE t = "duckdb"
    BY <2>1, <2>2 DEF Route
  <2>3. CASE t = "warehouse"
    BY <2>1, <2>3 DEF Route
  <2> QED BY <2>2, <2>3
<1>5. CASE workerFor(s)
  BY <1>5 DEF workerFor
<1>6. CASE CreateWorker(s)
  BY <1>6, <1>0 DEF CreateWorker
<1>7. CASE CreateWorkerFails(s)
  BY <1>7 DEF CreateWorkerFails
<1>8. CASE DuckHeader(s)
  <2>1. resp' \in [Sessions -> Seq(Msgs)]
    BY <1>8, WriteTyped DEF DuckHeader
  <2> QED BY <1>8, <2>1 DEF DuckHeader
<1>9. CASE DuckRow(s)
  <2>1. resp' \in [Sessions -> Seq(Msgs)]
    BY <1>9, WriteTyped DEF DuckRow
  <2> QED BY <1>9, <2>1 DEF DuckRow
<1>10. CASE DuckComplete(s)
  <2>1. resp' \in [Sessions -> Seq(Msgs)]
    BY <1>10, WriteTyped DEF DuckComplete
  <2> QED BY <1>10, <2>1 DEF DuckComplete
<1>11. CASE DuckFails(s)
  BY <1>11 DEF DuckFails
<1>12. CASE ReadConnector(s)
  BY <1>12 DEF ReadConnector, GotConnector
<1>13. CASE LockConnectors(s)
  BY <1>13 DEF LockConnectors, GotConnector
<1>14. CASE OpenConnector(s)
  <2>1. ident[s] \in Idents /\ GotConnector(s) \in PCs
    BY DEF GotConnector
  <2>2. opened' \in [Idents -> Nat]
    <3>1. opened' = [opened EXCEPT ![ident[s]] = opened[ident[s]] + 1] 
      BY <1>14, <2>1 DEF OpenConnector
    <3>2. opened \in [Idents -> Nat]
      OBVIOUS
    <3> HIDE DEF TypeOK
    <3>3. opened[ident[s]] + 1 \in Nat
      BY <2>1, <3>2
    <3> QED BY <2>1, <3>1, <3>2, <3>3
  <2> QED BY <1>14, <2>1, <2>2 DEF OpenConnector
<1>15. CASE OpenConnectorFails(s)
  BY <1>15 DEF OpenConnectorFails, NoConnector
<1>16. CASE WhHeader(s)
  <2>1. resp' \in [Sessions -> Seq(Msgs)]
    BY <1>16, WriteTyped DEF WhHeader
  <2> QED BY <1>16, <2>1 DEF WhHeader
<1>17. CASE WhRow(s)
  <2>1. resp' \in [Sessions -> Seq(Msgs)]
    BY <1>17, WriteTyped DEF WhRow
  <2> QED BY <1>17, <2>1 DEF WhRow
<1>18. CASE WhComplete(s)
  <2>1. resp' \in [Sessions -> Seq(Msgs)]
    BY <1>18, WriteTyped DEF WhComplete
  <2> QED BY <1>18, <2>1 DEF WhComplete
<1>19. CASE WhSwallow(s)
  <2>1. resp' \in [Sessions -> Seq(Msgs)]
    BY <1>19, WriteTyped DEF WhSwallow
  <2> QED BY <1>19, <2>1 DEF WhSwallow
<1>20. CASE WhFails(s)
  BY <1>20 DEF WhFails
<1>21. CASE respondError(s)
  <2>1. ErrorMsg \in Msgs
    BY DEF Msgs
  <2>2. resp' \in [Sessions -> Seq(Msgs)]
    <3>1. resp' = resp \/ resp' = [resp EXCEPT ![s] = Append(resp[s], ErrorMsg)]
      BY <1>21 DEF respondError
    <3>2. resp \in [Sessions -> Seq(Msgs)]
      OBVIOUS
    <3> HIDE DEF TypeOK
    <3>3. [resp EXCEPT ![s] = Append(resp[s], ErrorMsg)] \in [Sessions -> Seq(Msgs)]
      BY <2>1, <3>2, SeqEntry
    <3> QED BY <3>1, <3>2, <3>3
  <2>3. logged' \in [Sessions -> Seq({"duckdb", "warehouse", "fallback", "error"})]
    BY <1>21, LogTyped DEF respondError
  <2> QED BY <1>21, <2>2, <2>3 DEF respondError, Return
<1>22. CASE LogSuccess(s)
  <2>1. route[s] \in {"duckdb", "warehouse", "fallback"}
    BY <1>22 DEF LogSuccess, Return, StatementInv, RouteInv
  <2>2. lineageCh' \in Seq(Customers)
    BY <1>22, <1>0, AppendFacts DEF LogSuccess, captureLineage
  <2>3. logged' \in [Sessions -> Seq({"duckdb", "warehouse", "fallback", "error"})]
    BY <1>22, <2>1, LogTyped DEF LogSuccess
  <2> QED BY <1>22, <2>2, <2>3 DEF LogSuccess, Return
<1> QED
  BY <1>1, <1>2, <1>3, <1>4, <1>5, <1>6, <1>7, <1>8, <1>9, <1>10, <1>11, <1>12, <1>13, <1>14, <1>15, <1>16, <1>17, <1>18, <1>19, <1>20, <1>21, <1>22 DEF SessionStep

\* Every step keeps the types; the route and the response a session holds follow from its control point.
LEMMA TypeStep == TypeOK /\ StatementInv /\ [Next]_vars => TypeOK'
<1> USE NamesAssumption DEF TypeOK, vars, stmtVars, poolVars, connVars, lineageVars
<1> SUFFICES ASSUME TypeOK, StatementInv, [Next]_vars PROVE TypeOK'
  OBVIOUS
<1>1. CASE Consume
  <2>1. lineageCh' \in Seq(Customers)
    <3>1. lineageCh' = Tail(lineageCh) /\ lineageCh # <<>> /\ lineageCh \in Seq(Customers)
      BY <1>1 DEF Consume
    <3> HIDE DEF TypeOK
    <3> QED BY <3>1
  <2> QED BY <1>1, <2>1 DEF Consume
<1>2. CASE ConsumerQuits
  BY <1>2 DEF ConsumerQuits
<1>3. CASE CloseCalled
  BY <1>3 DEF CloseCalled
<1>4. CASE CloseConns
  BY <1>4 DEF CloseConns
<1>5. CASE ClosePool
  BY <1>5 DEF ClosePool
<1>6. CASE \E s \in Sessions : SessionStep(s)
  BY <1>6, TypeStepOfSession DEF TypeOK
<1>7. CASE UNCHANGED vars
  BY <1>7
<1> QED BY <1>1, <1>2, <1>3, <1>4, <1>5, <1>6, <1>7 DEF Next, SessionStep

-----------------------------------------------------------------------------
(* The locks, the pool and the connectors.                                  *)

\* Nobody holds a lock at the start, and the pool and the cache are empty.
LEMMA LocksInit == Init => LocksInv
BY NamesAssumption DEF Init, NewPool, LocksInv, PoolLocked, ConnLocked, OneConnectorPerKey,
   ClosedPoolStaysEmpty

\* A session that takes, holds or gives back the lock of the pool or of the cache keeps both consistent.
LEMMA LocksStepOfSession ==
  ASSUME TypeOK, LocksInv, NEW s \in Sessions, SessionStep(s)
  PROVE  LocksInv'
<1> USE NamesAssumption DEF TypeOK, stmtVars, poolVars, connVars, Goto, Write, FallBack, Return,
        LocksInv, PoolLocked, ConnLocked, OneConnectorPerKey, ClosedPoolStaysEmpty
<1>1. CASE Start(s)
  BY <1>1 DEF Start
<1>2. CASE ContextDone(s) \/ ClientStalls(s) \/ ClientReads(s)
  <2>1. UNCHANGED <<ident, pc, poolVars, connVars, close>>
    BY <1>2 DEF ContextDone, ClientStalls, ClientReads
  <2> QED BY <2>1
<1>3. CASE RewriteFails(s)
  BY <1>3 DEF RewriteFails
<1>4. CASE \E t \in {"duckdb", "warehouse"} : Route(s, t)
  <2>1. PICK t \in {"duckdb", "warehouse"} : Route(s, t)
    BY <1>4
  <2>2. CASE t = "duckdb"
    BY <2>1, <2>2 DEF Route
  <2>3. CASE t = "warehouse"
    BY <2>1, <2>3 DEF Route
  <2> QED BY <2>2, <2>3
<1>5. CASE workerFor(s)
  BY <1>5 DEF workerFor
<1>6. CASE CreateWorker(s)
  BY <1>6 DEF CreateWorker
<1>7. CASE CreateWorkerFails(s)
  BY <1>7 DEF CreateWorkerFails
<1>8. CASE DuckHeader(s)
  BY <1>8 DEF DuckHeader
<1>9. CASE DuckRow(s)
  BY <1>9 DEF DuckRow
<1>10. CASE DuckComplete(s)
  BY <1>10 DEF DuckComplete
<1>11. CASE DuckFails(s)
  BY <1>11 DEF DuckFails
<1>12. CASE ReadConnector(s)
  BY <1>12 DEF ReadConnector, GotConnector
<1>13. CASE LockConnectors(s)
  BY <1>13 DEF LockConnectors, GotConnector
<1>14. CASE OpenConnector(s)
  <2>1. ident[s] \in Idents /\ ident[s] \notin conns /\ connMu = s
    BY <1>14 DEF OpenConnector
  <2>2. \A k \in Idents : opened'[k] = IF k = ident[s] THEN opened[k] + 1 ELSE opened[k]
    BY <1>14, <2>1 DEF OpenConnector
  <2>3. OneConnectorPerKey'
    <3>1. \A k \in Idents : opened[k] = (IF k \in conns THEN 1 ELSE 0)
      OBVIOUS
    <3>2. conns' = conns \cup {ident[s]}
      BY <1>14 DEF OpenConnector
    <3> SUFFICES ASSUME NEW k \in Idents PROVE opened'[k] = IF k \in conns' THEN 1 ELSE 0
      OBVIOUS
    <3> HIDE DEF TypeOK, LocksInv, ConnLocked, PoolLocked, OneConnectorPerKey
    <3>3. CASE k = ident[s]
      BY <2>1, <2>2, <3>1, <3>2, <3>3
    <3>4. CASE k # ident[s]
      BY <2>1, <2>2, <3>1, <3>2, <3>4
    <3> QED BY <3>3, <3>4
  <2>4. \A t \in Sessions : pc'[t] \notin {"opening", "creating"} \/ (t # s /\ pc'[t] = pc[t])
    BY <1>14 DEF OpenConnector, GotConnector
  <2> QED BY <1>14, <2>1, <2>3, <2>4 DEF OpenConnector
<1>15. CASE OpenConnectorFails(s)
  BY <1>15 DEF OpenConnectorFails, NoConnector
<1>16. CASE WhHeader(s)
  BY <1>16 DEF WhHeader
<1>17. CASE WhRow(s)
  BY <1>17 DEF WhRow
<1>18. CASE WhComplete(s)
  BY <1>18 DEF WhComplete
<1>19. CASE WhSwallow(s)
  BY <1>19 DEF WhSwallow
<1>20. CASE WhFails(s)
  BY <1>20 DEF WhFails
<1>21. CASE respondError(s)
  BY <1>21 DEF respondError
<1>22. CASE LogSuccess(s)
  BY <1>22 DEF LogSuccess
<1> QED
  BY <1>1, <1>2, <1>3, <1>4, <1>5, <1>6, <1>7, <1>8, <1>9, <1>10, <1>11, <1>12, <1>13, <1>14, <1>15, <1>16, <1>17, <1>18, <1>19, <1>20, <1>21, <1>22 DEF SessionStep

\* Every step keeps the locks, the pool and the connectors consistent.
LEMMA LocksStep == TypeOK /\ LocksInv /\ [Next]_vars => LocksInv'
<1> SUFFICES ASSUME TypeOK, LocksInv, [Next]_vars PROVE LocksInv'
  OBVIOUS
<1> USE NamesAssumption DEF LocksInv, PoolLocked, ConnLocked, OneConnectorPerKey,
        ClosedPoolStaysEmpty, poolVars, connVars
<1>1. CASE Consume
  BY <1>1 DEF Consume
<1>2. CASE ConsumerQuits
  BY <1>2 DEF ConsumerQuits
<1>3. CASE CloseCalled
  BY <1>3 DEF CloseCalled
<1>4. CASE CloseConns
  BY <1>4 DEF CloseConns, TypeOK
<1>5. CASE ClosePool
  BY <1>5 DEF ClosePool, TypeOK
<1>6. CASE \E s \in Sessions : SessionStep(s)
  BY <1>6, LocksStepOfSession
<1>7. CASE UNCHANGED vars
  BY <1>7 DEF vars
<1> QED BY <1>1, <1>2, <1>3, <1>4, <1>5, <1>6, <1>7 DEF Next, SessionStep

-----------------------------------------------------------------------------
(* The statement: route, response and log.                                  *)

\* No session has a statement at the start.
LEMMA StatementInit == Init => StatementInv
<1> SUFFICES ASSUME Init, NEW s \in Sessions PROVE RouteInv(s) /\ RespInv(s) /\ AnsweredInv(s)
  BY DEF StatementInv
<1>1. /\ pc[s] = "idle" /\ nstmts[s] = 0 /\ resp[s] = <<>> /\ route[s] = "none" /\ ret[s] = "run"
  BY DEF Init
<1>2. Terminators(<<>>) = {}
  BY DEF Terminators
<1> QED BY <1>1, <1>2 DEF RouteInv, RespInv, AnsweredInv, Connecting, Answered

\* routeUsed follows the branch that execute is in.
LEMMA RouteStep ==
  ASSUME TypeOK, NEW s \in Sessions, RouteInv(s), SessionStep(s)
  PROVE  RouteInv(s)'
<1> USE DEF TypeOK, stmtVars, Goto, Write, FallBack, Return, RouteInv, Connecting
<1>1. CASE Start(s)
  BY <1>1 DEF Start
<1>2. CASE ContextDone(s) \/ ClientStalls(s) \/ ClientReads(s)
  BY <1>2 DEF ContextDone, ClientStalls, ClientReads
<1>3. CASE RewriteFails(s)
  BY <1>3 DEF RewriteFails
<1>4. CASE \E t \in {"duckdb", "warehouse"} : Route(s, t)
  <2>1. PICK t \in {"duckdb", "warehouse"} : Route(s, t)
    BY <1>4
  <2>2. CASE t = "duckdb"
    BY <2>1, <2>2 DEF Route
  <2>3. CASE t = "warehouse"
    BY <2>1, <2>3 DEF Route
  <2> QED BY <2>2, <2>3
<1>5. CASE workerFor(s)
  BY <1>5 DEF workerFor
<1>6. CASE CreateWorker(s)
  BY <1>6 DEF CreateWorker
<1>7. CASE CreateWorkerFails(s)
  BY <1>7 DEF CreateWorkerFails
<1>8. CASE DuckHeader(s)
  BY <1>8 DEF DuckHeader
<1>9. CASE DuckRow(s)
  BY <1>9 DEF DuckRow
<1>10. CASE DuckComplete(s)
  BY <1>10 DEF DuckComplete
<1>11. CASE DuckFails(s)
  BY <1>11 DEF DuckFails
<1>12. CASE ReadConnector(s)
  BY <1>12 DEF ReadConnector, GotConnector
<1>13. CASE LockConnectors(s)
  BY <1>13 DEF LockConnectors, GotConnector
<1>14. CASE OpenConnector(s)
  BY <1>14 DEF OpenConnector, GotConnector
<1>15. CASE OpenConnectorFails(s)
  BY <1>15 DEF OpenConnectorFails, NoConnector
<1>16. CASE WhHeader(s)
  BY <1>16 DEF WhHeader
<1>17. CASE WhRow(s)
  BY <1>17 DEF WhRow
<1>18. CASE WhComplete(s)
  BY <1>18 DEF WhComplete
<1>19. CASE WhSwallow(s)
  BY <1>19 DEF WhSwallow
<1>20. CASE WhFails(s)
  BY <1>20 DEF WhFails
<1>21. CASE respondError(s)
  BY <1>21 DEF respondError
<1>22. CASE LogSuccess(s)
  BY <1>22 DEF LogSuccess
<1> QED
  BY <1>1, <1>2, <1>3, <1>4, <1>5, <1>6, <1>7, <1>8, <1>9, <1>10, <1>11, <1>12, <1>13, <1>14, <1>15, <1>16, <1>17, <1>18, <1>19, <1>20, <1>21, <1>22 DEF SessionStep

\* While the statement runs its response is open, or ends with the CommandComplete
\* of the engine that routeUsed names.
LEMMA RespStep ==
  ASSUME TypeOK, NEW s \in Sessions, RouteInv(s), RespInv(s), SessionStep(s)
  PROVE  RespInv(s)'
<1>0. Open(<<>>) /\ \A e : NotFrom(<<>>, e)
  BY DEF Open, NotFrom
<1> USE DEF TypeOK, stmtVars, Goto, Write, FallBack, Return, RespInv
<1>1. CASE Start(s)
  BY <1>1, <1>0 DEF Start, RouteInv
<1>2. CASE ContextDone(s) \/ ClientStalls(s) \/ ClientReads(s)
  <2>1. UNCHANGED <<pc, resp, route, ret, logged>>
    BY <1>2 DEF ContextDone, ClientStalls, ClientReads
  <2> QED BY <2>1 DEF Complete
<1>3. CASE RewriteFails(s)
  BY <1>3 DEF RewriteFails, RouteInv, Connecting, Complete
<1>4. CASE \E t \in {"duckdb", "warehouse"} : Route(s, t)
  <2>1. PICK t \in {"duckdb", "warehouse"} : Route(s, t)
    BY <1>4
  <2>2. CASE t = "duckdb"
    BY <1>0, <2>1, <2>2 DEF Route, RouteInv
  <2>3. CASE t = "warehouse"
    BY <1>0, <2>1, <2>3 DEF Route, RouteInv
  <2> QED BY <2>2, <2>3
<1>5. CASE workerFor(s)
  BY <1>5 DEF workerFor, RouteInv, Connecting, Complete
<1>6. CASE CreateWorker(s)
  BY <1>6 DEF CreateWorker, RouteInv, Connecting, Complete
<1>7. CASE CreateWorkerFails(s)
  BY <1>7 DEF CreateWorkerFails, RouteInv, Connecting, Complete
<1>8. CASE DuckHeader(s)
  <2> DEFINE m == [m |-> "T", by |-> "duckdb"]
  <2>1. m \in Msgs /\ Open(resp[s])
    BY <1>8 DEF DuckHeader, Msgs, RouteInv, Connecting
  <2>2. resp'[s] = Append(resp[s], m)
    BY <1>8 DEF DuckHeader
  <2>3. Open(resp'[s])
    BY <2>1, <2>2, AppendKeepsOpen
  <2>4. route'[s] = "warehouse" => NotFrom(resp'[s], "duckdb")
    BY <1>8, <2>1, <2>2, AppendNotFrom DEF DuckHeader, RouteInv
  <2> QED BY <1>8, <2>3, <2>4 DEF DuckHeader, RouteInv, Connecting
<1>9. CASE DuckRow(s)
  <2> DEFINE m == [m |-> "D", by |-> "duckdb"]
  <2>1. m \in Msgs /\ Open(resp[s])
    BY <1>9 DEF DuckRow, Msgs, RouteInv, Connecting
  <2>2. resp'[s] = Append(resp[s], m)
    BY <1>9 DEF DuckRow
  <2>3. Open(resp'[s])
    BY <2>1, <2>2, AppendKeepsOpen
  <2>4. route'[s] = "warehouse" => NotFrom(resp'[s], "duckdb")
    BY <1>9, <2>1, <2>2, AppendNotFrom DEF DuckRow, RouteInv
  <2> QED BY <1>9, <2>3, <2>4 DEF DuckRow, RouteInv, Connecting
<1>10. CASE DuckComplete(s)
  <2> DEFINE m == [m |-> "C", by |-> "duckdb"]
  <2>1. m \in Msgs /\ Open(resp[s])
    BY <1>10 DEF DuckComplete, Msgs, RouteInv, Connecting
  <2>2. resp'[s] = Append(resp[s], m) /\ Complete(s)' = m
    BY <1>10 DEF DuckComplete, RouteInv, Complete
  <2>3. EndsWith(resp'[s], m)
    BY <2>1, <2>2, AppendEnds
  <2>4. route'[s] = "warehouse" => NotFrom(resp'[s], "duckdb")
    BY <1>10, <2>1, <2>2, AppendNotFrom DEF DuckComplete, RouteInv
  <2> QED BY <1>10, <2>2, <2>3, <2>4 DEF DuckComplete, RouteInv
<1>11. CASE DuckFails(s)
  BY <1>11 DEF DuckFails, RouteInv, Connecting, Complete
<1>12. CASE ReadConnector(s)
  BY <1>12 DEF ReadConnector, GotConnector, RouteInv, Connecting, Complete
<1>13. CASE LockConnectors(s)
  BY <1>13 DEF LockConnectors, GotConnector, RouteInv, Connecting, Complete
<1>14. CASE OpenConnector(s)
  BY <1>14 DEF OpenConnector, GotConnector, RouteInv, Connecting, Complete
<1>15. CASE OpenConnectorFails(s)
  BY <1>15 DEF OpenConnectorFails, NoConnector, RouteInv, Connecting, Complete
<1>16. CASE WhHeader(s)
  <2> DEFINE m == [m |-> "T", by |-> "warehouse"]
  <2>1. m \in Msgs /\ Open(resp[s])
    BY <1>16 DEF WhHeader, Msgs, RouteInv, Connecting
  <2>2. resp'[s] = Append(resp[s], m)
    BY <1>16 DEF WhHeader
  <2>3. Open(resp'[s])
    BY <2>1, <2>2, AppendKeepsOpen
  <2>4. route'[s] = "warehouse" => NotFrom(resp'[s], "duckdb")
    BY <1>16, <2>1, <2>2, AppendNotFrom DEF WhHeader, RouteInv
  <2> QED BY <1>16, <2>3, <2>4 DEF WhHeader, RouteInv, Connecting
<1>17. CASE WhRow(s)
  <2> DEFINE m == [m |-> "D", by |-> "warehouse"]
  <2>1. m \in Msgs /\ Open(resp[s])
    BY <1>17 DEF WhRow, Msgs, RouteInv, Connecting
  <2>2. resp'[s] = Append(resp[s], m)
    BY <1>17 DEF WhRow
  <2>3. Open(resp'[s])
    BY <2>1, <2>2, AppendKeepsOpen
  <2>4. route'[s] = "warehouse" => NotFrom(resp'[s], "duckdb")
    BY <1>17, <2>1, <2>2, AppendNotFrom DEF WhRow, RouteInv
  <2> QED BY <1>17, <2>3, <2>4 DEF WhRow, RouteInv, Connecting
<1>18. CASE WhComplete(s)
  <2> DEFINE m == [m |-> "C", by |-> "warehouse"]
  <2>1. m \in Msgs /\ Open(resp[s])
    BY <1>18 DEF WhComplete, Msgs, RouteInv, Connecting
  <2>2. resp'[s] = Append(resp[s], m) /\ Complete(s)' = m
    BY <1>18 DEF WhComplete, RouteInv, Complete
  <2>3. EndsWith(resp'[s], m)
    BY <2>1, <2>2, AppendEnds
  <2>4. route'[s] = "warehouse" => NotFrom(resp'[s], "duckdb")
    BY <1>18, <2>1, <2>2, AppendNotFrom DEF WhComplete, RouteInv
  <2> QED BY <1>18, <2>2, <2>3, <2>4 DEF WhComplete, RouteInv
<1>19. CASE WhSwallow(s)
  <2> DEFINE m == [m |-> "C", by |-> "warehouse"]
  <2>1. m \in Msgs /\ Open(resp[s])
    BY <1>19 DEF WhSwallow, Msgs, RouteInv, Connecting
  <2>2. resp'[s] = Append(resp[s], m) /\ Complete(s)' = m
    BY <1>19 DEF WhSwallow, RouteInv, Complete
  <2>3. EndsWith(resp'[s], m)
    BY <2>1, <2>2, AppendEnds
  <2>4. route'[s] = "warehouse" => NotFrom(resp'[s], "duckdb")
    BY <1>19, <2>1, <2>2, AppendNotFrom DEF WhSwallow, RouteInv
  <2> QED BY <1>19, <2>2, <2>3, <2>4 DEF WhSwallow, RouteInv
<1>20. CASE WhFails(s)
  BY <1>20 DEF WhFails, RouteInv, Connecting, Complete
<1>21. CASE respondError(s)
  BY <1>21 DEF respondError, RouteInv, Connecting, Complete
<1>22. CASE LogSuccess(s)
  BY <1>22 DEF LogSuccess, RouteInv, Connecting, Complete
<1> QED
  BY <1>1, <1>2, <1>3, <1>4, <1>5, <1>6, <1>7, <1>8, <1>9, <1>10, <1>11, <1>12, <1>13, <1>14, <1>15, <1>16, <1>17, <1>18, <1>19, <1>20, <1>21, <1>22 DEF SessionStep

\* A statement is answered by respondError or at its very end.
LEMMA WhoAnswers ==
  ASSUME TypeOK, NEW s \in Sessions, SessionStep(s), pc'[s] = "idle"
  PROVE  respondError(s) \/ LogSuccess(s)
BY DEF SessionStep, TypeOK, PCs, Goto, FallBack, Start, ContextDone, ClientStalls, ClientReads,
   RewriteFails, Route, workerFor,
   CreateWorker, CreateWorkerFails, DuckHeader, DuckRow, DuckComplete, DuckFails, ReadConnector,
   LockConnectors, OpenConnector, OpenConnectorFails, GotConnector, NoConnector, WhHeader, WhRow,
   WhComplete, WhSwallow, WhFails

\* The first row logged for a statement is its only one.
LEMMA LogEntry ==
  ASSUME TypeOK, NEW s \in Sessions, NEW r, logged[s] = <<>>, InsertQueryLog(s, r)
  PROVE  logged'[s] \in {<<>>, <<r>>}
<1>1. Append(<<>>, r) = <<r>>
  OBVIOUS
<1>2. logged' = logged \/ logged' = [logged EXCEPT ![s] = Append(<<>>, r)]
  BY DEF InsertQueryLog
<1>3. logged'[s] = <<>> \/ logged'[s] = Append(<<>>, r)
  BY <1>2 DEF TypeOK
<1> QED BY <1>1, <1>3

\* The answer is framed and logged as OneTerminator and LogTruthful say.
LEMMA AnsweredStep ==
  ASSUME TypeOK, TypeOK', NEW s \in Sessions, RouteInv(s), RespInv(s), SessionStep(s)
  PROVE  AnsweredInv(s)'
<1>0. RespInv(s)'
  BY RespStep
<1>1. CASE pc'[s] # "idle"
  <2>1. Open(resp'[s]) \/ EndsWith(resp'[s], Complete(s)')
    BY <1>0, <1>1 DEF RespInv, TypeOK
  <2>2. \A i \in Terminators(resp'[s]) : i = Len(resp'[s])
    BY <2>1 DEF Open, EndsWith, Terminators
  <2> QED BY <1>1, <2>2 DEF AnsweredInv, Answered
<1>2. CASE respondError(s)
  <2>1. /\ pc[s] = "error" /\ Open(resp[s]) /\ logged[s] = <<>>
    BY <1>2 DEF respondError, Return, Goto, RespInv, RouteInv, Connecting, TypeOK
  <2>2. logged'[s] \in {<<>>, <<"error">>}
    BY <1>2, <2>1, LogEntry DEF respondError
  <2>3. CASE gone'[s] /\ resp'[s] = resp[s]
    BY <2>1, <2>2, <2>3 DEF AnsweredInv, Open, Terminators
  <2>4. CASE resp'[s] = Append(resp[s], ErrorMsg)
    <3>1. ErrorMsg \in Msgs /\ ErrorMsg.m = "E" /\ resp[s] \in Seq(Msgs)
      BY DEF Msgs, ErrorMsg, TypeOK
    <3>2. EndsWith(resp'[s], ErrorMsg)
      BY <2>1, <2>4, <3>1, AppendEnds
    <3>3. Len(resp'[s]) \in DOMAIN resp'[s]
      BY <2>4, <3>1, AppendFacts
    <3>4. Terminators(resp'[s]) = {Len(resp'[s])}
      BY <3>1, <3>2, <3>3 DEF EndsWith, Terminators
    <3> QED BY <2>2, <3>1, <3>2, <3>4 DEF AnsweredInv, EndsWith
  <2> QED BY <1>2, <2>3, <2>4 DEF respondError, TypeOK
<1>3. CASE LogSuccess(s)
  <2>1. /\ pc[s] = "log" /\ ret[s] = "log" /\ logged[s] = <<>> /\ resp'[s] = resp[s]
        /\ EndsWith(resp[s], Complete(s)) /\ resp[s] \in Seq(Msgs)
    BY <1>3 DEF LogSuccess, Return, Goto, RespInv, RouteInv, TypeOK
  <2>2. logged'[s] \in {<<>>, <<route[s]>>} /\ route[s] \in {"duckdb", "warehouse", "fallback"}
    BY <1>3, <2>1, LogEntry DEF LogSuccess, RouteInv, TypeOK
  <2>3. route[s] = "warehouse" => NotFrom(resp[s], "duckdb")
    BY <2>1 DEF RespInv
  <2>4. Len(resp[s]) \in DOMAIN resp[s] /\ resp[s][Len(resp[s])] = Complete(s)
    BY <2>1 DEF EndsWith
  <2>5. Complete(s).m = "C"
    BY DEF Complete
  <2>6. Terminators(resp[s]) = {Len(resp[s])}
    BY <2>1, <2>4, <2>5 DEF EndsWith, Terminators
  <2> HIDE DEF Complete
  <2>7. CASE logged'[s] = <<>>
    BY <2>1, <2>6, <2>7 DEF AnsweredInv
  <2>8. CASE logged'[s] = <<route[s]>>
    <3>1. Len(logged'[s]) = 1 /\ logged'[s][1] = route[s]
      BY <2>8
    <3>2. /\ route[s] = "duckdb" => Complete(s) = [m |-> "C", by |-> "duckdb"]
          /\ route[s] # "duckdb" => Complete(s) = [m |-> "C", by |-> "warehouse"]
      BY DEF Complete
    <3> QED BY <2>1, <2>2, <2>3, <2>4, <2>5, <2>6, <3>1, <3>2 DEF AnsweredInv
  <2> QED BY <2>2, <2>7, <2>8
<1> QED BY <1>1, <1>2, <1>3, WhoAnswers

\* Every step keeps the route, the response and the log of each statement in line with its control point.
LEMMA StatementStep == TypeOK /\ TypeOK' /\ StatementInv /\ [Next]_vars => StatementInv'
<1> SUFFICES ASSUME TypeOK, TypeOK', StatementInv, [Next]_vars, NEW t \in Sessions
             PROVE  (RouteInv(t) /\ RespInv(t) /\ AnsweredInv(t))'
  BY DEF StatementInv
<1>0. RouteInv(t) /\ RespInv(t) /\ AnsweredInv(t)
  BY DEF StatementInv
<1>1. CASE HandlerStep \/ UNCHANGED vars
  BY <1>0, <1>1, HandlerKeepsStatements
     DEF stmtVars, RouteInv, RespInv, AnsweredInv, Answered, Complete
<1>2. ASSUME NEW s \in Sessions, SessionStep(s)
      PROVE  (RouteInv(t) /\ RespInv(t) /\ AnsweredInv(t))'
  <2>1. CASE t = s
    BY <1>0, <1>2, <2>1, RouteStep, RespStep, AnsweredStep
  <2>2. CASE t # s
    BY <1>0, <1>2, <2>2, OthersUntouched DEF RouteInv, RespInv, AnsweredInv, Answered, Complete
  <2> QED BY <2>1, <2>2
<1> QED BY <1>1, <1>2 DEF Next, SessionStep, HandlerStep

-----------------------------------------------------------------------------
(* Theorems.                                                                *)

\* The handler keeps the inductive invariant, whatever fails and whenever Close runs.
THEOREM HandlerInvariance == SafetySpec => []IInv
<1>1. Init => IInv
  BY TypeInit, LocksInit, StatementInit DEF IInv
<1>2. IInv /\ [Next]_vars => IInv'
  BY TypeStep, LocksStep, StatementStep DEF IInv
<1> QED BY <1>1, <1>2, PTL DEF SafetySpec

\* Every variable of the handler keeps its type.
THEOREM HandlerTypeCorrect == SafetySpec => []TypeOK
<1>1. IInv => TypeOK
  BY DEF IInv
<1> QED BY <1>1, HandlerInvariance, PTL

\* Pool.Close leaves a pool that stays empty: workerFor tests p.closed under the lock
\* that Close takes, for any number of sessions waiting for it.
THEOREM PoolStaysEmpty == SafetySpec => []ClosedPoolStaysEmpty
<1>1. IInv => ClosedPoolStaysEmpty
  BY DEF IInv, LocksInv
<1> QED BY <1>1, HandlerInvariance, PTL

\* connectorFor opens at most one connector for a customer and warehouse, however
\* many sessions miss the map at the same time.
THEOREM ConnectorsShared == SafetySpec => []OneConnectorPerKey
<1>1. IInv => OneConnectorPerKey
  BY DEF IInv, LocksInv
<1> QED BY <1>1, HandlerInvariance, PTL

\* A response of execute has one CommandComplete or ErrorResponse, at its end, for
\* every number of rows and of statements, fallbacks and failures included.
THEOREM ResponsesFramed == SafetySpec => []OneTerminator
<1>1. IInv => OneTerminator
  BY DEF IInv, StatementInv, AnsweredInv, OneTerminator
<1> QED BY <1>1, HandlerInvariance, PTL

\* The query_log row execute inserts agrees with how the response ended.
THEOREM LogIsTruthful == SafetySpec => []LogTruthful
<1>1. IInv => LogTruthful
  BY DEF IInv, StatementInv, AnsweredInv, LogTruthful, NotFrom
<1> QED BY <1>1, HandlerInvariance, PTL

=============================================================================
