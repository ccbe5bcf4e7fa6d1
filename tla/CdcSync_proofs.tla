---------------------------- MODULE CdcSync_proofs ----------------------------
(***************************************************************************)
(* Proofs about CdcSync for every set of tables and every bound on rows,    *)
(* requests and faults.  The inductive invariant of the stream tables       *)
(* follows the count that a sync makes first through both attempts to the   *)
(* mark.  That of the tables copied by query relates a table's watermark,   *)
(* and the answer being loaded, to the rows the copy holds.                 *)
(***************************************************************************)
EXTENDS CdcSync, FiniteSetTheorems, TLAPS

\* A copy made from a stream holds only rows that exist.
CopyExists == \A t \in Streamed : copy[t] \subseteq Visible(t)

\* What a sync has counted stays in the stream until it is read.
CountedInStream ==
  /\ pc \in {"append", "parquet", "commit"} => count > 0 /\ count <= Len(src[cur])
  /\ pc = "mark" /\ cur \in Streamed => count > 0

\* After the append what was counted is in the copy.
AppendedFirst == pc = "commit" => 1..count \subseteq copy[cur]

StreamInv == CopyExists /\ CountedInStream /\ AppendedFirst /\ CountedIsCopied

IInv == TypeOK /\ StreamInv
-----------------------------------------------------------------------------
(* Lemmas.                                                                  *)

\* Each request of the API replaces one synced_tables row by another of the type.
LEMMA RequestsTyped ==
  ASSUME TypeOK, API
  PROVE  \E t \in Tables, r \in SyncedTable :
           Request(t, r) /\ r.state \in {row[t].state, "pending"}
<1> USE SyncBoundsAssumption, NotValues
<1>1. row \in [Tables -> SyncedTable] /\ now \in Nat
  BY DEF TypeOK
<1>2. PICK t \in Tables :
        \/ \E w \in (0..now) \cup {Unparsable} : syncReplay(t, w)
        \/ \E m \in Modes, c \in BOOLEAN : UpsertSyncedTable(t, m, c)
        \/ workbenchPromote(t)
  BY DEF API
<1>3. CASE \E w \in (0..now) \cup {Unparsable} : syncReplay(t, w)
  <2>1. PICK w \in (0..now) \cup {Unparsable} : syncReplay(t, w)
    BY <1>3
  <2>2. w \in Watermarks /\ "pending" \in States
    BY <1>1 DEF Watermarks, States
  <2>3. [row[t] EXCEPT !.watermark = w, !.state = "pending"] \in SyncedTable
    BY <1>1, <2>2 DEF SyncedTable
  <2>4. [row[t] EXCEPT !.watermark = w, !.state = "pending"].state = "pending"
    BY <1>1 DEF SyncedTable
  <2> QED BY <2>1, <2>3, <2>4 DEF syncReplay
<1>4. CASE \E m \in Modes, c \in BOOLEAN : UpsertSyncedTable(t, m, c)
  <2>1. PICK m \in Modes, c \in BOOLEAN : UpsertSyncedTable(t, m, c)
    BY <1>4
  <2>2. [row[t] EXCEPT !.mode = m, !.col = c] \in SyncedTable
    BY <1>1 DEF SyncedTable
  <2>3. [row[t] EXCEPT !.mode = m, !.col = c].state = row[t].state
    BY <1>1 DEF SyncedTable
  <2> QED BY <2>1, <2>2, <2>3 DEF UpsertSyncedTable
<1>5. CASE workbenchPromote(t)
  <2>2. [row[t] EXCEPT !.mode = "watermark", !.state = "pending"] \in SyncedTable
    BY <1>1 DEF SyncedTable, Modes, States
  <2>3. [row[t] EXCEPT !.mode = "watermark", !.state = "pending"].state = "pending"
    BY <1>1 DEF SyncedTable
  <2> QED BY <1>5, <2>2, <2>3 DEF workbenchPromote
<1> QED BY <1>2, <1>3, <1>4, <1>5

\* MarkSyncedTableState writes one row, of the type, with the given state.
LEMMA MarkTyped ==
  ASSUME row \in [Tables -> SyncedTable], NEW t \in Tables,
         NEW s \in States, NEW w \in Nat \cup {None},
         MarkSyncedTableState(t, s, w)
  PROVE  /\ row' \in [Tables -> SyncedTable]
         /\ row'[t].state = s
         /\ \A u \in Tables : u # t => row'[u] = row[u]
<1> DEFINE r == row[t]
           m == [r EXCEPT !.state = s,
                          !.watermark = IF w = None THEN r.watermark ELSE w]
<1>1. r \in SyncedTable
  OBVIOUS
<1>2. row' = [row EXCEPT ![t] = m]
  BY DEF MarkSyncedTableState
<1>3. m \in SyncedTable /\ m.state = s
  BY <1>1 DEF SyncedTable, Watermarks
<1> HIDE DEF m
<1> QED BY <1>2, <1>3

\* The count of a stream is the length of its source table.
LEMMA StreamCount ==
  ASSUME TypeOK, NEW t \in Tables
  PROVE  Len(src[t]) \in Nat /\ Cardinality(Stream(t)) = Len(src[t]) /\ (Stream(t) # {} <=> Len(src[t]) > 0)
<1>1. Len(src[t]) \in Nat
  BY DEF TypeOK
<1>2. Cardinality(1..Len(src[t])) = Len(src[t])
  BY <1>1, FS_Interval
<1> QED BY <1>1, <1>2 DEF Stream, Visible

-----------------------------------------------------------------------------
(* Type correctness.                                                        *)

\* The sync starts well typed.
LEMMA TypeInit == Init => TypeOK
<1> USE WarehouseAssumption, AddedAssumption, SyncBoundsAssumption, NotValues
<1> SUFFICES ASSUME Init PROVE TypeOK
  OBVIOUS
<1>1. \A t \in Tables : row[t] \in SyncedTable
  BY DEF Init, SyncedTable, States, Watermarks
<1>2. row \in [Tables -> SyncedTable]
  BY <1>1 DEF Init
<1> QED BY <1>2 DEF Init, TypeOK, PCs, Rows

\* Every step keeps the types.
LEMMA TypeStep == TypeOK /\ [Next]_vars => TypeOK'
<1> USE WarehouseAssumption, SyncBoundsAssumption, NotValues
<1> SUFFICES ASSUME TypeOK, [Next]_vars PROVE TypeOK'
  OBVIOUS
<1> USE DEF vars, storeVars, tickVars, syncVars, TypeOK, Goto, Fault, Forget, PCs
<1>1. CASE Tick
  BY <1>1 DEF Tick
<1>2. CASE TickDone
  BY <1>2 DEF TickDone
<1>3. CASE SnowflakeBegin
  <2>1. cur \in Streamed /\ cur \in Tables
    BY <1>3 DEF SnowflakeBegin, Streamed
  <2>2. count' \in Nat
    BY <1>3, <2>1, StreamCount DEF SnowflakeBegin
  <2> QED BY <1>3, <2>1, <2>2 DEF SnowflakeBegin
<1>4. CASE SnowflakeNoChanges
  BY <1>4 DEF SnowflakeNoChanges
<1>5. CASE SnowflakeAppend
  <2>1. cur \in Streamed /\ cur \in Tables
    BY <1>5 DEF SnowflakeAppend, Streamed
  <2>2. copy' \in [Tables -> SUBSET Rows]
    BY <1>5, <2>1 DEF SnowflakeAppend, Write, Stream, Visible, Rows
  <2> QED BY <1>5, <2>1, <2>2 DEF SnowflakeAppend
<1>6. CASE SnowflakeCommit
  BY <1>6 DEF SnowflakeCommit
<1>7. CASE BigQueryRun
  <2>1. cur \in Queried /\ cur \in Tables
    BY <1>7 DEF BigQueryRun, Queried
  <2>2. result' \subseteq Rows
    BY <1>7, <2>1 DEF BigQueryRun, Selected, Visible, Rows
  <2> QED BY <1>7, <2>1, <2>2 DEF BigQueryRun
<1>8. CASE parseWatermarkFails
  BY <1>8 DEF parseWatermarkFails
<1>9. CASE BigQueryNext
  BY <1>9 DEF BigQueryNext
<1>10. CASE BigQueryOverwrite
  <2>1. copy' \in [Tables -> SUBSET Rows]
    BY <1>10 DEF BigQueryOverwrite
  <2> QED BY <1>10, <2>1 DEF BigQueryOverwrite, AfterStream
<1>11. CASE MarkLive
  <2>1. cur \in Tables
    BY <1>11 DEF MarkLive
  <2>2. now \in Nat /\ "live" \in States /\ row[cur] \in SyncedTable
    BY <2>1 DEF States
  <2>3. row' \in [Tables -> SyncedTable]
    BY <1>11, <2>1, <2>2, MarkTyped DEF MarkLive
  <2> QED BY <1>11, <2>3 DEF MarkLive
<1>12. CASE markError
  <2>1. cur \in Tables /\ row[cur] \in SyncedTable /\ "error" \in States
    BY <1>12 DEF markError, States
  <2>2. row' \in [Tables -> SyncedTable]
    BY <1>12, <2>1, MarkTyped DEF markError
  <2> QED BY <1>12, <2>2 DEF markError
<1>13. CASE ListFails
  BY <1>13 DEF ListFails
<1>14. CASE SyncFails
  BY <1>14 DEF SyncFails
<1>15. CASE Crash
  BY <1>15 DEF Crash
<1>16. CASE SnowflakeUnavailable
  BY <1>16 DEF SnowflakeUnavailable
<1>17. CASE SnowflakeCommitFails \/ IcebergFails \/ ParquetFails
  BY <1>17 DEF SnowflakeCommitFails, IcebergFails, ParquetFails
<1>18. CASE BigQueryOverwriteFails
  BY <1>18 DEF BigQueryOverwriteFails, AfterStream
<1>19. CASE MarkLiveFails
  BY <1>19 DEF MarkLiveFails
<1>20. CASE markErrorFails
  BY <1>20 DEF markErrorFails
<1>21. CASE Clock
  BY <1>21 DEF Clock
<1>22. ASSUME NEW c \in Warehouses, ListSyncedTables(c) PROVE TypeOK'
  <2>1. work' \subseteq (Tables \X SyncedTable)
    BY <1>22 DEF ListSyncedTables, TablesOf
  <2> QED BY <1>22, <2>1 DEF ListSyncedTables
<1>23. ASSUME NEW w \in work, syncTable(w[1], w[2]) PROVE TypeOK'
  <2>1. w[1] \in Tables /\ w[2] \in SyncedTable
    OBVIOUS
  <2>2. Warehouse[w[1]] \in Warehouses
    BY <2>1
  <2>3. /\ pc' \in {"run", "begin", "fail"}
        /\ pc' = "run" => w[1] \in Queried
        /\ pc' = "begin" => w[1] \in Streamed
    BY <1>23, <2>1, <2>2 DEF syncTable, Queried, Streamed, Warehouses
  <2> QED BY <1>23, <2>1, <2>3 DEF syncTable
<1>24. ASSUME NEW t \in Tables, NEW r \in SyncedTable, Request(t, r) PROVE TypeOK'
  BY <1>24 DEF Request
<1>25. ASSUME NEW t \in Streamed \cup Queried, Insert(t) PROVE TypeOK'
  <2>1. t \in Tables
    BY <1>25 DEF Streamed, Queried
  <2> QED BY <1>25, <2>1 DEF Insert
<1>26. CASE UNCHANGED vars
  BY <1>26
<1> QED
  BY <1>1, <1>2, <1>3, <1>4, <1>5, <1>6, <1>7, <1>8, <1>9, <1>10, <1>11, <1>12, <1>13, <1>14, <1>15, <1>16, <1>17, <1>18, <1>19, <1>20, <1>21, <1>22, <1>23, <1>24, <1>25, <1>26, RequestsTyped DEF Next, Syncer, Faults, World

-----------------------------------------------------------------------------
(* The stream.                                                              *)

\* Nothing has been counted or appended at the start.
LEMMA StreamInit == Init => StreamInv
<1> SUFFICES ASSUME Init PROVE StreamInv
  OBVIOUS
<1>1. \A t \in Tables : row[t].state = "pending" /\ copy[t] = {}
  BY DEF Init
<1>2. pc = "idle"
  BY DEF Init
<1> QED BY <1>1, <1>2 DEF StreamInv, CopyExists, CountedInStream, AppendedFirst, CountedIsCopied, Streamed

\* A step that leaves the copies of the stream tables and their rows of synced_tables alone,
\* and does not bring a sync further than it was.
LEMMA StreamFrame ==
  ASSUME IInv, UNCHANGED src, \A t \in Streamed : copy'[t] = copy[t],
         \A t \in Streamed : row'[t].state = "live" => row[t].state = "live",
         pc' \in {"append", "commit"} => pc' = pc /\ UNCHANGED <<cur, count>>,
         pc' = "parquet" => pc \in {"append", "parquet"} /\ UNCHANGED <<cur, count>>,
         pc' = "mark" /\ cur' \in Streamed => pc \in {"commit", "mark"} /\ UNCHANGED <<cur, count>>
  PROVE  StreamInv'
<1>1. CopyExists'
  BY DEF IInv, StreamInv, CopyExists, Visible
<1>2. CountedInStream'
  BY DEF IInv, StreamInv, CountedInStream
<1>3. AppendedFirst'
  BY DEF IInv, StreamInv, AppendedFirst, TypeOK
<1>4. CountedIsCopied'
  BY DEF IInv, StreamInv, CountedIsCopied, AppendedFirst
<1> QED BY <1>1, <1>2, <1>3, <1>4 DEF StreamInv

\* The append puts the whole stream, and with it all that was counted, into the copy.
LEMMA AppendStream ==
  ASSUME IInv, SnowflakeAppend
  PROVE  /\ cur \in Streamed /\ copy'[cur] = Visible(cur) /\ \A t \in Tables : t # cur => copy'[t] = copy[t]
         /\ 1..count \subseteq Visible(cur) /\ Visible(cur) # {}
<1>1. /\ cur \in Streamed /\ cur \in Tables /\ count > 0 /\ count <= Len(src[cur])
      /\ count \in Nat /\ Len(src[cur]) \in Nat /\ copy \in [Tables -> SUBSET Rows] /\ copy[cur] \subseteq Visible(cur)
  BY DEF IInv, TypeOK, StreamInv, CountedInStream, CopyExists, SnowflakeAppend
<1>2. PICK kept \in {{}, copy[cur]} : copy' = [copy EXCEPT ![cur] = kept \cup Visible(cur)]
  BY DEF SnowflakeAppend, Write, Stream
<1>3. kept \cup Visible(cur) = Visible(cur)
  BY <1>1, <1>2
<1>4. 1..count \subseteq Visible(cur) /\ Visible(cur) # {}
  BY <1>1 DEF Visible
<1> QED BY <1>1, <1>2, <1>3, <1>4

\* Every step keeps what was counted, what was appended and what is shown as live in line.
LEMMA StreamStep == IInv /\ [Next]_vars => StreamInv'
<1> USE WarehouseAssumption, SyncBoundsAssumption, NotValues
<1> SUFFICES ASSUME IInv, [Next]_vars PROVE StreamInv'
  OBVIOUS
<1>0. TypeOK'
  BY TypeStep DEF IInv
<1>a. /\ copy \in [Tables -> SUBSET Rows] /\ src \in [Tables -> Seq(Nat \ {0})] /\ row \in [Tables -> SyncedTable]
      /\ (pc \notin {"idle", "loop"} => cur \in Tables) /\ (pc \in {"begin", "append", "parquet", "commit"} => cur \in Streamed)
      /\ (pc \in {"run", "read"} => cur \in Queried) /\ now \in Nat
  BY DEF IInv, TypeOK
<1>b. Streamed \subseteq Tables /\ Streamed \cap Queried = {}
  BY DEF Streamed, Queried
<1> USE DEF vars, storeVars, tickVars, syncVars, Goto, Fault, Forget
<1>1. CASE Tick \/ TickDone \/ SnowflakeNoChanges \/ parseWatermarkFails \/ BigQueryNext \/ BigQueryRun
  BY <1>1, StreamFrame DEF Tick, TickDone, SnowflakeNoChanges, parseWatermarkFails, BigQueryNext, BigQueryRun
<1>2. CASE IcebergFails \/ ParquetFails \/ SnowflakeCommit \/ SnowflakeCommitFails \/ SnowflakeUnavailable
  BY <1>2, StreamFrame DEF IcebergFails, ParquetFails, SnowflakeCommit, SnowflakeCommitFails, SnowflakeUnavailable
<1>3. CASE ListFails \/ SyncFails \/ Crash \/ MarkLiveFails \/ markErrorFails \/ Clock \/ UNCHANGED vars
  BY <1>3, StreamFrame DEF ListFails, SyncFails, Crash, MarkLiveFails, markErrorFails, Clock
<1>4. CASE SnowflakeBegin
  <2>1. pc' = "append" /\ UNCHANGED <<src, copy, row, cur>> /\ count' = Len(src[cur]) /\ Len(src[cur]) > 0
    BY <1>4, <1>a, StreamCount DEF SnowflakeBegin, IInv
  <2>2. CopyExists' /\ AppendedFirst'
    BY <2>1 DEF IInv, StreamInv, CopyExists, AppendedFirst, Visible
  <2>3. Len(src[cur]) \in Nat
    BY <1>4, <1>a DEF SnowflakeBegin
  <2>4. CountedInStream'
    BY <2>1, <2>3 DEF CountedInStream
  <2>5. CountedIsCopied'
    BY <2>1 DEF IInv, StreamInv, CountedIsCopied
  <2> QED BY <2>2, <2>4, <2>5 DEF StreamInv
<1>5. CASE SnowflakeAppend
  <2>1. pc' = "commit" /\ UNCHANGED <<src, row, cur, count>>
    BY <1>5 DEF SnowflakeAppend
  <2>2. /\ cur \in Streamed /\ copy'[cur] = Visible(cur) /\ \A t \in Tables : t # cur => copy'[t] = copy[t]
        /\ 1..count \subseteq Visible(cur) /\ Visible(cur) # {}
    BY <1>5, AppendStream
  <2>3. CopyExists'
    BY <1>b, <2>1, <2>2 DEF IInv, StreamInv, CopyExists, Visible
  <2>4. CountedInStream'
    BY <1>5, <2>1 DEF IInv, StreamInv, CountedInStream, SnowflakeAppend
  <2>5. AppendedFirst'
    BY <2>1, <2>2 DEF AppendedFirst
  <2>6. CountedIsCopied'
    BY <1>b, <2>1, <2>2 DEF IInv, StreamInv, CountedIsCopied
  <2> QED BY <2>3, <2>4, <2>5, <2>6 DEF StreamInv
<1>6. CASE BigQueryOverwrite \/ BigQueryOverwriteFails
  <2>1. pc = "read" /\ pc' \in {"loop", "mark"} /\ UNCHANGED <<src, row>> /\ (pc' = "mark" => cur' = cur)
    BY <1>6 DEF BigQueryOverwrite, BigQueryOverwriteFails, AfterStream
  <2>2. cur \in Queried
    BY <1>a, <2>1
  <2>3. \A t \in Streamed : copy'[t] = copy[t]
    BY <1>6, <1>a, <1>b, <2>2 DEF BigQueryOverwrite, BigQueryOverwriteFails
  <2> QED BY <1>b, <2>1, <2>2, <2>3, StreamFrame
<1>7. CASE MarkLive
  <2>1. /\ pc = "mark" /\ pc' = "loop" /\ UNCHANGED <<src, copy>> /\ cur \in Tables
        /\ MarkSyncedTableState(cur, "live", now) /\ "live" \in States
    BY <1>7, <1>a DEF MarkLive, States
  <2>2. \A u \in Tables : u # cur => row'[u] = row[u]
    BY <1>a, <2>1, MarkTyped
  <2>3. cur \in Streamed => copy[cur] # {}
    <3> SUFFICES ASSUME cur \in Streamed PROVE copy[cur] # {}
      OBVIOUS
    <3>1. 1..count \subseteq copy[cur] /\ count > 0 /\ count \in Nat
      BY <2>1 DEF IInv, TypeOK, StreamInv, CountedIsCopied, CountedInStream
    <3>2. 1 \in 1..count
      BY <3>1
    <3> QED BY <3>1, <3>2
  <2>4. CountedIsCopied'
    BY <1>b, <2>1, <2>2, <2>3 DEF IInv, StreamInv, CountedIsCopied
  <2> QED BY <2>1, <2>4 DEF IInv, StreamInv, CopyExists, CountedInStream, AppendedFirst, Visible
<1>8. CASE markError
  <2>1. /\ pc' = "loop" /\ UNCHANGED <<src, copy>> /\ cur \in Tables
        /\ MarkSyncedTableState(cur, "error", None) /\ "error" \in States
    BY <1>8, <1>a DEF markError, States
  <2>2. row'[cur].state = "error" /\ \A u \in Tables : u # cur => row'[u] = row[u]
    BY <1>a, <2>1, MarkTyped
  <2> QED BY <1>b, <2>1, <2>2, StreamFrame
<1>9. ASSUME NEW c \in Warehouses, ListSyncedTables(c) PROVE StreamInv'
  BY <1>9, StreamFrame DEF ListSyncedTables
<1>10. ASSUME NEW w \in work, syncTable(w[1], w[2]) PROVE StreamInv'
  BY <1>10, StreamFrame DEF syncTable
<1>11. ASSUME NEW t \in Tables, NEW r \in SyncedTable, Request(t, r), r.state \in {row[t].state, "pending"}
       PROVE  StreamInv'
  BY <1>11, <1>a, <1>b, StreamFrame DEF Request
<1>12. ASSUME NEW t \in Streamed \cup Queried, Insert(t) PROVE StreamInv'
  <2>1. t \in Tables
    BY DEF Streamed, Queried
  <2>2. /\ UNCHANGED <<copy, row, pc, cur, count>> /\ src' = [src EXCEPT ![t] = Append(@, now)]
    BY <1>12 DEF Insert
  <2>3. \A u \in Tables : Len(src[u]) \in Nat /\ Len(src'[u]) \in Nat /\ Len(src[u]) <= Len(src'[u])
    BY <1>a, <2>1, <2>2
  <2>4. \A u \in Tables : Visible(u) \subseteq Visible(u)'
    BY <2>3 DEF Visible
  <2>5. CopyExists'
    BY <1>b, <2>2, <2>4 DEF IInv, StreamInv, CopyExists
  <2>6. count \in Nat
    BY DEF IInv, TypeOK
  <2>7. CountedInStream'
    BY <1>a, <2>2, <2>3, <2>6 DEF IInv, StreamInv, CountedInStream
  <2> QED BY <2>2, <2>5, <2>7 DEF IInv, StreamInv, AppendedFirst, CountedIsCopied
<1> QED
  BY <1>1, <1>2, <1>3, <1>4, <1>5, <1>6, <1>7, <1>8, <1>9, <1>10, <1>11, <1>12, RequestsTyped
  DEF Next, Syncer, Faults, World, IInv

-----------------------------------------------------------------------------
(* The BigQuery copies.                                                     *)

\* A watermark, where it is a time, is not ahead of the clock: in synced_tables, in a row
\* listed earlier and in the one a sync works with.
Past(r) == r.watermark \in Nat => r.watermark <= now
WatermarksPast ==
  /\ \A t \in Tables : Past(row[t])
  /\ \A w \in work : Past(w[2])
  /\ pc \notin {"idle", "loop"} => Past(old)

\* The rows S of table t are the whole answer of one query.
Answers(t, S) == \E n \in 0..Len(src[t]), w \in 0..now : S = {i \in 1..n : src[t][i] > w}

QueryInv == WatermarksPast /\ (pc = "read" => Answers(cur, result)) /\ NeverPartial

\* NeverPartial, read with the operator above.
LEMMA CopiesAnswer == NeverPartial <=> \A t \in Queried : Answers(t, copy[t])
BY DEF NeverPartial, Answers

\* An answer stays one while time passes and rows are added.
LEMMA AnswerKept ==
  ASSUME TypeOK, TypeOK', NEW t \in Tables, NEW S, Answers(t, S), now <= now',
         src'[t] = src[t] \/ src'[t] = Append(src[t], now)
  PROVE  Answers(t, S)'
<1>1. PICK n \in 0..Len(src[t]), w \in 0..now : S = {i \in 1..n : src[t][i] > w}
  BY DEF Answers
<1>2. src[t] \in Seq(Nat \ {0}) /\ now \in Nat /\ now' \in Nat
  BY DEF TypeOK
<1>3. n \in 0..Len(src'[t]) /\ w \in 0..now' /\ \A i \in 1..n : src'[t][i] = src[t][i]
  <2>1. w \in 0..now'
    BY <1>1, <1>2
  <2>2. CASE src'[t] = src[t]
    BY <1>1, <2>1, <2>2
  <2>3. CASE src'[t] = Append(src[t], now)
    <3> DEFINE s == src[t]
    <3>1. s \in Seq(Nat \ {0}) /\ src'[t] = Append(s, now) /\ n \in 0..Len(s)
      BY <1>1, <1>2, <2>3
    <3> HIDE DEF s
    <3>2. Len(src'[t]) = Len(s) + 1 /\ \A i \in 1..Len(s) : src'[t][i] = s[i]
      BY <3>1
    <3>3. n \in 0..Len(src'[t]) /\ \A i \in 1..n : src'[t][i] = s[i]
      BY <3>1, <3>2
    <3> QED BY <2>1, <3>3 DEF s
  <2> QED BY <2>2, <2>3
<1>4. S = {i \in 1..n : src'[t][i] > w}
  BY <1>1, <1>3
<1> QED BY <1>3, <1>4 DEF Answers

\* What the job of BigQueryRun selects is an answer: a full load asks for all rows.
LEMMA SelectedAnswers ==
  ASSUME TypeOK, NEW t \in Tables, NEW r \in SyncedTable, Past(r), r.mode = "full" \/ r.watermark # Unparsable
  PROVE  Answers(t, Selected(t, r.mode, r.watermark))
<1>1. src[t] \in Seq(Nat \ {0}) /\ now \in Nat /\ Len(src[t]) \in 0..Len(src[t])
  BY DEF TypeOK
<1>2. \A i \in 1..Len(src[t]) : src[t][i] > 0
  BY <1>1
<1>3. CASE r.mode = "full" \/ r.watermark = None
  <2>1. Selected(t, r.mode, r.watermark) = {i \in 1..Len(src[t]) : src[t][i] > 0}
    BY <1>2, <1>3 DEF Selected, Visible
  <2> QED BY <1>1, <2>1 DEF Answers
<1>4. CASE ~ (r.mode = "full" \/ r.watermark = None)
  <2>1. r.watermark \in 0..now
    BY <1>1, <1>4, NotValues DEF SyncedTable, Watermarks, Past
  <2>2. Selected(t, r.mode, r.watermark) = {i \in 1..Len(src[t]) : src[t][i] > r.watermark}
    BY <1>4 DEF Selected, Visible
  <2> QED BY <1>1, <2>1, <2>2 DEF Answers
<1> QED BY <1>3, <1>4

\* A request of the API, which may set a watermark, sets none ahead of the clock.
LEMMA RequestsPast ==
  ASSUME TypeOK, WatermarksPast, API
  PROVE  /\ \A t \in Tables : Past(row'[t])
         /\ UNCHANGED <<now, src, copy, work, pc, cur, old, result>>
<1>1. row \in [Tables -> SyncedTable] /\ now \in Nat /\ \A u \in Tables : Past(row[u])
  BY DEF TypeOK, WatermarksPast
<1>2. PICK t \in Tables : \E r : Request(t, r) /\ Past(r)
  <2>1. PICK t \in Tables :
          \/ \E w \in (0..now) \cup {Unparsable} : syncReplay(t, w)
          \/ \E m \in Modes, c \in BOOLEAN : UpsertSyncedTable(t, m, c)
          \/ workbenchPromote(t)
    BY DEF API
  <2>2. ASSUME NEW w \in (0..now) \cup {Unparsable}, syncReplay(t, w) PROVE \E r : Request(t, r) /\ Past(r)
    <3>1. [row[t] EXCEPT !.watermark = w, !.state = "pending"].watermark = w
      BY <1>1 DEF SyncedTable
    <3>2. Past([row[t] EXCEPT !.watermark = w, !.state = "pending"])
      BY <1>1, <3>1, NotValues DEF Past
    <3> QED BY <2>2, <3>2 DEF syncReplay
  <2>3. ASSUME NEW m \in Modes, NEW c \in BOOLEAN, UpsertSyncedTable(t, m, c) PROVE \E r : Request(t, r) /\ Past(r)
    <3>1. [row[t] EXCEPT !.mode = m, !.col = c].watermark = row[t].watermark
      BY <1>1 DEF SyncedTable
    <3>2. Past([row[t] EXCEPT !.mode = m, !.col = c])
      BY <1>1, <3>1 DEF Past
    <3> QED BY <2>3, <3>2 DEF UpsertSyncedTable
  <2>4. ASSUME workbenchPromote(t) PROVE \E r : Request(t, r) /\ Past(r)
    <3>1. [row[t] EXCEPT !.mode = "watermark", !.state = "pending"].watermark = row[t].watermark
      BY <1>1 DEF SyncedTable
    <3>2. Past([row[t] EXCEPT !.mode = "watermark", !.state = "pending"])
      BY <1>1, <3>1 DEF Past
    <3> QED BY <2>4, <3>2 DEF workbenchPromote
  <2> QED BY <2>1, <2>2, <2>3, <2>4
<1>3. PICK r : Request(t, r) /\ Past(r)
  BY <1>2
<1>4. row' = [row EXCEPT ![t] = r] /\ UNCHANGED <<now, src, copy, work, pc, cur, old, result>>
  BY <1>3 DEF Request, tickVars, syncVars
<1>5. \A u \in Tables : row'[u] = r \/ row'[u] = row[u]
  BY <1>1, <1>4
<1> QED BY <1>1, <1>3, <1>4, <1>5

\* MarkSyncedTableState writes the given time or leaves the watermark.
LEMMA MarkPast ==
  ASSUME TypeOK, \A t \in Tables : Past(row[t]), NEW t \in Tables, NEW s, NEW w \in {now, None},
         MarkSyncedTableState(t, s, w)
  PROVE  \A u \in Tables : Past(row'[u])
<1> DEFINE r == row[t]
           m == [r EXCEPT !.state = s, !.watermark = IF w = None THEN r.watermark ELSE w]
<1>1. row \in [Tables -> SyncedTable] /\ now \in Nat
  BY DEF TypeOK
<1>2. row' = [row EXCEPT ![t] = m]
  BY DEF MarkSyncedTableState
<1>3. m.watermark = IF w = None THEN r.watermark ELSE w
  BY <1>1 DEF SyncedTable
<1> HIDE DEF m
<1>4. Past(m)
  BY <1>1, <1>3 DEF Past
<1>5. \A u \in Tables : row'[u] = m \/ row'[u] = row[u]
  BY <1>1, <1>2
<1> QED BY <1>4, <1>5

\* Nothing has been copied by query at the start.
LEMMA QueryInit == Init => QueryInv
<1> SUFFICES ASSUME Init PROVE QueryInv
  OBVIOUS
<1>1. \A t \in Tables : row[t].watermark = None
  BY DEF Init
<1>2. WatermarksPast /\ pc = "idle"
  BY <1>1, NotValues DEF Init, WatermarksPast, Past
<1>3. ASSUME NEW t \in Queried PROVE Answers(t, copy[t])
  <2>1. t \in Tables
    BY DEF Queried
  <2>2. Len(src[t]) = 0 /\ now = 1 /\ copy[t] = {}
    BY <2>1 DEF Init
  <2> QED BY <2>2 DEF Answers
<1> QED BY <1>2, <1>3, CopiesAnswer DEF QueryInv

\* A step that neither touches a watermark, a source or a copy nor begins to read.
LEMMA QueryFrame ==
  ASSUME QueryInv, UNCHANGED <<now, src, copy, row>>,
         work' \subseteq work,
         pc' \notin {"idle", "loop"} => pc \notin {"idle", "loop"} /\ old' = old,
         pc' = "read" => pc = "read" /\ cur' = cur /\ result' = result
  PROVE  QueryInv'
<1>1. WatermarksPast'
  BY DEF QueryInv, WatermarksPast, Past
<1>2. (pc = "read" => Answers(cur, result))'
  BY DEF QueryInv, Answers
<1>3. NeverPartial'
  BY DEF QueryInv, NeverPartial
<1> QED BY <1>1, <1>2, <1>3 DEF QueryInv

\* Every step keeps the watermarks past what was read, and the copies whole.
LEMMA QueryStep == TypeOK /\ TypeOK' /\ QueryInv /\ [Next]_vars => QueryInv'
<1> USE SyncBoundsAssumption
<1> SUFFICES ASSUME TypeOK, TypeOK', QueryInv, [Next]_vars PROVE QueryInv'
  OBVIOUS
<1> USE DEF vars, storeVars, tickVars, syncVars, Goto, Fault, Forget
<1>0. WatermarksPast /\ (pc = "read" => Answers(cur, result)) /\ \A t \in Queried : Answers(t, copy[t])
  BY CopiesAnswer DEF QueryInv
<1>1. CASE Tick \/ TickDone \/ SnowflakeBegin \/ SnowflakeNoChanges \/ SnowflakeCommit
  BY <1>1, QueryFrame DEF Tick, TickDone, SnowflakeBegin, SnowflakeNoChanges, SnowflakeCommit
<1>2. CASE parseWatermarkFails \/ BigQueryNext \/ BigQueryOverwriteFails
  BY <1>2, QueryFrame DEF parseWatermarkFails, BigQueryNext, BigQueryOverwriteFails, AfterStream
<1>3. CASE ListFails \/ SyncFails \/ Crash \/ SnowflakeUnavailable \/ SnowflakeCommitFails \/ MarkLiveFails
           \/ markErrorFails \/ IcebergFails \/ ParquetFails \/ UNCHANGED vars
  BY <1>3, QueryFrame DEF ListFails, SyncFails, Crash, SnowflakeUnavailable, SnowflakeCommitFails, MarkLiveFails,
     markErrorFails, IcebergFails, ParquetFails
<1>4. CASE SnowflakeAppend
  <2>1. /\ cur \in Streamed /\ cur \in Tables /\ UNCHANGED <<now, src, row, work, old, result, cur>>
        /\ pc' = "commit" /\ pc \in {"append", "parquet"}
    BY <1>4 DEF SnowflakeAppend, TypeOK
  <2>2. \A t \in Queried : copy'[t] = copy[t]
    BY <1>4, <2>1 DEF SnowflakeAppend, Write, TypeOK, Queried, Streamed
  <2>3. WatermarksPast'
    BY <1>0, <2>1 DEF WatermarksPast, Past
  <2>4. NeverPartial'
    BY <2>1, <2>2 DEF QueryInv, NeverPartial
  <2> QED BY <2>1, <2>3, <2>4 DEF QueryInv
<1>5. CASE BigQueryRun
  <2>1. /\ pc = "run" /\ pc' = "read" /\ (old.mode = "full" \/ old.watermark # Unparsable)
        /\ result' = Selected(cur, old.mode, old.watermark)
        /\ UNCHANGED <<now, src, copy, row, work, old, cur>>
    BY <1>5 DEF BigQueryRun
  <2>2. cur \in Tables /\ old \in SyncedTable /\ Past(old)
    BY <1>0, <2>1 DEF TypeOK, WatermarksPast
  <2>3. Answers(cur, Selected(cur, old.mode, old.watermark))
    BY <2>1, <2>2, SelectedAnswers
  <2>4. Answers(cur, result)'
    BY <2>1, <2>3 DEF Answers
  <2>5. WatermarksPast'
    BY <1>0, <2>1, <2>2 DEF WatermarksPast, Past
  <2>6. NeverPartial'
    BY <2>1 DEF QueryInv, NeverPartial
  <2> QED BY <2>4, <2>5, <2>6 DEF QueryInv
<1>6. CASE BigQueryOverwrite
  <2>1. /\ pc = "read" /\ buf = result /\ pc' \in {"loop", "mark"} /\ UNCHANGED <<now, src, row, work>>
        /\ copy' = [copy EXCEPT ![cur] = buf]
        /\ (pc' = "mark" => old' = old)
    BY <1>6 DEF BigQueryOverwrite, AfterStream
  <2>2. cur \in Tables /\ copy \in [Tables -> SUBSET Rows]
    BY <2>1 DEF TypeOK
  <2>4. \A t \in Tables : copy'[t] = IF t = cur THEN result ELSE copy[t]
    BY <2>1, <2>2
  <2>5. ASSUME NEW t \in Queried PROVE Answers(t, copy[t])'
    <3>1. t \in Tables
      BY DEF Queried
    <3>2. Answers(t, IF t = cur THEN result ELSE copy[t])
      BY <1>0, <2>1
    <3> QED BY <2>1, <2>4, <3>1, <3>2 DEF Answers
  <2>6. NeverPartial'
    BY <2>5 DEF NeverPartial, Answers
  <2>7. WatermarksPast'
    BY <1>0, <2>1 DEF WatermarksPast, Past
  <2> QED BY <2>1, <2>6, <2>7 DEF QueryInv
<1>7. CASE MarkLive \/ markError
  <2>1. pc' = "loop" /\ UNCHANGED <<now, src, copy, work>> /\ cur \in Tables
    BY <1>7 DEF MarkLive, markError, TypeOK
  <2>2. \A t \in Tables : Past(row[t])
    BY <1>0 DEF WatermarksPast
  <2>3. \A t \in Tables : Past(row'[t])
    BY <1>7, <2>1, <2>2, MarkPast DEF MarkLive, markError
  <2>4. WatermarksPast'
    BY <1>0, <2>1, <2>3 DEF WatermarksPast, Past
  <2>5. NeverPartial'
    BY <2>1 DEF QueryInv, NeverPartial
  <2> QED BY <2>1, <2>4, <2>5 DEF QueryInv
<1>8. CASE Clock \/ \E t \in Streamed \cup Queried : Insert(t)
  <2>1. UNCHANGED <<copy, row, work, pc, cur, old, result>> /\ now \in Nat /\ now' \in {now, now + 1}
    BY <1>8 DEF Clock, Insert, TypeOK
  <2>2. \A t \in Tables : src'[t] = src[t] \/ src'[t] = Append(src[t], now)
    BY <1>8 DEF Clock, Insert, TypeOK
  <2>3. WatermarksPast'
    <3>1. \A r : Past(r) => Past(r)'
      BY <2>1 DEF Past
    <3> QED BY <1>0, <2>1, <3>1 DEF WatermarksPast
  <2>4. now <= now'
    BY <2>1
  <2>5. ASSUME NEW t \in Tables, NEW S, Answers(t, S) PROVE Answers(t, S)'
    BY <2>2, <2>4, <2>5, AnswerKept
  <2>6. ASSUME pc' = "read" PROVE Answers(cur, result)'
    <3>1. Answers(cur, result) /\ cur \in Tables
      BY <1>0, <2>1, <2>6 DEF TypeOK
    <3>2. \A t \in Tables, S \in {result} : Answers(t, S) => Answers(t, S)'
      BY <2>5
    <3> QED BY <2>1, <3>1, <3>2 DEF Answers
  <2>7. ASSUME NEW t \in Queried PROVE Answers(t, copy[t])'
    <3>1. t \in Tables /\ Answers(t, copy[t]) /\ copy'[t] = copy[t]
      BY <1>0, <2>1 DEF Queried
    <3>2. PICK S : S = copy[t]
      OBVIOUS
    <3>3. Answers(t, S)'
      BY <2>5, <3>1, <3>2
    <3> QED BY <3>1, <3>2, <3>3 DEF Answers
  <2>8. NeverPartial'
    BY <2>7 DEF NeverPartial, Answers
  <2> QED BY <2>3, <2>6, <2>8 DEF QueryInv
<1>9. ASSUME NEW c \in Warehouses, ListSyncedTables(c) PROVE QueryInv'
  <2>1. /\ work' = {<<t, row[t]>> : t \in TablesOf(c)} /\ pc' = "loop"
        /\ UNCHANGED <<now, src, copy, row>>
    BY <1>9 DEF ListSyncedTables
  <2>2. \A w \in work' : Past(w[2])
    BY <1>0, <2>1 DEF WatermarksPast, TablesOf
  <2>3. WatermarksPast'
    BY <1>0, <2>1, <2>2 DEF WatermarksPast, Past
  <2>4. NeverPartial'
    BY <2>1 DEF QueryInv, NeverPartial
  <2> QED BY <2>1, <2>3, <2>4 DEF QueryInv
<1>10. ASSUME NEW w \in work, syncTable(w[1], w[2]) PROVE QueryInv'
  <2>1. /\ work' = work \ {w} /\ old' = w[2] /\ pc' \in {"run", "begin", "fail"}
        /\ UNCHANGED <<now, src, copy, row>>
    <3>1. work \subseteq Tables \X SyncedTable
      BY DEF TypeOK
    <3>2. w = <<w[1], w[2]>>
      BY <3>1
    <3> QED BY <1>10, <3>2 DEF syncTable
  <2>2. WatermarksPast'
    BY <1>0, <2>1 DEF WatermarksPast, Past
  <2>3. NeverPartial'
    BY <2>1 DEF QueryInv, NeverPartial
  <2> QED BY <2>1, <2>2, <2>3 DEF QueryInv
<1>11. CASE API
  <2>1. (\A t \in Tables : Past(row'[t])) /\ UNCHANGED <<now, src, copy, work, pc, cur, old, result>>
    BY <1>0, <1>11, RequestsPast
  <2>2. WatermarksPast'
    BY <1>0, <2>1 DEF WatermarksPast, Past
  <2>3. NeverPartial' /\ (pc = "read" => Answers(cur, result))'
    BY <1>0, <2>1 DEF QueryInv, NeverPartial, Answers
  <2> QED BY <2>2, <2>3 DEF QueryInv
<1> QED
  BY <1>1, <1>2, <1>3, <1>4, <1>5, <1>6, <1>7, <1>8, <1>9, <1>10, <1>11 DEF Next, Syncer, Faults, World

-----------------------------------------------------------------------------
(* Theorems.                                                                *)

\* The specification keeps the inductive invariant.
THEOREM SyncInvariance == Spec => []IInv
<1>1. Init => IInv
  BY TypeInit, StreamInit DEF IInv
<1>2. IInv /\ [Next]_vars => IInv'
  BY TypeStep, StreamStep DEF IInv
<1> QED BY <1>1, <1>2, PTL DEF Spec

\* Every variable of the syncer keeps its type.
THEOREM SyncTypeCorrect == Spec => []TypeOK
<1>1. IInv => TypeOK
  BY DEF IInv
<1> QED BY <1>1, SyncInvariance, PTL

\* Whichever attempt of Append succeeds, and whatever fails around it, what was counted
\* is in the copy when the row is marked, and a live Snowflake table has rows.
THEOREM CountsAreCopied == Spec => []CountedIsCopied
<1>1. IInv => CountedIsCopied
  BY DEF IInv, StreamInv
<1> QED BY <1>1, SyncInvariance, PTL

\* No step of the syncer, of the API or of a failure takes rows out of a stream's copy.
THEOREM StreamCopiesKept == Spec => StreamKept
<1>1. IInv /\ [Next]_vars => [\A t \in Streamed : copy[t] \subseteq copy'[t]]_vars
  <2> SUFFICES ASSUME IInv, Next PROVE \A t \in Streamed : copy[t] \subseteq copy'[t]
    OBVIOUS
  <2>1. Streamed \subseteq Tables /\ Streamed \cap Queried = {} /\ copy \in [Tables -> SUBSET Rows]
        /\ (pc \in {"run", "read"} => cur \in Queried)
    BY DEF Streamed, Queried, IInv, TypeOK
  <2>2. CASE SnowflakeAppend
    BY <2>1, <2>2, AppendStream DEF IInv, StreamInv, CopyExists
  <2>3. CASE BigQueryOverwrite
    BY <2>1, <2>3 DEF BigQueryOverwrite
  <2>4. CASE ~ SnowflakeAppend /\ ~ BigQueryOverwrite
    <3>1. UNCHANGED copy
      BY <2>4 DEF Next, Syncer, Faults, API, World, storeVars, Tick, TickDone, ListSyncedTables, syncTable,
         SnowflakeBegin, SnowflakeNoChanges, IcebergFails, ParquetFails, SnowflakeCommit, BigQueryRun,
         parseWatermarkFails, BigQueryNext, MarkLive, markError, ListFails, SyncFails, Crash, SnowflakeUnavailable,
         SnowflakeCommitFails, BigQueryOverwriteFails, MarkLiveFails, markErrorFails, syncReplay, UpsertSyncedTable,
         workbenchPromote, Request, Clock, Insert
    <3> QED BY <3>1
  <2> QED BY <2>2, <2>3, <2>4
<1> QED BY <1>1, SyncInvariance, PTL DEF Spec, StreamKept

\* What the syncer read from BigQuery, and what it wrote, is the answer of one query.
THEOREM QueryInvariance == Spec => []QueryInv
<1>1. Init => QueryInv
  BY QueryInit
<1>2. TypeOK /\ TypeOK' /\ QueryInv /\ [Next]_vars => QueryInv'
  BY QueryStep
<1> QED BY <1>1, <1>2, SyncTypeCorrect, PTL DEF Spec

\* No failure, crash or request leaves a part of a query's answer in an Iceberg table
\* that syncBigQueryTable writes.
THEOREM CopiesAreWhole == Spec => []NeverPartial
<1>1. QueryInv => NeverPartial
  BY DEF QueryInv
<1> QED BY <1>1, QueryInvariance, PTL

=============================================================================
