------------------------------ MODULE Spend_proofs ------------------------------
(***************************************************************************)
(* No figure of cost_attribution is made up, for any number of connections, *)
(* workbench requests, rows, days and charges.                              *)
(*                                                                          *)
(* A rollup reads its sums in one statement and writes them in another, so  *)
(* AttributionBacked says nothing of a rollup between the two: SumsBacked   *)
(* says of the figures it carries what AttributionBacked says of those it   *)
(* wrote.  Both last because no sum of a day ever falls (SumsGrow): a row   *)
(* of query_log is never removed, keeps its connection, route and hour, and *)
(* a charge is written once.  The last is the hard part: the backfiller     *)
(* writes into rows it selected earlier, and what it selected has to be     *)
(* still without a charge (LookupsPend), which holds because no other       *)
(* process looks charges up.                                                *)
(***************************************************************************)
EXTENDS Spend, FiniteSetTheorems, WellFoundedInduction, TLAPS

-----------------------------------------------------------------------------
(* only a query that a warehouse ran is charged for, and it has a connection *)
ChargedRan ==
  \A i \in DOMAIN log : /\ log[i].actual # None => log[i].route \in Warehouse
                        /\ log[i].route \in Warehouse => log[i].conn \in Ids

(* what the backfiller is about to look up was run by a warehouse and has no charge yet *)
LookupsPend ==
  task[Cron].pc = "lookup" =>
    /\ task[Cron].todo # {}
    /\ \A i \in task[Cron].todo : log[i].actual = None /\ log[i].route \in Warehouse

(* what a rollup has read and not yet written was in the log on one day *)
SumsBacked ==
  \A p \in Procs : task[p].pc = "write" => \E e \in 0 .. Day(now) : BackedBy(task[p].sums, task[p].conn, e)

SpendInv == TypeOK /\ ChargedRan /\ LookupsPend /\ SumsBacked /\ AttributionBacked

-----------------------------------------------------------------------------
(* The calendar.                                                             *)

\* The day of an hour is a natural number.
LEMMA DayType == \A t \in Nat : Day(t) \in Nat
<1> SUFFICES ASSUME NEW t \in Nat PROVE Day(t) \in Nat
  OBVIOUS
<1>1. t + Start \in Nat /\ DayLen \in Nat \ {0}
  BY SpendAssumption
<1> QED
  BY <1>1 DEF Day

\* A later hour is not on an earlier day.
LEMMA DayGrows == \A s, t \in Nat : s <= t => Day(s) <= Day(t)
<1> SUFFICES ASSUME NEW s \in Nat, NEW t \in Nat, s <= t PROVE Day(s) <= Day(t)
  OBVIOUS
<1> DEFINE a == s + Start
           b == t + Start
<1>1. a \in Nat /\ b \in Nat /\ a <= b /\ DayLen \in Nat \ {0}
  BY SpendAssumption
<1>2. \A m, n \in Nat, k \in Nat \ {0} : m <= n => m \div k <= n \div k
  OBVIOUS
<1> QED
  BY <1>1, <1>2 DEF Day

\* The clock never leaves the days of the model.
LEMMA TodayIsADay == TypeOK => Day(now) \in Days
<1> SUFFICES ASSUME TypeOK PROVE Day(now) \in Days
  OBVIOUS
<1>1. now \in Nat /\ MaxTime \in Nat /\ now <= MaxTime
  BY ApiAssumption DEF TypeOK, ApiTypeOK
<1>2. Day(now) \in Nat /\ Day(MaxTime) \in Nat /\ Day(now) <= Day(MaxTime)
  BY <1>1, DayType, DayGrows
<1> QED
  BY <1>2 DEF Days

\* The first connection exists, and 0 is none.
LEMMA ConnNumbers == Ids = 1 .. Len(Conns) /\ Len(Conns) \in Nat /\ 1 \in Ids /\ 0 \notin Ids
BY SpendAssumption DEF Ids

-----------------------------------------------------------------------------
(* Sums over the log.                                                        *)

(* the rows of a connection on a day *)
RowsOn(c, d) == {i \in DOMAIN log : log[i].conn = c /\ Day(log[i].at) = d}

LogRows == [conn : {0} \cup Ids, route : Routes, at : 0 .. now, key : BOOLEAN,
            est : {None} \cup Nat, actual : {None} \cup Nat]

\* The log is a sequence of rows.
LEMMA LogType == TypeOK => log \in Seq(LogRows) /\ DOMAIN log = 1 .. Len(log) /\ Len(log) \in Nat
BY DEF TypeOK, LogRows

\* A row of the log has amounts.
LEMMA RowAmounts ==
  \A r \in LogRows : Amount(Actual(r)) \in Nat /\ Amount(Estimate(r)) \in Nat
BY DEF LogRows, Amount, Actual, Estimate

\* The units of finitely many amounts can be counted.
LEMMA UnitsFinite ==
  ASSUME NEW rows, IsFiniteSet(rows), NEW f \in [rows -> Nat]
  PROVE  IsFiniteSet(UNION {{i} \X (1 .. f[i]) : i \in rows})
<1> DEFINE g == [i \in rows |-> {i} \X (1 .. f[i])]
           T == {{i} \X (1 .. f[i]) : i \in rows}
<1>1. g \in Surjection(rows, T)
  BY DEF Surjection
<1>2. IsFiniteSet(T)
  BY <1>1, FS_Surjection
<1>3. ASSUME NEW i \in rows PROVE IsFiniteSet({i} \X (1 .. f[i]))
  <2>1. IsFiniteSet({i})
    BY FS_Singleton
  <2>2. IsFiniteSet(1 .. f[i])
    BY FS_Interval, f[i] \in Int, 1 \in Int
  <2> QED
    BY <2>1, <2>2, FS_Product
<1>4. \A U \in T : IsFiniteSet(U)
  BY <1>3
<1> QED
  BY <1>2, <1>4, FS_UNION

\* Rows of the log, and the units of their amounts, can be counted.
LEMMA RowsFinite ==
  ASSUME TypeOK, NEW rows \in SUBSET DOMAIN log
  PROVE  /\ IsFiniteSet(rows)
         /\ IsFiniteSet(Units(rows, Actual))
         /\ IsFiniteSet(Units(rows, Estimate))
<1>1. IsFiniteSet(rows)
  <2>1. IsFiniteSet(DOMAIN log)
    BY LogType, FS_Interval, 1 \in Int, Len(log) \in Int
  <2> QED
    BY <2>1, FS_Subset
<1>2. ASSUME NEW i \in rows PROVE Amount(Actual(log[i])) \in Nat /\ Amount(Estimate(log[i])) \in Nat
  <2>1. log[i] \in LogRows
    BY LogType
  <2> QED
    BY <2>1, RowAmounts
<1>3. IsFiniteSet(Units(rows, Actual))
  <2> DEFINE f == [i \in rows |-> Amount(Actual(log[i]))]
  <2>1. f \in [rows -> Nat]
    BY <1>2
  <2>2. Units(rows, Actual) = UNION {{i} \X (1 .. f[i]) : i \in rows}
    BY DEF Units
  <2> HIDE DEF f
  <2> QED
    BY <2>1, <2>2, <1>1, UnitsFinite
<1>4. IsFiniteSet(Units(rows, Estimate))
  <2> DEFINE f == [i \in rows |-> Amount(Estimate(log[i]))]
  <2>1. f \in [rows -> Nat]
    BY <1>2
  <2>2. Units(rows, Estimate) = UNION {{i} \X (1 .. f[i]) : i \in rows}
    BY DEF Units
  <2> HIDE DEF f
  <2> QED
    BY <2>1, <2>2, <1>1, UnitsFinite
<1> QED
  BY <1>1, <1>3, <1>4

SumsTyped == \A c, d : Sums(c, d) \in Figures

\* A DuckDB query costs nothing, so the figures of a day are natural numbers.
LEMMA SumsType == TypeOK /\ ChargedRan => SumsTyped
<1> SUFFICES ASSUME TypeOK, ChargedRan, NEW c, NEW d PROVE Sums(c, d) \in Figures
  BY DEF SumsTyped
<1> DEFINE rows == RowsOn(c, d)
           duck == rows \cap Ran({"duckdb"})
           wh == rows \cap Ran(Warehouse)
<1>1. rows \in SUBSET DOMAIN log /\ duck \in SUBSET DOMAIN log /\ wh \in SUBSET DOMAIN log
  BY DEF RowsOn
<1>2. Cardinality(rows) \in Nat /\ Cardinality(duck) \in Nat /\ Total(wh, Actual) \in Nat /\ Total(duck, Estimate) \in Nat
  BY <1>1, RowsFinite, FS_CardinalityType DEF Total
<1>3. Total(duck, Actual) = 0
  <2>1. ASSUME NEW i \in duck PROVE Amount(Actual(log[i])) = 0
    <3>1. log[i].route = "duckdb" /\ i \in DOMAIN log
      BY DEF Ran
    <3>2. log[i].actual = None
      BY <3>1 DEF ChargedRan, Warehouse
    <3> QED
      BY <3>2 DEF Amount, Actual
  <2>2. \A i \in duck : {i} \X (1 .. Amount(Actual(log[i]))) = {}
    BY <2>1
  <2>3. Units(duck, Actual) = {}
    BY <2>2 DEF Units
  <2> QED
    BY <2>3, FS_EmptySet DEF Total
<1>4. Sums(c, d) = [total |-> Cardinality(rows), duck |-> Cardinality(duck), wh |-> Total(wh, Actual),
                    dd |-> Total(duck, Actual), savings |-> Total(duck, Estimate) - Total(duck, Actual)]
  BY DEF Sums, RowsOn
<1> HIDE DEF rows, duck, wh
<1> QED
  BY <1>2, <1>3, <1>4 DEF Figures

(* what a step may do to the log: append, and write a charge where there is none *)
LogGrows ==
  /\ DOMAIN log \subseteq DOMAIN log'
  /\ \A i \in DOMAIN log :
       /\ log'[i].conn = log[i].conn /\ log'[i].route = log[i].route /\ log'[i].at = log[i].at
       /\ log[i].actual # None => log'[i].actual = log[i].actual

\* No sum of a day falls while the log grows.
LEMMA SumsGrow ==
  ASSUME TypeOK, TypeOK', LogGrows, NEW c, NEW d
  PROVE  /\ Sums(c, d).total <= Sums(c, d)'.total
         /\ Sums(c, d).duck <= Sums(c, d)'.duck
         /\ Sums(c, d).wh <= Sums(c, d)'.wh
<1> DEFINE rows == RowsOn(c, d)
           duck == rows \cap Ran({"duckdb"})
           wh == rows \cap Ran(Warehouse)
<1>1. rows \subseteq rows' /\ duck \subseteq duck' /\ wh \subseteq wh'
  BY DEF LogGrows, RowsOn, Ran, Day
<1>2. rows' \in SUBSET DOMAIN log' /\ duck' \in SUBSET DOMAIN log' /\ wh' \in SUBSET DOMAIN log' /\ wh \in SUBSET DOMAIN log
  BY DEF RowsOn
<1>3. ASSUME NEW i \in DOMAIN log' PROVE Amount(Actual(log'[i])) \in Nat
  <2>1. log' \in Seq(LogRows')
    BY DEF TypeOK, LogRows
  <2>2. log'[i] \in LogRows'
    BY <2>1
  <2> QED
    BY <2>2 DEF LogRows, Amount, Actual
<1>4. IsFiniteSet(rows') /\ IsFiniteSet(duck') /\ IsFiniteSet(Units(wh, Actual)')
  <2>1. DOMAIN log' = 1 .. Len(log') /\ Len(log') \in Nat
    BY DEF TypeOK
  <2>2. IsFiniteSet(DOMAIN log')
    BY <2>1, FS_Interval, 1 \in Int, Len(log') \in Int
  <2>3. IsFiniteSet(rows') /\ IsFiniteSet(duck') /\ IsFiniteSet(wh')
    BY <1>2, <2>2, FS_Subset
  <2> DEFINE W == wh'
             f == [i \in W |-> Amount(Actual(log'[i]))]
  <2>4. f \in [W -> Nat] /\ IsFiniteSet(W)
    BY <1>2, <1>3, <2>3
  <2>5. Units(wh, Actual)' = UNION {{i} \X (1 .. f[i]) : i \in W}
    BY DEF Units
  <2> HIDE DEF f, W
  <2>6. IsFiniteSet(UNION {{i} \X (1 .. f[i]) : i \in W})
    BY <2>4, UnitsFinite
  <2> QED
    BY <2>3, <2>5, <2>6
<1>5. ASSUME NEW i \in wh PROVE 1 .. Amount(Actual(log[i])) \subseteq 1 .. Amount(Actual(log'[i]))
  <2>1. i \in DOMAIN log /\ i \in DOMAIN log'
    BY DEF LogGrows, RowsOn
  <2>2. log[i] \in LogRows /\ (log[i].actual # None => log'[i].actual = log[i].actual)
    BY <2>1, LogType DEF LogGrows
  <2>3. Amount(Actual(log[i])) \in Nat /\ Amount(Actual(log'[i])) \in Nat
    BY <2>1, <2>2, <1>3, RowAmounts
  <2>4. Amount(Actual(log[i])) = 0 \/ Amount(Actual(log[i])) = Amount(Actual(log'[i]))
    BY <2>2 DEF Amount, Actual
  <2> QED
    BY <2>3, <2>4
<1>6. Units(wh, Actual) \subseteq Units(wh, Actual)'
  BY <1>1, <1>5 DEF Units
<1>7. /\ Cardinality(rows) <= Cardinality(rows')
      /\ Cardinality(duck) <= Cardinality(duck')
      /\ Cardinality(Units(wh, Actual)) <= Cardinality(Units(wh, Actual)')
  BY <1>1, <1>4, <1>6, FS_Subset
<1> QED
  BY <1>7 DEF Sums, RowsOn, Total

-----------------------------------------------------------------------------
(* The latest row, and the newest connection.                                *)

\* A set of naturals has a least member.
LEMMA Least == ASSUME NEW S \in SUBSET Nat, S # {} PROVE \E m \in S : \A y \in S : m <= y
<1> DEFINE R == OpToRel(<, Nat)
<1>1. IsWellFoundedOn(R, Nat)
  BY NatLessThanWellFounded
<1>2. \A x, y \in Nat : ~(<<y, x>> \in R) => x <= y
  BY DEF OpToRel
<1> HIDE DEF R
<1>3. \E m \in S : \A y \in S : ~(<<y, m>> \in R)
  BY <1>1, WFMin
<1> QED
  BY <1>2, <1>3

\* Min is that member.
LEMMA MinIsIn == ASSUME NEW S \in SUBSET Nat, S # {} PROVE Min(S) \in S
BY Least DEF Min

\* Of naturals up to a bound there is a greatest one.
LEMMA MaxIsIn == ASSUME NEW S \in SUBSET Nat, S # {}, NEW n \in Nat, \A i \in S : i <= n PROVE Max(S) \in S
<1> DEFINE U == {m \in Nat : \A i \in S : i <= m}
<1>1. PICK m \in U : \A y \in U : m <= y
  <2>1. n \in U /\ U \in SUBSET Nat
    OBVIOUS
  <2> HIDE DEF U
  <2> QED
    BY <2>1, Least
<1>2. m \in S
  <2> SUFFICES ASSUME m \notin S PROVE FALSE
    OBVIOUS
  <2>1. \A i \in S : i < m
    BY <1>1
  <2>2. m # 0
    <3>1. PICK i \in S : TRUE
      OBVIOUS
    <3>2. i \in Nat /\ i < m
      BY <2>1
    <3> QED
      BY <3>2
  <2>3. m - 1 \in U
    BY <1>1, <2>1, <2>2
  <2> QED
    BY <1>1, <2>3
<1> QED
  BY <1>1, <1>2 DEF Max

-----------------------------------------------------------------------------
(* What a step can do.                                                       *)

LogStep ==
  \/ UNCHANGED log
  \/ \E r \in LogRows : /\ Len(log) < MaxRows /\ r.actual = None
                        /\ r.route \in Warehouse => r.conn \in Ids
                        /\ log' = Append(log, r)
  \/ \E i \in DOMAIN log, cost \in Nat : /\ log[i].actual = None /\ log[i].route \in Warehouse
                                         /\ log' = [log EXCEPT ![i].actual = cost]
  \/ \E i, v \in Nat : log' = [log EXCEPT ![i].est = v]

TaskStep ==
  \/ UNCHANGED task
  \/ \E p \in Procs, t \in Tasks :
       /\ Set(p, t) /\ TaskOK(p, t)
       /\ t.pc = "write" => t.sums = Sums(t.conn, Day(now)) /\ UNCHANGED <<log, now>>

AttributionStep ==
  \/ UNCHANGED attribution
  \/ \E p \in Procs : /\ task[p].pc = "write" /\ UNCHANGED <<log, now>>
                      /\ Upsert(task[p].conn, Day(now), task[p].sums)

SpendStep ==
  /\ ApiTypeOK' /\ now <= now'
  /\ LogStep /\ TaskStep /\ AttributionStep /\ LookupsPend'
  /\ bill' \in [Ids -> [0 .. MaxTime -> {None} \cup Costs]]

\* Whatever a step does to the log, it stays a log of typed rows, keeps what is charged
\* charged, and charges only what a warehouse ran.
LEMMA LogStepGrows ==
  ASSUME TypeOK, ChargedRan, LogStep, now' \in Nat, now <= now'
  PROVE  log' \in Seq(LogRows)' /\ Len(log') <= MaxRows /\ ChargedRan' /\ LogGrows
<1> DEFINE Old == LogRows
           New == LogRows'
<1>1. log \in Seq(Old) /\ DOMAIN log = 1 .. Len(log) /\ Len(log) \in Nat /\ Len(log) <= MaxRows /\ now \in Nat
  BY LogType, ApiAssumption DEF TypeOK, ApiTypeOK
<1>2. Old \subseteq New
  BY <1>1 DEF LogRows
<1>3. \A i \in DOMAIN log : log[i] \in Old /\ log[i] \in New
  BY <1>1, <1>2
<1>4. CASE UNCHANGED log
  <2>1. log' \in Seq(New)
    BY <1>1, <1>2, <1>4
  <2> QED
    BY <2>1, <1>1, <1>4 DEF ChargedRan, LogGrows
<1>5. CASE \E r \in LogRows : /\ Len(log) < MaxRows /\ r.actual = None
                              /\ r.route \in Warehouse => r.conn \in Ids
                              /\ log' = Append(log, r)
  <2>1. PICK r \in Old : /\ Len(log) < MaxRows /\ r.actual = None
                         /\ r.route \in Warehouse => r.conn \in Ids
                         /\ log' = Append(log, r)
    BY <1>5
  <2>2. r \in New
    BY <1>2
  <2> HIDE DEF Old, New
  <2>3. log' \in Seq(New) /\ Len(log') = Len(log) + 1 /\ DOMAIN log' = 1 .. Len(log) + 1
    BY <1>1, <1>2, <2>1, <2>2
  <2>4. (\A i \in DOMAIN log : log'[i] = log[i]) /\ log'[Len(log) + 1] = r /\ DOMAIN log \subseteq DOMAIN log'
    BY <1>1, <2>1, <2>3
  <2>5. \A i \in DOMAIN log' : i \in DOMAIN log \/ i = Len(log) + 1
    BY <1>1, <2>3
  <2>6. ChargedRan'
    BY <2>1, <2>4, <2>5 DEF ChargedRan
  <2>7. LogGrows
    BY <2>4 DEF LogGrows
  <2>8. Len(log') <= MaxRows
    BY <2>1, <2>3, <1>1, SpendAssumption
  <2> QED
    BY <2>3, <2>6, <2>7, <2>8 DEF New
<1>6. CASE \E i \in DOMAIN log, cost \in Nat : /\ log[i].actual = None /\ log[i].route \in Warehouse
                                               /\ log' = [log EXCEPT ![i].actual = cost]
  <2>1. PICK i \in DOMAIN log, cost \in Nat : /\ log[i].actual = None /\ log[i].route \in Warehouse
                                              /\ log' = [log EXCEPT ![i].actual = cost]
    BY <1>6
  <2>2. [log[i] EXCEPT !.actual = cost] \in New
    BY <1>3 DEF LogRows
  <2>3. \A k \in DOMAIN log : k # i => log'[k] = log[k]
    BY <2>1
  <2>4. log'[i] = [log[i] EXCEPT !.actual = cost] /\ DOMAIN log' = DOMAIN log
    BY <2>1
  <2>5. log'[i].conn = log[i].conn /\ log'[i].route = log[i].route /\ log'[i].at = log[i].at
    BY <2>4, <1>3 DEF LogRows
  <2>6. log' \in Seq(New) /\ Len(log') = Len(log)
    BY <1>1, <1>3, <2>1, <2>2, <2>3, <2>4
  <2>7. ChargedRan'
    BY <2>1, <2>3, <2>4, <2>5 DEF ChargedRan
  <2>8. LogGrows
    BY <2>1, <2>3, <2>4, <2>5 DEF LogGrows
  <2> QED
    BY <1>1, <2>6, <2>7, <2>8
<1>7. CASE \E i, v \in Nat : log' = [log EXCEPT ![i].est = v]
  <2>1. PICK i \in Nat, v \in Nat : log' = [log EXCEPT ![i].est = v]
    BY <1>7
  <2>2. CASE i \in DOMAIN log
    <3>1. [log[i] EXCEPT !.est = v] \in New
      BY <2>2, <1>3 DEF LogRows
    <3>2. \A k \in DOMAIN log : k # i => log'[k] = log[k]
      BY <2>1
    <3>3. log'[i] = [log[i] EXCEPT !.est = v] /\ DOMAIN log' = DOMAIN log
      BY <2>1, <2>2
    <3>4. log'[i].conn = log[i].conn /\ log'[i].route = log[i].route /\ log'[i].at = log[i].at /\ log'[i].actual = log[i].actual
      BY <3>3, <1>3, <2>2 DEF LogRows
    <3>5. log' \in Seq(New) /\ Len(log') = Len(log)
      <4>1. \A k \in 1 .. Len(log) : log'[k] \in New
        BY <1>1, <1>3, <3>1, <3>2, <3>3
      <4>2. log' = [k \in 1 .. Len(log) |-> log'[k]]
        BY <1>1, <2>1
      <4> HIDE DEF New
      <4> QED
        BY <1>1, <4>1, <4>2
    <3>6. ChargedRan'
      BY <3>2, <3>3, <3>4, <2>2 DEF ChargedRan
    <3>7. LogGrows
      BY <3>2, <3>3, <3>4, <2>2 DEF LogGrows
    <3> QED
      BY <1>1, <3>5, <3>6, <3>7
  <2>3. CASE i \notin DOMAIN log
    <3>1. log' = log
      BY <1>1, <2>1, <2>3
    <3> QED
      BY <3>1, <1>4
  <2> QED
    BY <2>2, <2>3
<1> QED
  BY <1>4, <1>5, <1>6, <1>7 DEF LogStep

\* Types, and what is charged, survive a step.
LEMMA StepTypes ==
  ASSUME SpendInv, SpendStep
  PROVE  TypeOK' /\ ChargedRan' /\ LogGrows /\ Day(now) <= Day(now')
<1>1. TypeOK /\ ChargedRan
  BY DEF SpendInv
<1>2. now \in Nat /\ now' \in Nat /\ now <= now'
  BY <1>1, ApiAssumption DEF TypeOK, SpendStep, ApiTypeOK
<1>3. log' \in Seq(LogRows)' /\ Len(log') <= MaxRows /\ ChargedRan' /\ LogGrows
  BY <1>1, <1>2, LogStepGrows DEF SpendStep
<1>4. Tasks \subseteq Tasks'
  <2>1. DOMAIN log \subseteq DOMAIN log'
    BY <1>3 DEF LogGrows
  <2> QED
    BY <2>1 DEF Tasks
<1>5. task' \in [Procs -> Tasks'] /\ (\A p \in Procs : TaskOK(p, task[p]))'
  <2>1. task \in [Procs -> Tasks] /\ \A p \in Procs : TaskOK(p, task[p])
    BY <1>1 DEF TypeOK
  <2>2. CASE UNCHANGED task
    BY <1>4, <2>1, <2>2 DEF TaskOK
  <2>3. CASE \E p \in Procs, t \in Tasks : Set(p, t) /\ TaskOK(p, t)
    <3>1. PICK p \in Procs, t \in Tasks : task' = [task EXCEPT ![p] = t] /\ TaskOK(p, t)
      BY <2>3 DEF Set
    <3>2. task'[p] = t /\ \A q \in Procs : q # p => task'[q] = task[q]
      BY <2>1, <3>1
    <3>3. task' \in [Procs -> Tasks']
      BY <2>1, <1>4, <3>1
    <3>4. (\A q \in Procs : TaskOK(q, task[q]))'
      BY <2>1, <1>4, <3>1, <3>2 DEF TaskOK
    <3> QED
      BY <3>3, <3>4
  <2> QED
    BY <2>2, <2>3 DEF SpendStep, TaskStep
<1>6. attribution' \in [Ids -> [Days -> {None} \cup Figures]]
  <2>1. attribution \in [Ids -> [Days -> {None} \cup Figures]]
    BY <1>1 DEF TypeOK
  <2>2. CASE UNCHANGED attribution
    BY <2>1, <2>2
  <2>3. ASSUME NEW p \in Procs, task[p].pc = "write", Upsert(task[p].conn, Day(now), task[p].sums)
        PROVE  attribution' \in [Ids -> [Days -> {None} \cup Figures]]
    <3>1. TaskOK(p, task[p])
      BY <1>1 DEF TypeOK
    <3>2. task[p].sums \in Figures /\ task[p].conn \in Ids
      BY <3>1, <2>3 DEF TaskOK, Tasks
    <3>3. Day(now) \in Days
      BY <1>1, TodayIsADay
    <3> QED
      BY <2>1, <2>3, <3>2, <3>3 DEF Upsert
  <2> QED
    BY <2>2, <2>3 DEF SpendStep, AttributionStep
<1>7. TypeOK'
  BY <1>3, <1>5, <1>6 DEF SpendStep, TypeOK, LogRows
<1> QED
  BY <1>2, <1>3, <1>7, DayGrows

\* Figures that were backed stay backed.
LEMMA BackedLasts ==
  ASSUME TypeOK, ChargedRan, TypeOK', ChargedRan', LogGrows, NEW sums \in Figures, NEW c, NEW d, BackedBy(sums, c, d)
  PROVE  BackedBy(sums, c, d)'
<1>1. SumsTyped /\ SumsTyped'
  BY SumsType, PTL
<1>2. Sums(c, d) \in Figures /\ Sums(c, d)' \in Figures
  BY <1>1 DEF SumsTyped, Figures
<1>3. \A i, j, k \in Nat : i <= j /\ j <= k => i <= k
  OBVIOUS
<1>4. /\ Sums(c, d).total <= Sums(c, d)'.total
      /\ Sums(c, d).duck <= Sums(c, d)'.duck
      /\ Sums(c, d).wh <= Sums(c, d)'.wh
  BY SumsGrow
<1> QED
  BY <1>2, <1>3, <1>4 DEF BackedBy, Figures

\* What rollups carry, and what they wrote, stays backed.
LEMMA StepKeeps == ASSUME SpendInv, SpendStep PROVE SpendInv'
<1>1. TypeOK /\ ChargedRan /\ TypeOK' /\ ChargedRan' /\ LogGrows /\ Day(now) <= Day(now')
  BY StepTypes DEF SpendInv
<1>2. Day(now) \in Nat /\ Day(now') \in Nat /\ Day(now) \in Days
  <2>1. now \in Nat /\ now' \in Nat
    BY <1>1, ApiAssumption DEF TypeOK, ApiTypeOK
  <2> QED
    BY <1>1, <2>1, DayType, TodayIsADay
<1>3. ASSUME NEW sums \in Figures, NEW c, NEW d, BackedBy(sums, c, d) PROVE BackedBy(sums, c, d)'
  BY <1>1, <1>3, BackedLasts
<1>4. \A q \in Procs : task[q].pc = "write" => task[q].sums \in Figures /\ task[q].conn \in Ids
  <2>1. \A q \in Procs : TaskOK(q, task[q])
    BY <1>1 DEF TypeOK
  <2> QED
    BY <2>1 DEF TaskOK, Tasks
<1>5. ASSUME NEW q \in Procs, task[q].pc = "write"
      PROVE  \E e \in 0 .. Day(now) : BackedBy(task[q].sums, task[q].conn, e) /\ e \in 0 .. Day(now')
  <2>1. PICK e \in 0 .. Day(now) : BackedBy(task[q].sums, task[q].conn, e)
    BY <1>5 DEF SpendInv, SumsBacked
  <2>2. e \in 0 .. Day(now')
    BY <1>1, <1>2
  <2> QED
    BY <2>1, <2>2
<1>6. SumsBacked'
  <2> SUFFICES ASSUME NEW q \in Procs, task'[q].pc = "write"
               PROVE  \E e \in 0 .. Day(now') : BackedBy(task[q].sums, task[q].conn, e)'
    BY DEF SumsBacked, Day
  <2>1. CASE task'[q] = task[q]
    <3>1. PICK sums \in Figures, c \in Ids : sums = task[q].sums /\ c = task[q].conn
      BY <2>1, <1>4
    <3>2. PICK e \in 0 .. Day(now) : BackedBy(sums, c, e) /\ e \in 0 .. Day(now')
      BY <1>5, <2>1, <3>1
    <3>3. BackedBy(sums, c, e)'
      BY <1>3, <3>2
    <3>4. BackedBy(task[q].sums, task[q].conn, e)'
      BY <2>1, <3>1, <3>3 DEF BackedBy
    <3> QED
      BY <3>2, <3>4
  <2>2. CASE task'[q] # task[q]
    <3>1. PICK p \in Procs, t \in Tasks :
             /\ task' = [task EXCEPT ![p] = t] /\ TaskOK(p, t)
             /\ t.pc = "write" => t.sums = Sums(t.conn, Day(now)) /\ UNCHANGED <<log, now>>
      BY <2>2 DEF SpendStep, TaskStep, Set
    <3>2. p = q /\ task'[q] = t
      BY <2>2, <3>1, <1>1 DEF TypeOK
    <3>3. t.sums = Sums(t.conn, Day(now)) /\ log' = log /\ now' = now
      BY <3>1, <3>2
    <3>4. PICK c, d : c = t.conn /\ d = Day(now)
      OBVIOUS
    <3>5. Sums(c, d)' = Sums(c, d) /\ Sums(c, d) \in Figures
      <4>1. Sums(c, d)' = Sums(c, d)
        BY <3>3 DEF Sums, Total, Units, Ran, Day
      <4> QED
        BY <4>1, <1>1, SumsType DEF SumsTyped
    <3>6. task'[q].sums = Sums(c, d) /\ task'[q].conn = c
      BY <3>2, <3>3, <3>4
    <3>7. BackedBy(task[q].sums, task[q].conn, d)'
      BY <3>5, <3>6 DEF BackedBy, Figures
    <3> QED
      BY <3>3, <3>4, <3>7, <1>2
  <2> QED
    BY <2>1, <2>2
<1>7. AttributionBacked'
  <2> SUFFICES ASSUME NEW c \in Ids, NEW d \in Days, attribution'[c][d] # None
               PROVE  \E e \in 0 .. d : BackedBy(attribution[c][d], c, e)'
    BY DEF AttributionBacked
  <2>1. CASE attribution'[c][d] = attribution[c][d]
    <3>1. PICK e \in 0 .. d : BackedBy(attribution[c][d], c, e)
      BY <2>1 DEF SpendInv, AttributionBacked
    <3>2. PICK sums \in Figures : sums = attribution[c][d]
      BY <1>1, <2>1 DEF TypeOK
    <3>3. BackedBy(sums, c, e)'
      BY <1>3, <3>1, <3>2
    <3> QED
      BY <2>1, <3>1, <3>2, <3>3 DEF BackedBy
  <2>2. CASE attribution'[c][d] # attribution[c][d]
    <3>1. PICK p \in Procs : task[p].pc = "write" /\ Upsert(task[p].conn, Day(now), task[p].sums)
      BY <2>2 DEF SpendStep, AttributionStep
    <3>2. PICK sums \in Figures : sums = task[p].sums
      BY <1>4, <3>1
    <3>3. c = task[p].conn /\ d = Day(now) /\ attribution'[c][d] = sums
      <4>1. attribution \in [Ids -> [Days -> {None} \cup Figures]]
        BY <1>1 DEF TypeOK
      <4> QED
        BY <2>2, <3>1, <3>2, <4>1, <1>2, <1>4 DEF Upsert
    <3>4. PICK e \in 0 .. Day(now) : BackedBy(sums, c, e)
      BY <1>5, <3>1, <3>2, <3>3
    <3>5. BackedBy(sums, c, e)'
      BY <1>3, <3>4
    <3> QED
      BY <3>3, <3>4, <3>5 DEF BackedBy
  <2> QED
    BY <2>1, <2>2
<1> QED
  BY <1>1, <1>6, <1>7 DEF SpendInv, SpendStep

-----------------------------------------------------------------------------
(* Each action is such a step.                                               *)

\* A goroutine that is picked is one of those that may be.
LEMMA FreeIsIn == \A idle : Free(idle) \subseteq idle
BY DEF Free

ChargesKept ==
  /\ DOMAIN log \subseteq DOMAIN log'
  /\ \A i \in DOMAIN log : log'[i].actual = log[i].actual /\ log'[i].route = log[i].route

\* Calls and failures are counted up to their bounds, and time does not go back.
LEMMA ApiStep ==
  ASSUME TypeOK, UNCHANGED calls \/ (calls < MaxCalls /\ calls' = calls + 1), Works \/ Fails,
         UNCHANGED now \/ (now < MaxTime /\ now' = now + 1)
  PROVE  ApiTypeOK' /\ now <= now'
<1>1. calls \in 0 .. MaxCalls /\ faults \in 0 .. MaxFaults /\ now \in 0 .. MaxTime
  BY DEF TypeOK, ApiTypeOK
<1>2. MaxCalls \in Nat /\ MaxFaults \in Nat /\ MaxTime \in Nat
  BY ApiAssumption
<1>3. calls' \in 0 .. MaxCalls
  BY <1>1, <1>2
<1>4. faults' \in 0 .. MaxFaults
  BY <1>1, <1>2 DEF Works, Fails
<1>5. now' \in 0 .. MaxTime /\ now <= now'
  BY <1>1, <1>2
<1> QED
  BY <1>3, <1>4, <1>5 DEF ApiTypeOK

\* What the backfiller is to look up still waits while no charge is written and its task is left alone.
LEMMA LookupsLast ==
  ASSUME TypeOK, LookupsPend, ChargesKept,
         \/ UNCHANGED task
         \/ \E p \in Procs, t \in Tasks : Set(p, t) /\ t.pc # "lookup"
  PROVE  LookupsPend'
<1>1. task \in [Procs -> Tasks] /\ Cron \in Procs
  BY DEF TypeOK, Procs
<1>2. task[Cron].todo \subseteq DOMAIN log
  BY <1>1 DEF Tasks
<1>3. task'[Cron] = task[Cron] \/ task'[Cron].pc # "lookup"
  BY <1>1 DEF Set
<1> QED
  BY <1>2, <1>3 DEF LookupsPend, ChargesKept

\* A row is appended.
LEMMA AppendKeeps ==
  ASSUME TypeOK, NEW r \in LogRows, log' = Append(log, r)
  PROVE  ChargesKept
<1>1. log \in Seq(LogRows) /\ DOMAIN log = 1 .. Len(log) /\ Len(log) \in Nat
  BY LogType
<1>2. DOMAIN log' = 1 .. Len(log) + 1
  BY <1>1
<1>3. \A i \in DOMAIN log : log'[i] = log[i]
  BY <1>1
<1> QED
  BY <1>1, <1>2, <1>3 DEF ChargesKept

\* A row of a query that begins now is a row of the log.
LEMMA NewRow ==
  ASSUME TypeOK, NEW c \in {0} \cup Ids, NEW route \in Routes, NEW key \in BOOLEAN, NEW est \in {None} \cup Nat
  PROVE  [conn |-> c, route |-> route, at |-> now, key |-> key, est |-> est, actual |-> None] \in LogRows
<1>1. now \in 0 .. now
  BY ApiAssumption DEF TypeOK, ApiTypeOK
<1> QED
  BY <1>1 DEF LogRows

\* A statement of the proxy.
LEMMA QueryStep ==
  ASSUME SpendInv, NEW c \in Served, NEW route \in Routes, NEW cost \in Costs, Query(c, route, cost)
  PROVE  SpendStep
<1>1. TypeOK /\ LookupsPend /\ c \in Ids
  BY SpendAssumption DEF SpendInv, Ids
<1>2. ApiTypeOK' /\ now <= now'
  BY <1>1, ApiStep DEF Query
<1>3. bill' \in [Ids -> [0 .. MaxTime -> {None} \cup Costs]]
  <2>1. now \in 0 .. MaxTime /\ bill \in [Ids -> [0 .. MaxTime -> {None} \cup Costs]]
    BY <1>1 DEF TypeOK, ApiTypeOK
  <2>2. UNCHANGED bill \/ Charge(c, cost)
    BY DEF Query
  <2>3. [bill[c] EXCEPT ![now] = cost] \in [0 .. MaxTime -> {None} \cup Costs]
    BY <1>1, <2>1
  <2> QED
    BY <1>1, <2>1, <2>2, <2>3 DEF Charge
<1>4. UNCHANGED task /\ UNCHANGED attribution
  BY DEF Query
<1>5. CASE UNCHANGED log
  <2>1. ChargesKept
    BY <1>5 DEF ChargesKept
  <2>2. LookupsPend'
    BY <1>1, <1>4, <2>1, LookupsLast
  <2> QED
    BY <1>2, <1>3, <1>4, <1>5, <2>2 DEF SpendStep, LogStep, TaskStep, AttributionStep
<1>6. CASE \E k \in {0, c} : InsertQueryLog(k, route, TRUE, None) /\ (route \in Warehouse => k = c) /\ Len(log) < MaxRows
  <2>1. PICK k \in {0, c} : InsertQueryLog(k, route, TRUE, None) /\ (route \in Warehouse => k = c) /\ Len(log) < MaxRows
    BY <1>6
  <2> DEFINE r == [conn |-> k, route |-> route, at |-> now, key |-> TRUE, est |-> None, actual |-> None]
  <2>2. r \in LogRows
    BY <1>1, NewRow
  <2>3. r.actual = None /\ (r.route \in Warehouse => r.conn \in Ids) /\ log' = Append(log, r)
    BY <1>1, <2>1 DEF InsertQueryLog
  <2> HIDE DEF r
  <2>4. ChargesKept
    BY <1>1, <2>2, <2>3, AppendKeeps
  <2>5. LookupsPend'
    BY <1>1, <1>4, <2>4, LookupsLast
  <2>6. LogStep
    BY <2>1, <2>2, <2>3 DEF LogStep
  <2> QED
    BY <1>2, <1>3, <1>4, <2>5, <2>6 DEF SpendStep, TaskStep, AttributionStep
<1> QED
  BY <1>5, <1>6 DEF Query, Warehouse

\* A query of the workbench: it is logged, and its rollup begins.
LEMMA WorkbenchStep ==
  ASSUME SpendInv, NEW h \in Handlers, NEW est \in Costs, workbenchRun(h, est)
  PROVE  SpendStep
<1>1. TypeOK /\ LookupsPend /\ 1 \in Ids /\ h \in Procs /\ est \in {None} \cup Nat
  BY SpendAssumption, ConnNumbers DEF SpendInv, Procs
<1>2. ApiTypeOK' /\ now <= now'
  BY <1>1, ApiStep DEF workbenchRun, ExecuteRowsFails, Call
<1>3. bill' \in [Ids -> [0 .. MaxTime -> {None} \cup Costs]] /\ UNCHANGED attribution
  BY <1>1 DEF workbenchRun, TypeOK
<1> DEFINE t == [Idle EXCEPT !.pc = "select"]
<1>4. t \in Tasks /\ TaskOK(h, t) /\ t.pc = "select"
  BY DEF Idle, Tasks, TaskOK
<1>5. UNCHANGED task \/ Set(h, t)
  BY DEF workbenchRun, ExecuteRowsFails
<1> HIDE DEF t
<1>6. TaskStep
  BY <1>1, <1>4, <1>5 DEF TaskStep
<1>7. CASE UNCHANGED log
  <2>1. ChargesKept
    BY <1>7 DEF ChargesKept
  <2>2. LookupsPend'
    BY <1>1, <1>4, <1>5, <2>1, LookupsLast
  <2> QED
    BY <1>2, <1>3, <1>6, <1>7, <2>2 DEF SpendStep, LogStep, AttributionStep
<1>8. CASE \E k \in {0, 1} : InsertQueryLog(k, "duckdb", FALSE, est)
  <2>1. PICK k \in {0, 1} : InsertQueryLog(k, "duckdb", FALSE, est)
    BY <1>8
  <2> DEFINE r == [conn |-> k, route |-> "duckdb", at |-> now, key |-> FALSE, est |-> est, actual |-> None]
  <2>2. r \in LogRows
    BY <1>1, NewRow DEF Routes
  <2>3. r.actual = None /\ r.route \notin Warehouse /\ log' = Append(log, r)
    BY <2>1 DEF InsertQueryLog, Warehouse
  <2> HIDE DEF r
  <2>4. ChargesKept
    BY <1>1, <2>2, <2>3, AppendKeeps
  <2>5. LookupsPend'
    BY <1>1, <1>4, <1>5, <2>4, LookupsLast
  <2>6. LogStep
    BY <2>2, <2>3 DEF LogStep, workbenchRun
  <2> QED
    BY <1>2, <1>3, <1>6, <2>5, <2>6 DEF SpendStep, AttributionStep
<1> QED
  BY <1>7, <1>8 DEF workbenchRun, ExecuteRowsFails

\* A step that leaves the log and the charges alone, and sets at most a task that does not look up.
LEMMA QuietStep ==
  ASSUME SpendInv, UNCHANGED <<log, bill>>, ApiTypeOK', now <= now', AttributionStep,
         \/ UNCHANGED task
         \/ \E p \in Procs, t \in Tasks :
              /\ Set(p, t) /\ TaskOK(p, t) /\ t.pc # "lookup"
              /\ t.pc = "write" => t.sums = Sums(t.conn, Day(now)) /\ UNCHANGED now
  PROVE  SpendStep
<1>1. TypeOK /\ LookupsPend
  BY DEF SpendInv
<1>2. ChargesKept
  BY DEF ChargesKept
<1>3. LookupsPend'
  BY <1>1, <1>2, LookupsLast
<1>4. TaskStep
  BY DEF TaskStep
<1>5. bill' \in [Ids -> [0 .. MaxTime -> {None} \cup Costs]]
  BY <1>1 DEF TypeOK
<1> QED
  BY <1>3, <1>4, <1>5 DEF SpendStep, LogStep

\* Tasks a rollup may come to, and an idle one.
LEMMA Places ==
  ASSUME NEW p \in Procs
  PROVE  /\ Idle \in Tasks /\ TaskOK(p, Idle) /\ Idle.pc = "idle"
         /\ \A todo \in SUBSET DOMAIN log :
              LET t == [Idle EXCEPT !.pc = "estimate", !.todo = todo]
              IN  t \in Tasks /\ TaskOK(p, t) /\ t.pc = "estimate"
         /\ \A c \in Ids :
              LET t == [Idle EXCEPT !.pc = "sum", !.conn = c]
              IN  t \in Tasks /\ TaskOK(p, t) /\ t.pc = "sum"
<1>1. 0 \notin Ids
  BY ConnNumbers
<1> QED
  BY <1>1 DEF Idle, Tasks, TaskOK

\* What a tick selects is without a charge, and was run by a warehouse.
LEMMA TickStep == ASSUME SpendInv, tick PROVE SpendStep
<1>1. TypeOK /\ LookupsPend /\ Cron \in Procs
  BY DEF SpendInv, Procs
<1>2. ApiTypeOK' /\ now <= now' /\ AttributionStep
  BY <1>1, ApiStep DEF tick, AttributionStep
<1>3. CASE UNCHANGED task
  BY <1>2, <1>3, QuietStep DEF tick
<1>4. CASE task' # task
  <2> DEFINE t == [Idle EXCEPT !.pc = IF Pending = {} THEN "select" ELSE "lookup", !.todo = Pending]
  <2>1. Pending \subseteq DOMAIN log
    BY DEF Pending, Newest, Last24h
  <2>2. t \in Tasks /\ TaskOK(Cron, t) /\ t.todo = Pending /\ t.pc \in {"select", "lookup"}
        /\ (t.pc = "lookup" => Pending # {})
    BY <2>1 DEF Idle, Tasks, TaskOK
  <2>3. Set(Cron, t)
    BY <1>4 DEF tick
  <2> HIDE DEF t
  <2>4. task'[Cron] = t
    BY <1>1, <2>3 DEF Set, TypeOK
  <2>5. LookupsPend'
    <3>1. \A i \in Pending : log[i].actual = None /\ log[i].route \in Warehouse
      BY DEF Pending, Newest
    <3>2. log' = log
      BY DEF tick
    <3> QED
      BY <2>2, <2>4, <3>1, <3>2 DEF LookupsPend
  <2>6. TaskStep
    BY <1>1, <2>2, <2>3 DEF TaskStep
  <2>7. bill' \in [Ids -> [0 .. MaxTime -> {None} \cup Costs]] /\ LogStep
    BY <1>1 DEF tick, TypeOK, LogStep
  <2> QED
    BY <1>2, <2>5, <2>6, <2>7 DEF SpendStep
<1> QED
  BY <1>3, <1>4

\* What a lookup gives is a charge, or nothing.
LEMMA LookupCostType ==
  ASSUME TypeOK, NEW c \in Ids, NEW t \in 0 .. MaxTime
  PROVE  LookupCost(c, t) \in {None} \cup Nat
<1> DEFINE S == {k \in Ids : Conns[k] = Conns[c]}
<1>1. S \in SUBSET Nat /\ S # {} /\ S \subseteq Ids
  BY ConnNumbers
<1>2. Min(S) \in Ids
  <2> HIDE DEF S
  <2> QED
    BY <1>1, MinIsIn
<1> DEFINE of == Min(S)
<1> HIDE DEF S
<1>3. bill[of][t] \in {None} \cup Nat
  BY <1>2, SpendAssumption DEF TypeOK
<1>4. LookupCost(c, t) = IF bill[of][t] = None /\ Conns[of] = "bigquery" THEN 0 ELSE bill[of][t]
  BY DEF LookupCost, S
<1> HIDE DEF of
<1> QED
  BY <1>3, <1>4

\* A task that has dealt with a row goes on to the next, or to the next statement.
LEMMA AdvanceType ==
  ASSUME TypeOK, NEW p \in Procs, NEW i, NEW next,
         <<task[p].pc, next>> \in {<<"lookup", "select">>, <<"estimate", "sum">>}
  PROVE  /\ Advance(p, i, next) \in Tasks /\ TaskOK(p, Advance(p, i, next))
         /\ Advance(p, i, next).todo = task[p].todo \ {i}
         /\ Advance(p, i, next).pc # "write"
         /\ Advance(p, i, next).pc = (IF task[p].todo \ {i} = {} THEN next ELSE task[p].pc)
<1> DEFINE old == task[p]
           rest == old.todo \ {i}
           new == Advance(p, i, next)
<1>1. old \in Tasks /\ TaskOK(p, old)
  BY DEF TypeOK
<1>2. new = [old EXCEPT !.todo = rest, !.pc = IF rest = {} THEN next ELSE @, !.conn = IF rest = {} /\ next = "sum" THEN 1 ELSE 0]
  BY DEF Advance
<1> HIDE DEF old, new
<1>3. 1 \in Ids /\ 0 \notin Ids
  BY ConnNumbers
<1>4. /\ new.todo = rest
      /\ new.pc = IF rest = {} THEN next ELSE old.pc
      /\ new.conn = IF rest = {} /\ next = "sum" THEN 1 ELSE 0
      /\ new.sums = old.sums
      /\ new \in Tasks
  BY <1>1, <1>2, <1>3 DEF Tasks, old
<1>5. TaskOK(p, new)
  BY <1>1, <1>3, <1>4 DEF TaskOK, old
<1> QED
  BY <1>4, <1>5 DEF new, old

\* The backfiller writes a charge into a row that has none.
LEMMA LookupStep == ASSUME SpendInv, NEW p \in Procs, lookup(p) PROVE SpendStep
<1>1. TypeOK /\ LookupsPend /\ ChargedRan /\ task[p].pc = "lookup"
  BY DEF SpendInv, lookup
<1>2. p = Cron
  BY <1>1 DEF TypeOK, TaskOK
<1>3. ApiTypeOK' /\ now <= now' /\ AttributionStep /\ UNCHANGED bill
  <2>1. ApiTypeOK' /\ now <= now'
    BY <1>1, ApiStep DEF lookup
  <2> QED
    BY <2>1 DEF lookup, AttributionStep
<1> DEFINE todo == task[p].todo
           i == Max(todo)
           cost == LookupCost(log[i].conn, log[i].at)
           t == Advance(p, i, "select")
<1>4. todo # {} /\ todo \subseteq DOMAIN log /\ \A k \in todo : log[k].actual = None /\ log[k].route \in Warehouse
  BY <1>1, <1>2 DEF LookupsPend, TypeOK, Tasks
<1>5. i \in todo /\ i \in DOMAIN log
  <2>1. todo \in SUBSET Nat /\ (\A k \in todo : k <= Len(log)) /\ Len(log) \in Nat
    BY <1>1, <1>4, LogType
  <2> HIDE DEF todo
  <2>2. Max(todo) \in todo
    BY <1>4, <2>1, MaxIsIn
  <2> QED
    BY <1>4, <2>2
<1>6. cost \in {None} \cup Nat
  <2>1. log[i] \in LogRows
    BY <1>1, <1>5, LogType
  <2>2. log[i].conn \in Ids
    BY <1>1, <1>4, <1>5 DEF ChargedRan
  <2>3. log[i].at \in 0 .. MaxTime
    <3>1. now \in Nat /\ MaxTime \in Nat /\ now <= MaxTime
      BY <1>1, ApiAssumption DEF TypeOK, ApiTypeOK
    <3> QED
      BY <2>1, <3>1 DEF LogRows
  <2> QED
    BY <1>1, <2>2, <2>3, LookupCostType
<1>7. /\ t \in Tasks /\ TaskOK(p, t) /\ t.todo = todo \ {i} /\ t.pc # "write"
      /\ t.pc = (IF todo \ {i} = {} THEN "select" ELSE "lookup")
  <2> HIDE DEF i
  <2>1. <<task[p].pc, "select">> \in {<<"lookup", "select">>, <<"estimate", "sum">>}
    BY <1>1
  <2>2. /\ Advance(p, i, "select") \in Tasks /\ TaskOK(p, Advance(p, i, "select"))
        /\ Advance(p, i, "select").todo = task[p].todo \ {i}
        /\ Advance(p, i, "select").pc # "write"
        /\ Advance(p, i, "select").pc = (IF task[p].todo \ {i} = {} THEN "select" ELSE task[p].pc)
    BY <1>1, <2>1, AdvanceType
  <2> QED
    BY <1>1, <2>2
<1>8. CASE Set(p, Idle) /\ UNCHANGED log
  <2>1. Idle \in Tasks /\ TaskOK(p, Idle) /\ Idle.pc = "idle"
    BY Places
  <2> QED
    BY <1>3, <1>8, <2>1, QuietStep
<1>9. CASE /\ Set(p, t)
           /\ UNCHANGED log \/ (cost # None /\ log' = [log EXCEPT ![i].actual = cost])
  <2>1. LogStep
    BY <1>4, <1>5, <1>6, <1>9 DEF LogStep
  <2> HIDE DEF t, i, todo
  <2>2. TaskStep
    BY <1>7, <1>9 DEF TaskStep
  <2>3. task'[Cron] = t
    BY <1>1, <1>2, <1>9 DEF Set, TypeOK
  <2>4. \A k \in todo \ {i} : log'[k] = log[k]
    BY <1>4, <1>9
  <2>5. LookupsPend'
    BY <1>4, <1>7, <2>3, <2>4 DEF LookupsPend
  <2>6. bill' \in [Ids -> [0 .. MaxTime -> {None} \cup Costs]]
    BY <1>1, <1>3 DEF TypeOK
  <2> QED
    BY <1>3, <2>1, <2>2, <2>5, <2>6 DEF SpendStep
<1> HIDE DEF cost, t
<1>10. \/ Set(p, Idle) /\ UNCHANGED log
       \/ /\ Set(p, t)
          /\ UNCHANGED log \/ (cost # None /\ log' = [log EXCEPT ![i].actual = cost])
  BY DEF lookup, cost, t
<1> QED
  BY <1>8, <1>9, <1>10

\* The select of the rows without an estimate.
LEMMA SelectStep == ASSUME SpendInv, NEW p \in Procs, selectUnestimated(p) PROVE SpendStep
<1>1. TypeOK /\ 1 \in Ids /\ Unestimated \in SUBSET DOMAIN log
  BY ConnNumbers DEF SpendInv, Unestimated, Newest, Last24h
<1>2. ApiTypeOK' /\ now <= now' /\ AttributionStep /\ UNCHANGED <<log, bill>>
  <2>1. ApiTypeOK' /\ now <= now'
    BY <1>1, ApiStep DEF selectUnestimated
  <2> QED
    BY <2>1 DEF selectUnestimated, AttributionStep
<1> DEFINE s == [Idle EXCEPT !.pc = "sum", !.conn = 1]
           e == [Idle EXCEPT !.pc = "estimate", !.todo = Unestimated]
<1>3. s \in Tasks /\ TaskOK(p, s) /\ s.pc = "sum" /\ e \in Tasks /\ TaskOK(p, e) /\ e.pc = "estimate"
  BY <1>1, Places
<1>4. Set(p, s) \/ Set(p, e)
  BY DEF selectUnestimated
<1> HIDE DEF s, e
<1> QED
  BY <1>2, <1>3, <1>4, QuietStep

\* An estimate is written: no charge is.
LEMMA EstimateStep == ASSUME SpendInv, NEW p \in Procs, backfillEstimatedCost(p) PROVE SpendStep
<1>1. TypeOK /\ LookupsPend /\ task[p].pc = "estimate"
  BY DEF SpendInv, backfillEstimatedCost
<1>2. ApiTypeOK' /\ now <= now' /\ AttributionStep /\ UNCHANGED bill
  <2>1. ApiTypeOK' /\ now <= now'
    BY <1>1, ApiStep DEF backfillEstimatedCost
  <2> QED
    BY <2>1 DEF backfillEstimatedCost, AttributionStep
<1> DEFINE i == Max(task[p].todo)
           v == EstimateSQL(log[i].conn)
           t == Advance(p, i, "sum")
<1>3. UNCHANGED log \/ log' = [log EXCEPT ![i].est = v]
  BY DEF backfillEstimatedCost
<1>4. Set(p, t)
  BY DEF backfillEstimatedCost
<1>5. v \in Nat
  BY SpendAssumption DEF EstimateSQL, CostForBytes
<1> HIDE DEF i, v
<1>6. t \in Tasks /\ TaskOK(p, t) /\ t.pc \notin {"write", "lookup"}
  <2>1. <<task[p].pc, "sum">> \in {<<"lookup", "select">>, <<"estimate", "sum">>}
    BY <1>1
  <2>2. /\ Advance(p, i, "sum") \in Tasks /\ TaskOK(p, Advance(p, i, "sum"))
        /\ Advance(p, i, "sum").todo = task[p].todo \ {i}
        /\ Advance(p, i, "sum").pc # "write"
        /\ Advance(p, i, "sum").pc = (IF task[p].todo \ {i} = {} THEN "sum" ELSE task[p].pc)
    BY <1>1, <2>1, AdvanceType
  <2> QED
    BY <1>1, <2>2
<1> HIDE DEF t
<1>7. \A k \in DOMAIN log : log[k] \in LogRows
  BY <1>1, LogType
<1>8. ChargesKept
  BY <1>3, <1>7 DEF ChargesKept, LogRows
<1>9. LookupsPend'
  BY <1>1, <1>4, <1>6, <1>8, LookupsLast
<1>10. LogStep
  <2>1. CASE i \in DOMAIN log
    <3>1. i \in Nat
      BY <1>1, <2>1, LogType
    <3> QED
      BY <1>3, <1>5, <3>1 DEF LogStep
  <2>2. CASE i \notin DOMAIN log
    <3>1. log' = log
      <4>1. log = [k \in 1 .. Len(log) |-> log[k]]
        BY <1>1, LogType
      <4> QED
        BY <1>3, <2>2, <4>1
    <3> QED
      BY <3>1 DEF LogStep
  <2> QED
    BY <2>1, <2>2
<1>11. TaskStep
  BY <1>4, <1>6 DEF TaskStep
<1>12. bill' \in [Ids -> [0 .. MaxTime -> {None} \cup Costs]]
  BY <1>1, <1>2 DEF TypeOK
<1> QED
  BY <1>2, <1>9, <1>10, <1>11, <1>12 DEF SpendStep

\* The select of a rollup: the sums of today, from the log of now.
LEMMA RollupSelectStep == ASSUME SpendInv, NEW p \in Procs, rollupSelect(p) PROVE SpendStep
<1>1. TypeOK /\ ChargedRan /\ task[p].pc = "sum"
  BY DEF SpendInv, rollupSelect
<1>2. ApiTypeOK' /\ now <= now' /\ AttributionStep /\ UNCHANGED <<log, bill>> /\ UNCHANGED now
  <2>1. ApiTypeOK' /\ now <= now'
    BY <1>1, ApiStep DEF rollupSelect
  <2> QED
    BY <2>1 DEF rollupSelect, AttributionStep
<1>3. Idle \in Tasks /\ TaskOK(p, Idle) /\ Idle.pc = "idle"
  BY Places
<1> DEFINE old == task[p]
           sums == Sums(old.conn, Day(now))
           t == [old EXCEPT !.pc = "write", !.sums = sums]
<1>4. Set(p, t) \/ Set(p, Idle)
  BY DEF rollupSelect, EndRollup
<1>5. sums \in Figures
  BY <1>1, SumsType DEF SumsTyped
<1> HIDE DEF sums
<1>6. old \in Tasks /\ TaskOK(p, old)
  BY <1>1 DEF TypeOK
<1>7. t \in Tasks /\ TaskOK(p, t) /\ t.pc = "write" /\ t.sums = sums /\ t.conn = old.conn
  BY <1>1, <1>5, <1>6 DEF TaskOK, Tasks
<1>8. t.sums = Sums(t.conn, Day(now))
  BY <1>7 DEF sums
<1> HIDE DEF t, old
<1> QED
  BY <1>2, <1>3, <1>4, <1>7, <1>8, QuietStep

\* The upsert of a rollup: what it read, under the day it has become.
LEMMA RollupUpsertStep == ASSUME SpendInv, NEW p \in Procs, rollupUpsert(p) PROVE SpendStep
<1>1. TypeOK /\ task[p].pc = "write"
  BY DEF SpendInv, rollupUpsert
<1>2. UNCHANGED <<log, bill>> /\ UNCHANGED now
  BY DEF rollupUpsert
<1>3. ApiTypeOK' /\ now <= now'
  BY <1>1, ApiStep DEF rollupUpsert
<1>4. AttributionStep
  BY <1>1, <1>2 DEF rollupUpsert, AttributionStep
<1>5. Idle \in Tasks /\ TaskOK(p, Idle) /\ Idle.pc = "idle"
  BY Places
<1> DEFINE t == [Idle EXCEPT !.pc = "sum", !.conn = task[p].conn + 1]
<1>6. Set(p, Idle) \/ (Set(p, t) /\ task[p].conn # Len(Conns))
  BY DEF rollupUpsert, EndRollup
<1>7. task[p].conn # Len(Conns) => t \in Tasks /\ TaskOK(p, t) /\ t.pc = "sum"
  <2>1. task[p].conn \in Ids
    BY <1>1 DEF TypeOK, TaskOK, Tasks
  <2>2. task[p].conn # Len(Conns) => task[p].conn + 1 \in Ids
    BY <2>1, ConnNumbers
  <2> QED
    BY <2>2, Places
<1> HIDE DEF t
<1> QED
  BY <1>2, <1>3, <1>4, <1>5, <1>6, <1>7, QuietStep

\* A report reads.
LEMMA ReportStep ==
  ASSUME SpendInv, queryAnalytics \/ savings \/ spendBreakdown \/ costForecast \/ costAttributionCSV
  PROVE  SpendStep
<1>1. TypeOK
  BY DEF SpendInv
<1>2. \A op, body : Ask(op, body) =>
        /\ UNCHANGED <<log, bill, attribution, task, now>>
        /\ UNCHANGED calls \/ (calls < MaxCalls /\ calls' = calls + 1)
        /\ Works \/ Fails
  BY DEF Ask, Serve, Refuse, Call, spendVars
<1>3. /\ UNCHANGED <<log, bill, attribution, task, now>>
      /\ UNCHANGED calls \/ (calls < MaxCalls /\ calls' = calls + 1)
      /\ Works \/ Fails
  BY <1>2 DEF queryAnalytics, savings, spendBreakdown, costForecast, costAttributionCSV
<1>4. ApiTypeOK' /\ now <= now'
  BY <1>1, <1>3, ApiStep
<1> QED
  BY <1>3, <1>4, QuietStep DEF AttributionStep

\* Every step of the specification is such a step.
LEMMA NextIsSpendStep == ASSUME SpendInv, [Next]_vars PROVE SpendStep
<1>1. TypeOK
  BY DEF SpendInv
<1>2. CASE UNCHANGED vars
  <2>1. UNCHANGED <<log, bill, attribution, task, now, calls, faults>>
    BY <1>2 DEF vars, spendVars, api
  <2>2. ApiTypeOK' /\ now <= now'
    BY <1>1, <2>1, ApiStep DEF Works
  <2> QED
    BY <2>1, <2>2, QuietStep DEF AttributionStep
<1>3. ASSUME NEW c \in Served, NEW r \in Routes, NEW cost \in Costs, Query(c, r, cost) PROVE SpendStep
  BY <1>3, QueryStep
<1>4. ASSUME NEW h \in Free({x \in Handlers : task[x].pc = "idle"}), NEW est \in Costs, workbenchRun(h, est)
      PROVE  SpendStep
  BY <1>4, FreeIsIn, WorkbenchStep
<1>5. CASE tick
  BY <1>5, TickStep
<1>6. ASSUME NEW p \in Procs, Backfill(p) PROVE SpendStep
  BY <1>6, LookupStep, SelectStep, EstimateStep, RollupSelectStep, RollupUpsertStep DEF Backfill
<1>7. ASSUME NEW p \in Procs, Stop(p) PROVE SpendStep
  <2>1. UNCHANGED <<log, bill, attribution, now, calls>> /\ Set(p, Idle) /\ Fails
    BY <1>7 DEF Stop
  <2>2. ApiTypeOK' /\ now <= now'
    BY <1>1, <2>1, ApiStep
  <2>3. Idle \in Tasks /\ TaskOK(p, Idle) /\ Idle.pc = "idle"
    BY Places
  <2> QED
    BY <2>1, <2>2, <2>3, QuietStep DEF AttributionStep
<1>8. CASE queryAnalytics \/ savings \/ spendBreakdown \/ costForecast \/ costAttributionCSV
  BY <1>8, ReportStep
<1>9. CASE Clock /\ UNCHANGED spendVars
  <2>1. UNCHANGED <<log, bill, attribution, task, calls>> /\ Works /\ now < MaxTime /\ now' = now + 1
    BY <1>9 DEF Clock, spendVars, Works
  <2>2. ApiTypeOK' /\ now <= now'
    BY <1>1, <2>1, ApiStep
  <2> QED
    BY <2>1, <2>2, QuietStep DEF AttributionStep
<1> QED
  BY <1>2, <1>3, <1>4, <1>5, <1>6, <1>7, <1>8, <1>9 DEF Next

-----------------------------------------------------------------------------
\* Before the first query nothing is logged, charged or rolled up.
LEMMA SpendInit == Init => SpendInv
<1> SUFFICES ASSUME Init PROVE SpendInv
  OBVIOUS
<1>1. \A p \in Procs : Idle \in Tasks /\ TaskOK(p, Idle) /\ Idle.pc = "idle"
  BY Places
<1>2. TypeOK
  BY <1>1, ApiAssumption, SpendAssumption DEF Init, ApiInit, TypeOK, ApiTypeOK
<1>3. ChargedRan
  BY DEF Init, ChargedRan
<1>4. LookupsPend /\ SumsBacked
  BY <1>1 DEF Init, LookupsPend, SumsBacked, Procs
<1>5. AttributionBacked
  BY DEF Init, AttributionBacked
<1> QED
  BY <1>2, <1>3, <1>4, <1>5 DEF SpendInv

\* SpendInv holds in every reachable state: the types of the tables and tasks, what the
\* backfiller has selected is still without a charge, and what a rollup has read or written
\* is backed by the log of one day.
THEOREM SpendInductive == Spec => []SpendInv
<1>1. SpendInv /\ [Next]_vars => SpendInv'
  BY NextIsSpendStep, StepKeeps
<1> QED
  BY <1>1, SpendInit, PTL DEF Spec

\* No figure of cost_attribution is made up, whatever rollups of the backfiller and of
\* workbench requests overlap, fail, stop or pass midnight between their select and their
\* upsert (internal/cost): counts and warehouse cost are at most what query_log holds for
\* the row's own day or an earlier one.
THEOREM AttributionIsBacked == Spec => []AttributionBacked
<1>1. SpendInv => AttributionBacked
  BY DEF SpendInv
<1> QED
  BY <1>1, SpendInductive, PTL

\* A row of query_log is never removed, keeps its connection, route and hour, and a charge
\* that was written into it is never written again: no second process looks charges up,
\* and the backfiller's own select is never stale.
THEOREM ChargesAreFinal == Spec => [][LogGrows]_vars
<1>1. SpendInv /\ [Next]_vars => [LogGrows]_vars
  BY NextIsSpendStep, StepTypes
<1> QED
  BY <1>1, SpendInductive, PTL DEF Spec

=============================================================================
