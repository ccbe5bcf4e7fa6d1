------------------------- MODULE ControlPlane_proofs -------------------------
(***************************************************************************)
(* Proofs about ControlPlane for every number of handlers, runners, rows,   *)
(* requests and failures.  A component's variables change in its own steps  *)
(* only, so each has an inductive invariant of its own, which the last      *)
(* section puts together.                                                   *)
(***************************************************************************)
EXTENDS ControlPlane, FiniteSetTheorems, TLAPS

-----------------------------------------------------------------------------
(* Scheduled queries.                                                       *)

Query == [state : {"absent", "live", "deleted"}, next : 0 .. MaxTime + 1, last : {None, "success"}]
Run == [query : Queries, at : 0 .. MaxTime, status : {"running", "success", "deleted"}]
Runner == [pc : {"idle", "insert", "finish", "advance"}, todo : Seq(Queries), run : Nat]

\* A function on the positions of a sequence is a sequence of the same length.
LEMMA Mapped ==
  ASSUME NEW S, NEW s \in Seq(S), NEW T, NEW f, DOMAIN f = DOMAIN s, \A i \in DOMAIN s : f[i] \in T,
         f = [i \in DOMAIN s |-> f[i]]
  PROVE  f \in Seq(T) /\ Len(f) = Len(s)
OBVIOUS

\* Appending to a sequence.
LEMMA Appended ==
  ASSUME NEW S, NEW s \in Seq(S), NEW x \in S
  PROVE  /\ Append(s, x) \in Seq(S) /\ Len(Append(s, x)) = Len(s) + 1 /\ Len(s) \in Nat
         /\ Append(s, x)[Len(s) + 1] = x
         /\ \A i \in DOMAIN s : i \in DOMAIN Append(s, x) /\ Append(s, x)[i] = s[i]
         /\ \A i \in DOMAIN Append(s, x) : i \in DOMAIN s \/ i = Len(s) + 1
OBVIOUS

\* Replacing an element of a sequence.
LEMMA Replaced ==
  ASSUME NEW S, NEW s \in Seq(S), NEW k \in DOMAIN s, NEW x \in S
  PROVE  /\ [s EXCEPT ![k] = x] \in Seq(S) /\ Len([s EXCEPT ![k] = x]) = Len(s)
         /\ DOMAIN [s EXCEPT ![k] = x] = DOMAIN s
         /\ \A i \in DOMAIN s : [s EXCEPT ![k] = x][i] = IF i = k THEN x ELSE s[i]
OBVIOUS

\* The rows a tick selects are a sequence of queries.
LEMMA BatchTyped == ASSUME NEW s \in Batches PROVE s \in Seq(Queries)
<1> DEFINE due == {q \in Queries : Due(q)}
           size == IF Cardinality(due) < Limit THEN Cardinality(due) ELSE Limit
<1>1. IsFiniteSet(due)
  BY LimitAssumption, FS_Subset
<1>2. size \in Nat
  BY <1>1, LimitAssumption, FS_CardinalityType
<1>3. s \in [1 .. size -> due]
  BY DEF Batches
<1> HIDE DEF size, due
<1>4. due \subseteq Queries
  BY DEF due
<1>5. s \in [1 .. size -> Queries]
  BY <1>3, <1>4
<1> QED BY <1>2, <1>5

\* Initially no query is registered and every runner is idle.
LEMMA SchedulerInitial == SchedulerInit => SchedulerTypeOK
<1> SUFFICES ASSUME SchedulerInit PROVE SchedulerTypeOK
  OBVIOUS
<1>1. sq \in [Queries -> Query]
  BY ApiAssumption DEF SchedulerInit, Query
<1>2. runner \in [Runners -> Runner] /\ \A r \in Runners : runner[r] = IdleRunner
  BY DEF SchedulerInit, Runner, IdleRunner
<1>3. \A r \in Runners : runner[r].run = 0 /\ runner[r].pc = "idle" /\ runner[r].todo = <<>>
  BY <1>2 DEF IdleRunner
<1>4. runs = <<>>
  BY DEF SchedulerInit
<1> QED BY <1>1, <1>2, <1>3, <1>4 DEF SchedulerTypeOK, Query, Runner

\* A runner moves to a step that fits its rows, and its run row exists.
LEMMA RunnerMoves ==
  ASSUME SchedulerTypeOK, NEW r \in Runners, NEW x \in Runner, runner' = [runner EXCEPT ![r] = x],
         runs' \in Seq(Run), Len(runs) <= Len(runs'), x.run <= Len(runs'), x.pc = "idle" <=> x.todo = <<>>,
         sq' \in [Queries -> Query]
  PROVE  SchedulerTypeOK'
<1>1. runner \in [Runners -> Runner] /\ runs \in Seq(Run)
  BY DEF SchedulerTypeOK, Runner, Run
<1>2. runner' \in [Runners -> Runner]
  BY <1>1
<1>3. ASSUME NEW p \in Runners PROVE runner'[p].run <= Len(runs') /\ (runner'[p].pc = "idle" <=> runner'[p].todo = <<>>)
  <2>1. CASE p = r
    BY <1>1, <2>1
  <2>2. CASE p # r
    <3>1. runner'[p] = runner[p]
      BY <1>1, <2>2
    <3>2. runner[p].run <= Len(runs) /\ (runner[p].pc = "idle" <=> runner[p].todo = <<>>)
      BY DEF SchedulerTypeOK
    <3>3. runner[p].run \in Nat /\ Len(runs) \in Nat /\ Len(runs') \in Nat
      BY <1>1 DEF Runner
    <3> QED BY <3>1, <3>2, <3>3
  <2> QED BY <2>1, <2>2
<1> QED BY <1>2, <1>3 DEF SchedulerTypeOK, Query, Run, Runner

\* After a row the runner takes the next one, or is idle.
LEMMA NextRowMoves ==
  ASSUME SchedulerTypeOK, NEW r \in Runners, runner[r].pc # "idle", NextRow(r)
  PROVE  \E x \in Runner : runner' = [runner EXCEPT ![r] = x] /\ x.run = 0 /\ (x.pc = "idle" <=> x.todo = <<>>)
<1> DEFINE rest == Tail(runner[r].todo)
           x == IF rest = <<>> THEN IdleRunner ELSE [pc |-> "insert", todo |-> rest, run |-> 0]
<1>1. runner[r].todo \in Seq(Queries) /\ runner[r].todo # <<>>
  BY DEF SchedulerTypeOK
<1>2. rest \in Seq(Queries)
  BY <1>1
<1>3. runner' = [runner EXCEPT ![r] = x]
  BY DEF NextRow
<1> HIDE DEF rest
<1>4. x \in Runner /\ x.run = 0 /\ (x.pc = "idle" <=> x.todo = <<>>)
  BY <1>2 DEF IdleRunner, Runner
<1> QED BY <1>3, <1>4

\* A step of the scheduler keeps the types of its tables and runners.
LEMMA SchedulerStep == ApiTypeOK /\ SchedulerTypeOK /\ SchedulerNext => SchedulerTypeOK'
<1> SUFFICES ASSUME ApiTypeOK, SchedulerTypeOK, SchedulerNext PROVE SchedulerTypeOK'
  OBVIOUS
<1> USE ApiAssumption
<1>0. /\ now \in 0 .. MaxTime /\ MaxTime \in Nat /\ Len(runs) \in Nat
      /\ sq \in [Queries -> Query] /\ runs \in Seq(Run) /\ runner \in [Runners -> Runner]
  BY DEF ApiTypeOK, SchedulerTypeOK, Query, Run, Runner
<1>f. ASSUME UNCHANGED runner, runs' \in Seq(Run), Len(runs') = Len(runs), sq' \in [Queries -> Query]
      PROVE  SchedulerTypeOK'
  BY <1>f DEF SchedulerTypeOK, Query, Run
<1>1. ASSUME NEW q \in Queries, createScheduledQuery(q) PROVE SchedulerTypeOK'
  <2> DEFINE v == [sq[q] EXCEPT !.state = "live", !.next = now]
  <2>1. UNCHANGED <<runs, runner>> /\ (sq' = sq \/ sq' = [sq EXCEPT ![q] = v])
    BY <1>1 DEF createScheduledQuery
  <2>2. v \in Query
    <3>1. sq[q] \in Query /\ now \in 0 .. MaxTime + 1
      BY <1>0
    <3> QED BY <3>1 DEF Query
  <2> HIDE DEF v
  <2>3. sq' \in [Queries -> Query]
    BY <1>0, <2>1, <2>2
  <2> QED BY <1>0, <1>f, <2>1, <2>3
<1>2. ASSUME NEW q \in Queries, deleteScheduledQuery(q) PROVE SchedulerTypeOK'
  <2> DEFINE v == [sq[q] EXCEPT !.state = "deleted"]
             gone == [i \in DOMAIN runs |-> IF runs[i].query = q THEN [runs[i] EXCEPT !.status = "deleted"] ELSE runs[i]]
  <2>1. UNCHANGED runner /\ ((sq' = sq /\ runs' = runs) \/ (sq' = [sq EXCEPT ![q] = v] /\ runs' = gone))
    BY <1>2 DEF deleteScheduledQuery
  <2>2. v \in Query
    BY <1>0 DEF Query
  <2>3. gone \in Seq(Run) /\ Len(gone) = Len(runs)
    <3>1. \A i \in DOMAIN runs : runs[i] \in Run
      BY <1>0
    <3>2. \A i \in DOMAIN runs : gone[i] \in Run
      BY <3>1 DEF Run
    <3>3. DOMAIN gone = DOMAIN runs /\ gone = [i \in DOMAIN runs |-> gone[i]]
      OBVIOUS
    <3> HIDE DEF gone
    <3> QED BY <1>0, <3>2, <3>3, Mapped
  <2> HIDE DEF v, gone
  <2>4. sq' \in [Queries -> Query]
    BY <1>0, <2>1, <2>2
  <2> QED BY <1>0, <1>f, <2>1, <2>3, <2>4
<1>3. CASE listScheduledQueries
  BY <1>0, <1>3, <1>f DEF listScheduledQueries, schedulerVars
<1>4. ASSUME NEW r \in Runners, Tick(r) PROVE SchedulerTypeOK'
  <2>1. PICK s \in Batches : s # <<>> /\ runner' = [runner EXCEPT ![r] = [pc |-> "insert", todo |-> s, run |-> 0]]
    BY <1>4 DEF Tick
  <2>2. s \in Seq(Queries) /\ UNCHANGED <<sq, runs>>
    BY <1>4, BatchTyped DEF Tick
  <2> DEFINE x == [pc |-> "insert", todo |-> s, run |-> 0]
  <2>3. x \in Runner /\ x.run = 0 /\ x.pc = "insert" /\ x.todo = s
    BY <2>2 DEF Runner
  <2> HIDE DEF x
  <2>4. runs' \in Seq(Run) /\ Len(runs) <= Len(runs') /\ x.run <= Len(runs') /\ sq' \in [Queries -> Query]
    BY <1>0, <2>2, <2>3
  <2>5. runner' = [runner EXCEPT ![r] = x] /\ (x.pc = "idle" <=> x.todo = <<>>)
    BY <2>1, <2>3 DEF x
  <2> QED BY <2>3, <2>4, <2>5, RunnerMoves
<1>5. ASSUME NEW r \in Runners, runner[r].pc # "idle", NextRow(r), UNCHANGED runs, sq' \in [Queries -> Query]
      PROVE  SchedulerTypeOK'
  <2>1. PICK x \in Runner : runner' = [runner EXCEPT ![r] = x] /\ x.run = 0 /\ (x.pc = "idle" <=> x.todo = <<>>)
    BY <1>5, NextRowMoves
  <2>2. runs' \in Seq(Run) /\ Len(runs) <= Len(runs') /\ x.run <= Len(runs')
    BY <1>0, <1>5, <2>1
  <2> QED BY <1>5, <2>1, <2>2, RunnerMoves
<1>6. ASSUME NEW r \in Runners, insertRun(r) PROVE SchedulerTypeOK'
  <2> DEFINE q == Head(runner[r].todo)
             new == [query |-> q, at |-> now, status |-> "running"]
             x == [runner[r] EXCEPT !.pc = "finish", !.run = Len(runs')]
  <2>1. runner[r].pc = "insert" /\ sq' = sq
        /\ \/ runs' = Append(runs, new) /\ runner' = [runner EXCEPT ![r] = x]
           \/ NextRow(r) /\ runs' = runs
    BY <1>6 DEF insertRun
  <2>2. CASE NextRow(r) /\ runs' = runs
    BY <1>0, <1>5, <2>1, <2>2
  <2>3. CASE runs' = Append(runs, new) /\ runner' = [runner EXCEPT ![r] = x]
    <3>1. runner[r] \in Runner /\ runner[r].todo \in Seq(Queries) /\ runner[r].todo # <<>>
      BY <1>0, <2>1 DEF Runner, SchedulerTypeOK
    <3>2. new \in Run
      BY <1>0, <3>1 DEF Run
    <3>3. runs' \in Seq(Run) /\ Len(runs') = Len(runs) + 1
      BY <1>0, <2>3, <3>2, Appended
    <3>4. x \in Runner /\ x.run = Len(runs') /\ x.pc = "finish" /\ x.todo = runner[r].todo
      <4>1. Len(runs') \in Nat
        BY <1>0, <3>3
      <4> QED BY <3>1, <4>1 DEF Runner
    <3>5. x.run <= Len(runs') /\ Len(runs) <= Len(runs') /\ (x.pc = "idle" <=> x.todo = <<>>)
      BY <1>0, <3>1, <3>3, <3>4
    <3>6. sq' \in [Queries -> Query] /\ runner' = [runner EXCEPT ![r] = x]
      BY <1>0, <2>1, <2>3
    <3> HIDE DEF x
    <3> QED BY <3>3, <3>4, <3>5, <3>6, RunnerMoves
  <2> QED BY <2>1, <2>2, <2>3
<1>7. ASSUME NEW r \in Runners, finishRun(r) PROVE SchedulerTypeOK'
  <2> DEFINE k == runner[r].run
             v == [runs[k] EXCEPT !.status = IF runs[k].status = "deleted" THEN runs[k].status ELSE "success"]
             x == [runner[r] EXCEPT !.pc = "advance"]
  <2>1. runner[r].pc = "finish" /\ sq' = sq
        /\ \/ runs' = [runs EXCEPT ![k] = v] /\ runner' = [runner EXCEPT ![r] = x]
           \/ NextRow(r) /\ runs' = runs
    BY <1>7 DEF finishRun
  <2>2. CASE NextRow(r) /\ runs' = runs
    BY <1>0, <1>5, <2>1, <2>2
  <2>3. CASE runs' = [runs EXCEPT ![k] = v] /\ runner' = [runner EXCEPT ![r] = x]
    <3>1. runner[r] \in Runner /\ runner[r].todo # <<>> /\ k \in Nat /\ k <= Len(runs)
      BY <1>0, <2>1 DEF Runner, SchedulerTypeOK
    <3>2. runs' \in Seq(Run) /\ Len(runs') = Len(runs)
      <4>1. CASE k \in DOMAIN runs
        <5>1. runs[k] \in Run
          BY <1>0, <4>1
        <5>2. v \in Run
          BY <5>1 DEF Run
        <5> HIDE DEF v, k
        <5> QED BY <1>0, <2>3, <4>1, <5>2, Replaced
      <4>2. CASE k \notin DOMAIN runs
        <5> HIDE DEF v, k
        <5>1. [runs EXCEPT ![k] = v] = runs
          BY <1>0, <4>2
        <5> QED BY <1>0, <2>3, <5>1
      <4> QED BY <4>1, <4>2
    <3>3. x \in Runner /\ x.run = k /\ x.pc = "advance" /\ x.todo = runner[r].todo
      BY <3>1 DEF Runner
    <3>4. x.run <= Len(runs') /\ Len(runs) <= Len(runs') /\ (x.pc = "idle" <=> x.todo = <<>>)
      BY <1>0, <3>1, <3>2, <3>3
    <3>5. sq' \in [Queries -> Query] /\ runner' = [runner EXCEPT ![r] = x]
      BY <1>0, <2>1, <2>3
    <3> HIDE DEF x
    <3> QED BY <3>2, <3>3, <3>4, <3>5, RunnerMoves
  <2> QED BY <2>1, <2>2, <2>3
<1>8. ASSUME NEW r \in Runners, advanceNext(r) PROVE SchedulerTypeOK'
  <2> DEFINE q == Head(runner[r].todo)
             v == [sq[q] EXCEPT !.next = IF Live(q) THEN now + 1 ELSE @, !.last = IF Live(q) THEN "success" ELSE @]
  <2>1. runner[r].pc = "advance" /\ NextRow(r) /\ runs' = runs /\ (sq' = sq \/ sq' = [sq EXCEPT ![q] = v])
    BY <1>8 DEF advanceNext
  <2>2. q \in Queries
    BY <1>0, <2>1 DEF Runner, SchedulerTypeOK
  <2>3. v \in Query
    <3>1. sq[q] \in Query /\ now + 1 \in 0 .. MaxTime + 1
      BY <1>0, <2>2
    <3> QED BY <3>1 DEF Query
  <2> HIDE DEF v, q
  <2>4. sq' \in [Queries -> Query]
    BY <1>0, <2>1, <2>2, <2>3
  <2> QED BY <1>5, <2>1, <2>4
<1>9. ASSUME NEW r \in Runners, StopRunner(r) PROVE SchedulerTypeOK'
  <2>1. IdleRunner \in Runner /\ IdleRunner.run = 0 /\ IdleRunner.pc = "idle" /\ IdleRunner.todo = <<>>
    BY DEF IdleRunner, Runner
  <2>2. UNCHANGED <<sq, runs>> /\ runner' = [runner EXCEPT ![r] = IdleRunner]
    BY <1>9 DEF StopRunner
  <2>3. runs' \in Seq(Run) /\ Len(runs) <= Len(runs') /\ IdleRunner.run <= Len(runs') /\ sq' \in [Queries -> Query]
    BY <1>0, <2>1, <2>2
  <2> QED BY <2>1, <2>2, <2>3, RunnerMoves
<1> QED BY <1>1, <1>2, <1>3, <1>4, <1>6, <1>7, <1>8, <1>9 DEF SchedulerNext, runOne

-----------------------------------------------------------------------------
(* Dashboards.                                                              *)

Version == [version : 1 .. MaxCalls, payload : Payloads]
Editor == [pc : {"idle", "llm", "max", "insert", "mirror", "show"}, op : {None, "aiEdit", "restore", "public"},
           dash : Boards \cup {None}, payload : Payloads \cup {None}, next : Nat]

\* A handler at work has a dashboard, has a payload before it reads MAX(version), and has
\* read a number that is not past the end of the history vs.
EditorInv(e, vs) ==
  /\ e.pc # "idle" => e.dash \in Boards
  /\ e.pc \in {"max", "insert", "mirror"} => e.payload \in Payloads
  /\ e.pc = "insert" => e.next \in 1 .. Len(vs[e.dash]) + 1

\* The handlers that may still insert a version; each came with a request of its own, so
\* there are no more versions than requests.
Writing(e) == e.pc \in {"llm", "max", "insert"}
Writers == {h \in Handlers : Writing(editor[h])}
WithinCalls == \A d \in Boards : Len(versions[d]) + Cardinality(Writers) <= calls

DashboardInv ==
  /\ DashboardTypeOK /\ VersionsDense /\ WithinCalls
  /\ \A h \in Handlers : EditorInv(editor[h], versions)

\* Sets of handlers are finite, and counted.
LEMMA HandlersCounted ==
  ASSUME NEW S \in SUBSET Handlers
  PROVE  /\ IsFiniteSet(S) /\ Cardinality(S) \in Nat
         /\ \A T \in SUBSET S : Cardinality(T) \in Nat /\ Cardinality(T) <= Cardinality(S)
         /\ \A h \in Handlers : Cardinality(S \cup {h}) \in Nat /\ Cardinality(S \cup {h}) <= Cardinality(S) + 1
         /\ \A h \in S : Cardinality(S) > 0 /\ Cardinality(S \ {h}) = Cardinality(S) - 1
<1>1. IsFiniteSet(S) /\ Cardinality(S) \in Nat
  BY ApiAssumption, FS_Subset, FS_CardinalityType
<1>2. \A T \in SUBSET S : Cardinality(T) \in Nat /\ Cardinality(T) <= Cardinality(S)
  BY <1>1, FS_Subset, FS_CardinalityType
<1>3. ASSUME NEW h \in Handlers PROVE Cardinality(S \cup {h}) \in Nat /\ Cardinality(S \cup {h}) <= Cardinality(S) + 1
  <2>1. Cardinality(S \cup {h}) = IF h \in S THEN Cardinality(S) ELSE Cardinality(S) + 1
    BY <1>1, FS_AddElement
  <2> QED BY <1>1, <2>1
<1>4. ASSUME NEW h \in S PROVE Cardinality(S) > 0 /\ Cardinality(S \ {h}) = Cardinality(S) - 1
  <2>1. IsFiniteSet(S \ {h}) /\ Cardinality(S \ {h}) = Cardinality(S) - 1
    BY <1>1, FS_RemoveElement
  <2>2. Cardinality(S \ {h}) \in Nat
    BY <2>1, FS_CardinalityType
  <2> QED BY <1>1, <2>1, <2>2
<1> QED BY <1>1, <1>2, <1>3, <1>4

\* A dense history has the numbers up to its length, and no others.
LEMMA DenseVersions ==
  ASSUME DashboardInv, NEW d \in Boards
  PROVE  /\ versions[d] \in Seq(Version) /\ Len(versions[d]) \in Nat
         /\ \A n \in Nat : HasVersion(d, n) <=> n \in 1 .. Len(versions[d])
         /\ {versions[d][i].version : i \in DOMAIN versions[d]} = 1 .. Len(versions[d])
<1>1. versions[d] \in Seq(Version)
  BY DEF DashboardInv, DashboardTypeOK, Version
<1>2. DOMAIN versions[d] = 1 .. Len(versions[d]) /\ Len(versions[d]) \in Nat
  BY <1>1
<1>3. \A i \in DOMAIN versions[d] : versions[d][i].version = i
  BY DEF DashboardInv, VersionsDense
<1> QED BY <1>1, <1>2, <1>3 DEF HasVersion

\* The histories stay and the other handlers too: the invariant needs only the fields of
\* the handler that moved.
LEMMA EditorMoves ==
  ASSUME ApiTypeOK, DashboardInv, NEW h \in Handlers, NEW x \in Editor, editor' = [editor EXCEPT ![h] = x],
         EditorInv(x, versions), UNCHANGED <<versions, snapshots, tokens>>,
         dash' \in [Boards -> Payloads \cup {None}],
         calls' = calls + 1 \/ (calls' = calls /\ (Writing(x) => Writing(editor[h])))
  PROVE  DashboardInv'
<1>1. editor \in [Handlers -> Editor] /\ calls \in Nat
  BY ApiAssumption DEF DashboardInv, DashboardTypeOK, Editor, ApiTypeOK
<1>2. editor' \in [Handlers -> Editor] /\ \A p \in Handlers : editor'[p] = IF p = h THEN x ELSE editor[p]
  BY <1>1
<1>3. DashboardTypeOK' /\ VersionsDense'
  BY <1>2 DEF DashboardInv, DashboardTypeOK, VersionsDense, Editor
<1>4. \A p \in Handlers : EditorInv(editor'[p], versions)
  BY <1>2 DEF DashboardInv
<1>5. WithinCalls'
  <2>1. Writers \in SUBSET Handlers /\ Writers' \in SUBSET Handlers
    BY DEF Writers
  <2>2. CASE calls' = calls + 1
    <3>1. Writers' \subseteq Writers \cup {h}
      BY <1>2 DEF Writers
    <3>2. Writers \cup {h} \in SUBSET Handlers /\ Cardinality(Writers \cup {h}) <= Cardinality(Writers) + 1
          /\ Cardinality(Writers) \in Nat /\ Cardinality(Writers \cup {h}) \in Nat
      BY <2>1, HandlersCounted
    <3>3. Cardinality(Writers') <= Cardinality(Writers \cup {h}) /\ Cardinality(Writers') \in Nat
      BY <3>1, <3>2, HandlersCounted
    <3>4. Cardinality(Writers') <= Cardinality(Writers) + 1
      BY <3>2, <3>3
    <3>5. ASSUME NEW d \in Boards PROVE Len(versions'[d]) + Cardinality(Writers') <= calls'
      <4>1. Len(versions[d]) \in Nat /\ Len(versions[d]) + Cardinality(Writers) <= calls
        BY DenseVersions DEF DashboardInv, WithinCalls
      <4> QED BY <1>1, <2>2, <3>2, <3>3, <3>4, <4>1
    <3> QED BY <3>5 DEF WithinCalls
  <2>3. CASE calls' = calls /\ (Writing(x) => Writing(editor[h]))
    <3>1. Writers' \subseteq Writers
      BY <1>2, <2>3 DEF Writers
    <3>2. Cardinality(Writers') <= Cardinality(Writers) /\ Cardinality(Writers') \in Nat /\ Cardinality(Writers) \in Nat
      BY <2>1, <3>1, HandlersCounted
    <3>3. ASSUME NEW d \in Boards PROVE Len(versions'[d]) + Cardinality(Writers') <= calls'
      <4>1. Len(versions[d]) \in Nat /\ Len(versions[d]) + Cardinality(Writers) <= calls
        BY DenseVersions DEF DashboardInv, WithinCalls
      <4> QED BY <1>1, <2>3, <3>2, <4>1
    <3> QED BY <3>3 DEF WithinCalls
  <2> QED BY <2>2, <2>3
<1> QED BY <1>3, <1>4, <1>5 DEF DashboardInv, EditorInv

\* InsertVersion: the unique key lets only the number after the last one in.
LEMMA InsertMoves ==
  ASSUME ApiTypeOK, DashboardInv, NEW h \in Handlers, editor[h].pc = "insert", ~ HasVersion(editor[h].dash, editor[h].next),
         versions' = [versions EXCEPT ![editor[h].dash] =
                        Append(@, [version |-> editor[h].next, payload |-> editor[h].payload])],
         editor' = [editor EXCEPT ![h].pc = "mirror"], UNCHANGED <<calls, dash, snapshots, tokens>>
  PROVE  DashboardInv'
<1> DEFINE d == editor[h].dash
           n == editor[h].next
           row == [version |-> n, payload |-> editor[h].payload]
           x == [editor[h] EXCEPT !.pc = "mirror"]
<1>1. /\ editor \in [Handlers -> Editor] /\ versions \in [Boards -> Seq(Version)]
      /\ calls \in Nat /\ calls <= MaxCalls /\ MaxCalls \in Nat
  <2>1. MaxCalls \in Nat /\ calls \in 0 .. MaxCalls
    BY ApiAssumption DEF ApiTypeOK
  <2>2. editor \in [Handlers -> Editor] /\ versions \in [Boards -> Seq(Version)]
    BY DEF DashboardInv, DashboardTypeOK, Editor, Version
  <2> QED BY <2>1, <2>2
<1>2. d \in Boards /\ editor[h].payload \in Payloads /\ n \in 1 .. Len(versions[d]) + 1
  BY DEF DashboardInv, EditorInv
<1>3. n = Len(versions[d]) + 1 /\ Len(versions[d]) \in Nat
  <2>1. Len(versions[d]) \in Nat /\ ~ n \in 1 .. Len(versions[d])
    BY <1>2, DenseVersions
  <2> QED BY <1>2, <2>1
<1>4. h \in Writers /\ Writers \in SUBSET Handlers
  BY DEF Writers, Writing
<1>5. Cardinality(Writers) \in Nat /\ Cardinality(Writers) > 0 /\ Cardinality(Writers \ {h}) = Cardinality(Writers) - 1
  BY <1>4, HandlersCounted
<1>6. Len(versions[d]) + Cardinality(Writers) <= calls
  BY <1>2 DEF DashboardInv, WithinCalls
<1>7. n \in 1 .. MaxCalls
  BY <1>1, <1>3, <1>5, <1>6
<1>8. row \in Version /\ row.version = n
  BY <1>2, <1>7 DEF Version
<1>9. x \in Editor /\ x.pc = "mirror" /\ x.dash = d /\ x.payload = editor[h].payload
  <2>1. editor[h] \in Editor
    BY <1>1
  <2> QED BY <2>1 DEF Editor
<1>10. editor' = [editor EXCEPT ![h] = x]
  OBVIOUS
<1>11. editor' \in [Handlers -> Editor] /\ \A p \in Handlers : editor'[p] = IF p = h THEN x ELSE editor[p]
  <2> HIDE DEF x
  <2> QED BY <1>1, <1>9, <1>10
<1>12. Writers' = Writers \ {h}
  BY <1>9, <1>11 DEF Writers, Writing
<1> HIDE DEF row, x
<1>13. /\ versions'[d] = Append(versions[d], row)
       /\ \A b \in Boards : b # d => versions'[b] = versions[b]
       /\ versions' = [versions EXCEPT ![d] = Append(versions[d], row)]
  BY <1>1, <1>2 DEF row
<1>14. /\ Append(versions[d], row) \in Seq(Version) /\ Len(Append(versions[d], row)) = Len(versions[d]) + 1
       /\ Append(versions[d], row)[n] = row
       /\ \A i \in DOMAIN versions[d] : Append(versions[d], row)[i] = versions[d][i]
       /\ \A i \in DOMAIN Append(versions[d], row) : i \in DOMAIN versions[d] \/ i = n
  <2>1. versions[d] \in Seq(Version)
    BY <1>1, <1>2
  <2> QED BY <1>3, <1>8, <2>1, Appended
<1>15. versions' \in [Boards -> Seq(Version)]
  BY <1>1, <1>2, <1>13, <1>14
<1>16. ASSUME NEW b \in Boards
       PROVE  /\ Len(versions[b]) \in Nat /\ Len(versions'[b]) \in Nat
              /\ Len(versions'[b]) = IF b = d THEN Len(versions[b]) + 1 ELSE Len(versions[b])
  <2>1. versions[b] \in Seq(Version)
    BY <1>1
  <2> QED BY <1>13, <1>14, <2>1
<1>17. VersionsDense'
  <2>1. ASSUME NEW b \in Boards, NEW i \in DOMAIN versions'[b] PROVE versions'[b][i].version = i
    <3>1. CASE b = d
      BY <1>8, <1>13, <1>14, <2>1, <3>1 DEF DashboardInv, VersionsDense
    <3>2. CASE b # d
      BY <1>13, <2>1, <3>2 DEF DashboardInv, VersionsDense
    <3> QED BY <3>1, <3>2
  <2> QED BY <2>1 DEF VersionsDense
<1>18. WithinCalls'
  <2>1. ASSUME NEW b \in Boards PROVE Len(versions'[b]) + Cardinality(Writers') <= calls'
    <3>1. Len(versions[b]) + Cardinality(Writers) <= calls
      BY DEF DashboardInv, WithinCalls
    <3> QED BY <1>1, <1>5, <1>12, <1>16, <3>1
  <2> QED BY <2>1 DEF WithinCalls
<1>19. ASSUME NEW p \in Handlers PROVE EditorInv(editor'[p], versions')
  <2>1. CASE p = h
    BY <1>2, <1>9, <1>11, <2>1 DEF EditorInv
  <2>2. CASE p # h
    <3>1. editor'[p] = editor[p] /\ EditorInv(editor[p], versions)
      BY <1>11, <2>2 DEF DashboardInv
    <3>2. ASSUME editor[p].pc = "insert" PROVE editor[p].next \in 1 .. Len(versions'[editor[p].dash]) + 1
      <4>1. editor[p].dash \in Boards /\ editor[p].next \in 1 .. Len(versions[editor[p].dash]) + 1
        BY <3>1, <3>2 DEF EditorInv
      <4> QED BY <1>16, <4>1
    <3> QED BY <3>1, <3>2 DEF EditorInv
  <2> QED BY <2>1, <2>2
<1>20. DashboardTypeOK'
  BY <1>11, <1>15 DEF DashboardInv, DashboardTypeOK, Editor, Version
<1> QED BY <1>17, <1>18, <1>19, <1>20 DEF DashboardInv, EditorInv

\* Before the first request there is no version and no handler at work.
LEMMA DashboardInitial == ApiInit /\ DashboardInit => DashboardInv
<1> SUFFICES ASSUME ApiInit, DashboardInit PROVE DashboardInv
  OBVIOUS
<1>1. versions \in [Boards -> Seq(Version)] /\ \A d \in Boards : versions[d] = <<>>
  BY DEF DashboardInit
<1>2. IdleEditor \in Editor /\ IdleEditor.pc = "idle"
  BY DEF IdleEditor, Editor
<1>3. editor \in [Handlers -> Editor] /\ \A h \in Handlers : editor[h].pc = "idle"
  BY <1>2 DEF DashboardInit
<1>4. DashboardTypeOK
  BY <1>1, <1>3 DEF DashboardInit, DashboardTypeOK, Editor, Version
<1>5. VersionsDense
  BY <1>1 DEF VersionsDense
<1>6. Writers = {}
  BY <1>3 DEF Writers, Writing
<1>7. WithinCalls
  BY <1>1, <1>6, FS_EmptySet DEF WithinCalls, ApiInit
<1> QED BY <1>3, <1>4, <1>5, <1>7 DEF DashboardInv, EditorInv

\* The requests that touch neither a history nor a handler.
LEMMA DashboardFrame ==
  ASSUME ApiTypeOK, DashboardInv, UNCHANGED <<versions, editor>>, calls' \in {calls, calls + 1},
         dash' \in [Boards -> Payloads \cup {None}], snapshots' \subseteq Tokens \X Boards,
         tokens' \in [Tokens -> {None} \cup [dash : Boards, expires : {None} \cup Nat, revoked : BOOLEAN]]
  PROVE  DashboardInv'
<1>1. DashboardTypeOK' /\ VersionsDense' /\ \A h \in Handlers : EditorInv(editor[h], versions)'
  BY DEF DashboardInv, DashboardTypeOK, VersionsDense, EditorInv
<1>2. Writers' = Writers /\ Writers \in SUBSET Handlers
  BY DEF Writers
<1>3. Cardinality(Writers) \in Nat /\ calls \in Nat
  BY <1>2, HandlersCounted, ApiAssumption DEF ApiTypeOK
<1>4. ASSUME NEW d \in Boards PROVE Len(versions'[d]) + Cardinality(Writers') <= calls'
  <2>1. Len(versions[d]) \in Nat /\ Len(versions[d]) + Cardinality(Writers) <= calls
    BY DenseVersions DEF DashboardInv, WithinCalls
  <2> QED BY <1>2, <1>3, <2>1
<1> QED BY <1>1, <1>4 DEF DashboardInv, WithinCalls

\* Sharing: minted tokens are for dashboards, a revoked one stays one.
LEMMA TokensTyped ==
  ASSUME ApiTypeOK, DashboardInv, NEW t \in Tokens,
         Revoke(t) \/ \E d \in Boards, ttl \in 0 .. 1 : createDashboardShare(t, d, ttl)
  PROVE  tokens' \in [Tokens -> {None} \cup [dash : Boards, expires : {None} \cup Nat, revoked : BOOLEAN]]
<1> DEFINE Token == [dash : Boards, expires : {None} \cup Nat, revoked : BOOLEAN]
           gone == IF tokens[t] = None THEN None ELSE [tokens[t] EXCEPT !.revoked = TRUE]
<1>1. tokens \in [Tokens -> {None} \cup Token] /\ now \in Nat
  BY ApiAssumption DEF DashboardInv, DashboardTypeOK, ApiTypeOK
<1>2. gone \in {None} \cup Token
  <2>1. tokens[t] \in {None} \cup Token
    BY <1>1
  <2> QED BY <2>1
<1>3. CASE Revoke(t)
  <2>1. tokens' = tokens \/ tokens' = [tokens EXCEPT ![t] = gone]
    BY <1>3 DEF Revoke
  <2> HIDE DEF gone, Token
  <2>2. tokens' \in [Tokens -> {None} \cup Token]
    BY <1>1, <1>2, <2>1
  <2> QED BY <2>2 DEF Token
<1>4. ASSUME NEW d \in Boards, NEW ttl \in 0 .. 1, createDashboardShare(t, d, ttl)
      PROVE  tokens' \in [Tokens -> {None} \cup Token]
  <2> DEFINE new == [dash |-> d, revoked |-> FALSE, expires |-> IF ttl > 0 THEN now + ttl ELSE None]
  <2>1. tokens' = tokens \/ tokens' = [tokens EXCEPT ![t] = new]
    BY <1>4 DEF createDashboardShare, Mint
  <2>2. now + ttl \in Nat
    BY <1>1
  <2>3. new \in Token
    BY <2>2
  <2> HIDE DEF new, Token
  <2> QED BY <1>1, <2>1, <2>3
<1> QED BY <1>3, <1>4

\* A step of the dashboards' handlers keeps the histories dense and the rest typed.
LEMMA DashboardStep == ApiTypeOK /\ DashboardInv /\ DashboardNext => DashboardInv'
<1> SUFFICES ASSUME ApiTypeOK, DashboardInv, DashboardNext PROVE DashboardInv'
  OBVIOUS
<1>0. /\ dash \in [Boards -> Payloads \cup {None}] /\ snapshots \subseteq Tokens \X Boards
      /\ tokens \in [Tokens -> {None} \cup [dash : Boards, expires : {None} \cup Nat, revoked : BOOLEAN]]
      /\ editor \in [Handlers -> Editor]
  BY DEF DashboardInv, DashboardTypeOK, Editor
<1>i. IdleEditor \in Editor /\ IdleEditor.pc = "idle" /\ EditorInv(IdleEditor, versions) /\ ~ Writing(IdleEditor)
  BY DEF IdleEditor, Editor, EditorInv, Writing
<1>l. ASSUME UNCHANGED dashboardVars, calls' \in {calls, calls + 1} PROVE DashboardInv'
  BY <1>0, <1>l, DashboardFrame DEF dashboardVars
<1>n. \A h \in Free({x \in Handlers : editor[x].pc = "idle"}) : h \in Handlers
  BY DEF Free
<1>1. ASSUME NEW d \in Boards, NEW p \in Payloads, createDashboard(d, p) PROVE DashboardInv'
  <2>1. UNCHANGED <<versions, snapshots, tokens, editor>> /\ calls' = calls + 1
        /\ (dash' = dash \/ dash' = [dash EXCEPT ![d] = p])
    BY <1>1 DEF createDashboard, Serve, Refuse, Call
  <2>2. dash' \in [Boards -> Payloads \cup {None}]
    BY <1>0, <2>1
  <2> QED BY <1>0, <2>1, <2>2, DashboardFrame
<1>2. ASSUME NEW t \in Tokens, NEW d \in Boards, createDashboardSnapshot(t, d) PROVE DashboardInv'
  <2>1. UNCHANGED <<dash, versions, tokens, editor>> /\ calls' = calls + 1
        /\ (snapshots' = snapshots \/ snapshots' = snapshots \cup {<<t, d>>})
    BY <1>2 DEF createDashboardSnapshot, Serve, Refuse, Call
  <2> QED BY <1>0, <2>1, DashboardFrame
<1>3. ASSUME NEW t \in Tokens, NEW d \in Boards, NEW ttl \in 0 .. 1, createDashboardShare(t, d, ttl)
      PROVE  DashboardInv'
  <2>1. UNCHANGED <<dash, versions, snapshots, editor>> /\ calls' = calls + 1
    BY <1>3 DEF createDashboardShare, Serve, Refuse, Call
  <2>2. tokens' \in [Tokens -> {None} \cup [dash : Boards, expires : {None} \cup Nat, revoked : BOOLEAN]]
    BY <1>3, TokensTyped
  <2> QED BY <1>0, <2>1, <2>2, DashboardFrame
<1>4. ASSUME NEW h \in Handlers, NEW x \in Editor, editor' = [editor EXCEPT ![h] = x], EditorInv(x, versions),
             UNCHANGED <<versions, snapshots, tokens, dash>>, calls' = calls + 1
      PROVE  DashboardInv'
  BY <1>0, <1>4, EditorMoves
<1>5. ASSUME NEW h \in Handlers, NEW d \in Boards, dashboardAIEdit(h, d) PROVE DashboardInv'
  <2> DEFINE x == [IdleEditor EXCEPT !.pc = "llm", !.op = "aiEdit", !.dash = d]
  <2>1. UNCHANGED <<dash, versions, snapshots, tokens>> /\ calls' = calls + 1
        /\ (editor' = editor \/ editor' = [editor EXCEPT ![h] = x])
    BY <1>5 DEF dashboardAIEdit, Serve, Refuse, Call
  <2>2. x \in Editor /\ x.pc = "llm" /\ x.dash = d
    BY DEF IdleEditor, Editor
  <2>3. EditorInv(x, versions)
    BY <2>2 DEF EditorInv
  <2> HIDE DEF x
  <2> QED BY <1>l, <1>4, <2>1, <2>2, <2>3 DEF dashboardVars
<1>6. ASSUME NEW h \in Handlers, NEW d \in Boards, NEW v \in 1 .. MaxCalls, restoreDashboardVersion(h, d, v)
      PROVE  DashboardInv'
  <2> DEFINE pay == Payload(d, v)
             x == [IdleEditor EXCEPT !.pc = "max", !.op = "restore", !.dash = d, !.payload = pay]
  <2>1. UNCHANGED <<dash, versions, snapshots, tokens>> /\ calls' = calls + 1
        /\ (editor' = editor \/ (HasVersion(d, v) /\ editor' = [editor EXCEPT ![h] = x]))
    BY <1>6 DEF restoreDashboardVersion, Serve, Refuse, Call
  <2>2. CASE HasVersion(d, v) /\ editor' = [editor EXCEPT ![h] = x]
    <3>1. pay \in Payloads
      <4> DEFINE i == CHOOSE j \in DOMAIN versions[d] : versions[d][j].version = v
      <4>1. i \in DOMAIN versions[d]
        BY <2>2 DEF HasVersion
      <4>2. versions[d] \in Seq(Version)
        BY DenseVersions
      <4>3. \A j \in DOMAIN versions[d] : versions[d][j] \in Version
        BY <4>2
      <4>4. pay = versions[d][i].payload
        BY DEF Payload
      <4> HIDE DEF i, pay
      <4>5. versions[d][i] \in Version
        BY <4>1, <4>3
      <4> QED BY <4>4, <4>5 DEF Version
    <3> HIDE DEF pay
    <3>2. x \in Editor /\ x.pc = "max" /\ x.dash = d /\ x.payload = pay
      BY <3>1 DEF IdleEditor, Editor
    <3>3. EditorInv(x, versions)
      BY <3>1, <3>2 DEF EditorInv
    <3> HIDE DEF x
    <3> QED BY <1>4, <2>1, <2>2, <3>2, <3>3
  <2> QED BY <1>l, <2>1, <2>2 DEF dashboardVars
<1>7. ASSUME NEW h \in Handlers, NEW t \in Tokens, publicDashboard(h, t) PROVE DashboardInv'
  <2> DEFINE x == [IdleEditor EXCEPT !.pc = "show", !.op = "public", !.dash = tokens[t].dash]
  <2>1. UNCHANGED <<dash, versions, snapshots, tokens>> /\ calls' = calls + 1
        /\ (editor' = editor \/ (Resolves(t) /\ editor' = [editor EXCEPT ![h] = x]))
    BY <1>7 DEF publicDashboard, Serve, Refuse, Call
  <2>2. CASE Resolves(t) /\ editor' = [editor EXCEPT ![h] = x]
    <3>1. tokens[t].dash \in Boards
      BY <1>0, <2>2 DEF Resolves
    <3>2. x \in Editor /\ x.pc = "show" /\ x.dash = tokens[t].dash
      BY <3>1 DEF IdleEditor, Editor
    <3>3. EditorInv(x, versions)
      BY <3>1, <3>2 DEF EditorInv
    <3> HIDE DEF x
    <3> QED BY <1>4, <2>1, <2>2, <3>2, <3>3
  <2> QED BY <1>l, <2>1, <2>2 DEF dashboardVars
<1>8. ASSUME NEW h \in Handlers, editor' = [editor EXCEPT ![h] = IdleEditor], UNCHANGED <<calls, versions, snapshots, tokens>>,
             dash' \in [Boards -> Payloads \cup {None}]
      PROVE  DashboardInv'
  BY <1>8, <1>i, EditorMoves
<1>9. ASSUME NEW h \in Handlers, CompleteEdit(h) PROVE DashboardInv'
  <2>1. editor[h].pc = "llm" /\ UNCHANGED <<calls, dash, versions, snapshots, tokens>>
        /\ \/ editor' = [editor EXCEPT ![h] = IdleEditor]
           \/ \E p \in Payloads : editor' = [editor EXCEPT ![h] = [editor[h] EXCEPT !.pc = "max", !.payload = p]]
    BY <1>9 DEF CompleteEdit, End
  <2>2. ASSUME NEW p \in Payloads, editor' = [editor EXCEPT ![h] = [editor[h] EXCEPT !.pc = "max", !.payload = p]]
        PROVE  DashboardInv'
    <3> DEFINE x == [editor[h] EXCEPT !.pc = "max", !.payload = p]
    <3>1. editor[h] \in Editor /\ EditorInv(editor[h], versions)
      BY <1>0 DEF DashboardInv
    <3>2. x \in Editor /\ x.pc = "max" /\ x.dash = editor[h].dash /\ x.payload = p
      BY <3>1 DEF Editor
    <3>3. EditorInv(x, versions) /\ Writing(editor[h])
      BY <2>1, <3>1, <3>2 DEF EditorInv, Writing
    <3> HIDE DEF x
    <3> QED BY <1>0, <2>1, <2>2, <3>2, <3>3, EditorMoves DEF x
  <2> QED BY <1>0, <1>8, <2>1, <2>2
<1>10. ASSUME NEW h \in Handlers, ReadMax(h) PROVE DashboardInv'
  <2> DEFINE d == editor[h].dash
             taken == {versions[d][i].version : i \in DOMAIN versions[d]}
             n == 1 + (IF taken = {} THEN 0 ELSE CHOOSE v \in taken : \A w \in taken : w <= v)
             x == [editor[h] EXCEPT !.pc = "insert", !.next = n]
  <2>1. editor[h].pc = "max" /\ UNCHANGED <<calls, dash, versions, snapshots, tokens>>
        /\ (editor' = [editor EXCEPT ![h] = IdleEditor] \/ editor' = [editor EXCEPT ![h] = x])
    BY <1>10 DEF ReadMax, End
  <2>2. editor[h] \in Editor /\ EditorInv(editor[h], versions) /\ d \in Boards /\ editor[h].payload \in Payloads
    BY <1>0, <2>1 DEF DashboardInv, EditorInv
  <2>3. taken = 1 .. Len(versions[d]) /\ Len(versions[d]) \in Nat
    BY <2>2, DenseVersions
  <2> HIDE DEF taken
  <2>4. n \in 1 .. Len(versions[d]) + 1
    <3>1. CASE taken = {}
      BY <2>3, <3>1
    <3>2. CASE taken # {}
      <4> DEFINE top == CHOOSE v \in taken : \A w \in taken : w <= v
      <4>1. Len(versions[d]) \in taken /\ \A w \in taken : w <= Len(versions[d])
        BY <2>3, <3>2
      <4>2. top \in taken
        BY <4>1
      <4> HIDE DEF top
      <4>3. 1 + top \in 1 .. Len(versions[d]) + 1
        BY <2>3, <4>2
      <4> QED BY <3>2, <4>3 DEF top
    <3> QED BY <3>1, <3>2
  <2> HIDE DEF n
  <2>5. x \in Editor /\ x.pc = "insert" /\ x.dash = d /\ x.payload = editor[h].payload /\ x.next = n
    <3>1. n \in Nat
      BY <2>3, <2>4
    <3> QED BY <2>2, <3>1 DEF Editor
  <2> HIDE DEF x, d
  <2>6. EditorInv(x, versions) /\ Writing(editor[h])
    BY <2>1, <2>2, <2>4, <2>5 DEF EditorInv, Writing
  <2>7. CASE editor' = [editor EXCEPT ![h] = x]
    BY <1>0, <2>1, <2>5, <2>6, <2>7, EditorMoves
  <2> QED BY <1>0, <1>8, <2>1, <2>7
<1>11. ASSUME NEW h \in Handlers, InsertVersion(h) PROVE DashboardInv'
  <2>1. UNCHANGED <<calls, dash, snapshots, tokens>> /\ editor[h].pc = "insert"
    BY <1>11 DEF InsertVersion
  <2>2. \/ UNCHANGED versions /\ editor' = [editor EXCEPT ![h] = IdleEditor]
        \/ /\ ~ HasVersion(editor[h].dash, editor[h].next)
           /\ versions' = [versions EXCEPT ![editor[h].dash] =
                             Append(@, [version |-> editor[h].next, payload |-> editor[h].payload])]
           /\ editor' = [editor EXCEPT ![h].pc = "mirror"]
    BY <1>11 DEF InsertVersion, End, Goto
  <2> QED BY <1>0, <1>8, <2>1, <2>2, InsertMoves
<1>12. ASSUME NEW h \in Handlers, Mirror(h) PROVE DashboardInv'
  <2>1. /\ editor[h].pc = "mirror" /\ UNCHANGED <<calls, versions, snapshots, tokens>>
        /\ editor' = [editor EXCEPT ![h] = IdleEditor]
        /\ (dash' = dash \/ dash' = [dash EXCEPT ![editor[h].dash] = editor[h].payload])
    BY <1>12 DEF Mirror, End
  <2>2. editor[h].dash \in Boards /\ editor[h].payload \in Payloads
    BY <2>1 DEF DashboardInv, EditorInv
  <2>3. dash' \in [Boards -> Payloads \cup {None}]
    BY <1>0, <2>1, <2>2
  <2> QED BY <1>8, <2>1, <2>3
<1>13. ASSUME NEW h \in Handlers, ShowDashboard(h) PROVE DashboardInv'
  BY <1>0, <1>8, <1>13 DEF ShowDashboard, End
<1>14. listDashboards => DashboardInv'
  BY <1>l DEF listDashboards, Serve, Refuse, Call
<1>15. \A d \in Boards : listDashboardVersions(d) => DashboardInv'
  BY <1>l DEF listDashboardVersions, Serve, Refuse, Call
<1>16. \A t \in Tokens : getDashboardSnapshot(t) => DashboardInv'
  BY <1>l DEF getDashboardSnapshot, Serve, Refuse, Call
<1>17. \A d \in Boards, v \in 1 .. MaxCalls : getDashboardVersion(d, v) => DashboardInv'
  BY <1>l DEF getDashboardVersion, Serve, Refuse, Call
<1>18. ASSUME NEW t \in Tokens, Revoke(t) PROVE DashboardInv'
  <2>1. UNCHANGED <<dash, versions, snapshots, editor>> /\ calls' = calls + 1
    BY <1>18 DEF Revoke, Serve, Refuse, Call
  <2>2. tokens' \in [Tokens -> {None} \cup [dash : Boards, expires : {None} \cup Nat, revoked : BOOLEAN]]
    BY <1>18, TokensTyped
  <2> QED BY <1>0, <2>1, <2>2, DashboardFrame
<1> QED
  BY <1>n, <1>1, <1>2, <1>3, <1>5, <1>6, <1>7, <1>9, <1>10, <1>11, <1>12, <1>13, <1>14, <1>15, <1>16, <1>17, <1>18
  DEF DashboardNext

-----------------------------------------------------------------------------
(* Governance.                                                              *)

\* Opening state of approvals, reviews and users.
LEMMA GovernanceInitial == GovernanceInit => GovernanceTypeOK /\ DecisionStands
<1> SUFFICES ASSUME GovernanceInit PROVE GovernanceTypeOK /\ DecisionStands
  OBVIOUS
<1>1. decisions \in [Customers \X Periods -> Seq({"keep", "revoke"})]
  <2>1. <<>> \in Seq({"keep", "revoke"})
    OBVIOUS
  <2> QED BY <2>1 DEF GovernanceInit
<1> QED BY <1>1 DEF GovernanceInit, GovernanceTypeOK, DecisionStands

\* Only a pending approval is decided, and only once.
LEMMA DecideStep ==
  ASSUME GovernanceTypeOK, DecisionStands, NEW a \in Approvals, NEW s \in Statuses, NEW x \in Approvers,
         decideQueryApproval(a, s, x)
  PROVE  /\ approvals' \in [Approvals -> {None} \cup Approval]
         /\ told' \subseteq [id : Approvals, status : Statuses, approver : Approvers]
         /\ DecisionStands' /\ UNCHANGED <<reviews, decisions, users, ids, reviewer>>
<1> DEFINE row == [status |-> s, approver |-> x]
           new == [id |-> a, status |-> s, approver |-> x]
<1>1. approvals \in [Approvals -> {None} \cup Approval]
      /\ told \subseteq [id : Approvals, status : Statuses, approver : Approvers]
      /\ UNCHANGED <<reviews, decisions, users, ids, reviewer>>
  BY DEF GovernanceTypeOK, decideQueryApproval
<1>2. \/ Undecided(a) /\ approvals' = [approvals EXCEPT ![a] = row] /\ told' = told \cup {new}
      \/ UNCHANGED <<approvals, told>>
  BY DEF decideQueryApproval
<1>3. CASE UNCHANGED <<approvals, told>>
  BY <1>1, <1>3 DEF DecisionStands
<1>4. CASE Undecided(a) /\ approvals' = [approvals EXCEPT ![a] = row] /\ told' = told \cup {new}
  <2>1. row \in Approval /\ new \in [id : Approvals, status : Statuses, approver : Approvers]
        /\ new.id = a /\ new.status = s /\ new.approver = x
    BY DEF Approval
  <2>2. \A y \in told : y.id # a
    <3> SUFFICES ASSUME NEW y \in told, y.id = a PROVE FALSE
      OBVIOUS
    <3>0. approvals[a] = [status |-> y.status, approver |-> y.approver]
      BY DEF DecisionStands
    <3>1. approvals[a].status = y.status /\ y.status \in Statuses
      BY <1>1, <3>0
    <3> QED BY <1>4, <3>1 DEF Undecided, Statuses
  <2> HIDE DEF row, new
  <2>3. approvals'[a] = row /\ \A b \in Approvals : b # a => approvals'[b] = approvals[b]
    BY <1>1, <1>4
  <2>4. ASSUME NEW y \in told' PROVE approvals'[y.id] = [status |-> y.status, approver |-> y.approver]
    <3>1. CASE y = new
      BY <2>1, <2>3, <3>1 DEF row
    <3>2. CASE y \in told
      <4>1. y.id \in Approvals /\ y.id # a
        BY <1>1, <2>2, <3>2
      <4> QED BY <2>3, <3>2, <4>1 DEF DecisionStands
    <3> QED BY <1>4, <3>1, <3>2
  <2>5. ASSUME NEW y \in told', NEW z \in told', y.id = z.id PROVE y = z
    BY <1>4, <2>1, <2>2, <2>5 DEF DecisionStands
  <2>6. DecisionStands'
    BY <2>4, <2>5 DEF DecisionStands
  <2>7. approvals' \in [Approvals -> {None} \cup Approval]
    BY <1>1, <1>4, <2>1
  <2>8. told' \subseteq [id : Approvals, status : Statuses, approver : Approvers]
    BY <1>1, <1>4, <2>1
  <2> QED BY <1>1, <2>6, <2>7, <2>8
<1> QED BY <1>2, <1>3, <1>4

\* A request is submitted under an id that has no row, so nobody was told of it.
LEMMA SubmitStep ==
  ASSUME GovernanceTypeOK, DecisionStands, NEW a \in Approvals, submitQueryApproval(a)
  PROVE  /\ approvals' \in [Approvals -> {None} \cup Approval]
         /\ DecisionStands' /\ UNCHANGED <<told, reviews, decisions, users, ids, reviewer>>
<1> DEFINE row == [status |-> "pending", approver |-> None]
<1>1. approvals \in [Approvals -> {None} \cup Approval]
      /\ told \subseteq [id : Approvals, status : Statuses, approver : Approvers]
      /\ approvals[a] = None /\ UNCHANGED <<told, reviews, decisions, users, ids, reviewer>>
  BY DEF GovernanceTypeOK, submitQueryApproval
<1>2. approvals' = [approvals EXCEPT ![a] = row] \/ approvals' = approvals
  BY DEF submitQueryApproval
<1>3. row \in Approval
  BY DEF Approval
<1> HIDE DEF row
<1>4. approvals' \in [Approvals -> {None} \cup Approval] /\ \A b \in Approvals : b # a => approvals'[b] = approvals[b]
  BY <1>1, <1>2, <1>3
<1>5. \A y \in told : y.id # a
  <2> SUFFICES ASSUME NEW y \in told, y.id = a PROVE FALSE
    OBVIOUS
  <2>1. y.status \in Statuses /\ y.approver \in Approvers
    BY <1>1
  <2>2. None = [status |-> y.status, approver |-> y.approver]
    BY <1>1 DEF DecisionStands
  <2> QED BY <2>1, <2>2, ApprovalAssumption DEF Approval
<1>6. ASSUME NEW y \in told PROVE approvals'[y.id] = [status |-> y.status, approver |-> y.approver]
  <2>1. y.id \in Approvals /\ y.id # a
    BY <1>1, <1>5
  <2> QED BY <1>4, <2>1 DEF DecisionStands
<1>7. DecisionStands'
  BY <1>1, <1>6 DEF DecisionStands
<1> QED BY <1>1, <1>4, <1>7

\* A step of governance keeps the types of its tables, and every decision.
LEMMA GovernanceStep == GovernanceTypeOK /\ DecisionStands /\ GovernanceNext => GovernanceTypeOK' /\ DecisionStands'
<1> SUFFICES ASSUME GovernanceTypeOK, DecisionStands, GovernanceNext PROVE GovernanceTypeOK' /\ DecisionStands'
  OBVIOUS
<1>0. ASSUME UNCHANGED governanceVars PROVE GovernanceTypeOK' /\ DecisionStands'
  BY <1>0 DEF governanceVars, GovernanceTypeOK, DecisionStands
<1>d. ASSUME UNCHANGED <<approvals, told>> PROVE DecisionStands'
  BY <1>d DEF DecisionStands
<1>1. ASSUME NEW a \in Approvals, submitQueryApproval(a) PROVE GovernanceTypeOK' /\ DecisionStands'
  BY <1>1, SubmitStep DEF GovernanceTypeOK
<1>2. ASSUME NEW a \in Approvals, NEW s \in Statuses, NEW x \in Approvers, decideQueryApproval(a, s, x)
      PROVE  GovernanceTypeOK' /\ DecisionStands'
  BY <1>2, DecideStep DEF GovernanceTypeOK
<1>3. ASSUME NEW s, listQueryApprovals(s) PROVE UNCHANGED governanceVars
  BY <1>3 DEF listQueryApprovals
<1>4. ASSUME NEW role, NEW p \in Customers \X Periods, openAccessReview(role, p) \/ closeAccessReview(role, p)
      PROVE  GovernanceTypeOK' /\ DecisionStands'
  <2>1. UNCHANGED <<approvals, told, decisions, users, ids, reviewer>>
        /\ reviews' \in {reviews, [reviews EXCEPT ![p] = "open"], [reviews EXCEPT ![p] = "completed"]}
    BY <1>4 DEF openAccessReview, closeAccessReview
  <2>2. reviews' \in [Customers \X Periods -> {None, "open", "completed"}]
    BY <2>1 DEF GovernanceTypeOK
  <2> QED BY <1>d, <2>1, <2>2 DEF GovernanceTypeOK
<1>5. ASSUME NEW h \in Handlers, NEW role, NEW p \in Customers \X Periods, NEW action \in {"keep", "revoke"},
             CheckReview(h, role, p, action)
      PROVE  GovernanceTypeOK' /\ DecisionStands'
  <2>1. UNCHANGED <<approvals, told, reviews, decisions, users, ids>>
        /\ reviewer' \in {reviewer, [reviewer EXCEPT ![h] = [review |-> p, action |-> action]]}
    BY <1>5 DEF CheckReview
  <2>2. reviewer' \in [Handlers -> {None} \cup [review : Customers \X Periods, action : {"keep", "revoke"}]]
    BY <2>1 DEF GovernanceTypeOK
  <2> QED BY <1>d, <2>1, <2>2 DEF GovernanceTypeOK
<1>6. ASSUME NEW h \in Handlers, InsertDecision(h) PROVE GovernanceTypeOK' /\ DecisionStands'
  <2> DEFINE p == reviewer[h].review
             v == reviewer[h].action
  <2>1. /\ reviewer[h] # None /\ reviewer' = [reviewer EXCEPT ![h] = None]
        /\ UNCHANGED <<approvals, told, reviews, users, ids>>
        /\ (decisions' = decisions \/ decisions' = [decisions EXCEPT ![p] = Append(decisions[p], v)])
    BY <1>6 DEF InsertDecision
  <2>2. p \in Customers \X Periods /\ v \in {"keep", "revoke"}
    BY <2>1 DEF GovernanceTypeOK
  <2>3. reviewer' \in [Handlers -> {None} \cup [review : Customers \X Periods, action : {"keep", "revoke"}]]
    BY <2>1 DEF GovernanceTypeOK
  <2>4. decisions \in [Customers \X Periods -> Seq({"keep", "revoke"})]
    BY DEF GovernanceTypeOK
  <2> HIDE DEF p, v
  <2>5. Append(decisions[p], v) \in Seq({"keep", "revoke"})
    BY <2>2, <2>4
  <2>6. decisions' \in [Customers \X Periods -> Seq({"keep", "revoke"})]
    BY <2>1, <2>2, <2>4, <2>5
  <2> QED BY <1>d, <2>1, <2>3, <2>6 DEF GovernanceTypeOK
<1>7. ASSUME NEW c \in Customers, listAccessReviews(c) PROVE UNCHANGED governanceVars
  BY <1>7 DEF listAccessReviews
<1>8. ASSUME NEW c \in Customers, NEW e \in Emails, NEW id \in UserIds, createUser(c, e, id)
      PROVE  GovernanceTypeOK' /\ DecisionStands'
  <2>1. UNCHANGED <<approvals, told, reviews, decisions, reviewer>>
        /\ users' \in {users, users \cup {[id |-> id, customer |-> c, email |-> e]}} /\ ids' \in {ids, ids \cup {id}}
    BY <1>8 DEF createUser
  <2>2. users' \subseteq [id : UserIds, customer : Customers, email : Emails] /\ ids' \subseteq UserIds
    BY <2>1 DEF GovernanceTypeOK
  <2> QED BY <1>d, <2>1, <2>2 DEF GovernanceTypeOK
<1>9. ASSUME listUsers PROVE UNCHANGED governanceVars
  BY <1>9 DEF listUsers
<1>10. ASSUME NEW id \in UserIds, getUser(id) PROVE UNCHANGED governanceVars
  BY <1>10 DEF getUser
<1>11. ASSUME NEW id \in UserIds, deleteUser(id) PROVE GovernanceTypeOK' /\ DecisionStands'
  <2>1. UNCHANGED <<approvals, told, reviews, decisions, ids, reviewer>> /\ users' \subseteq users
    BY <1>11 DEF deleteUser
  <2> QED BY <1>d, <2>1 DEF GovernanceTypeOK
<1>12. \A h \in Free({x \in Handlers : reviewer[x] = None}) : h \in Handlers
  BY DEF Free
<1> QED
  BY <1>0, <1>1, <1>2, <1>3, <1>4, <1>5, <1>6, <1>7, <1>8, <1>9, <1>10, <1>11, <1>12 DEF GovernanceNext

-----------------------------------------------------------------------------
(* Notifications.                                                           *)

Row == [customer : Customers, channel : Channels, lastSent : BOOLEAN]
Item == [customer : Customers, msg : Nat, read : BOOLEAN]
Message == [customer : Customers, state : {"running", "ok", "error"},
            looked : SUBSET Subs, sent : SUBSET Subs, errs : SUBSET Subs]
Sender == [pc : {"idle", "push", "lookup", "fanOut"}, op : {None, "testSend", "scan"},
           customer : Customers \cup {None}, msg : Nat, left : SUBSET (Subs \X Channels),
           more : 0 .. MaxFlagged, sent : 0 .. MaxFlagged]

\* Message m of customer c has a row in the inbox.
Stored(box, m, c) == \E i \in DOMAIN box : box[i].msg = m /\ box[i].customer = c

\* FannedOut of one message, which looked up ids that were given out only.
MessageInv(x, m, box, rows, given) ==
  /\ x.looked # {} => Stored(box, m, x.customer)
  /\ x.state = "ok" => Stored(box, m, x.customer) /\ x.errs = {} /\ x.sent = x.looked
  /\ (x.state = "error" /\ x.looked # {}) => x.sent \cup x.errs = x.looked
  /\ x.sent \cup x.errs \subseteq x.looked
  /\ \A s \in x.looked : rows[s] # None => rows[s].customer = x.customer
  /\ x.looked \subseteq given

\* What the step of a busy sender says of its message: nothing was looked up before the inbox row is
\* there, and in the fan-out every row of the lookup is sent, failed or left.
BusyInv(y, x, box) ==
  /\ x.state = "running" /\ x.customer = y.customer
  /\ y.pc # "fanOut" => x.looked = {} /\ x.sent = {} /\ x.errs = {}
  /\ y.pc # "push" => Stored(box, y.msg, y.customer)
  /\ y.pc = "fanOut" => x.looked = x.sent \cup x.errs \cup {s \in Subs : \E ch \in Channels : <<s, ch>> \in y.left}
  /\ y.more > 0 => y.sent + y.more < MaxFlagged

\* The inductive invariant, of the tables, the messages and the senders.
FanOutInv(rows, given, box, ss, sd) ==
  /\ rows \in [Subs -> {None} \cup Row] /\ given \subseteq Subs /\ box \in Seq(Item)
  /\ ss \in Seq(Message) /\ sd \in [Handlers -> Sender]
  /\ \A s \in Subs : s \notin given => rows[s] = None
  /\ \A m \in DOMAIN ss : MessageInv(ss[m], m, box, rows, given)
  /\ \A h \in Handlers : sd[h].pc # "idle" => sd[h].msg \in DOMAIN ss /\ BusyInv(sd[h], ss[sd[h].msg], box)
  /\ \A h, g \in Handlers : h # g /\ sd[h].pc # "idle" /\ sd[g].pc # "idle" => sd[h].msg # sd[g].msg

NotificationInv == FanOutInv(subs, used, inbox, sends, sender)

\* The tables move on: inbox rows stay, an id's row keeps its customer, a new row has a new id.
LEMMA TablesMove ==
  ASSUME NEW R, NEW U, NEW B, NEW S, NEW D, FanOutInv(R, U, B, S, D),
         NEW R2 \in [Subs -> {None} \cup Row], NEW U2 \in SUBSET Subs, NEW B2 \in Seq(Item), U \subseteq U2,
         \A s \in U : R2[s] # None => R[s] # None /\ R2[s].customer = R[s].customer,
         \A s \in Subs : s \notin U2 => R2[s] = None,
         \A m, c : Stored(B, m, c) => Stored(B2, m, c)
  PROVE  FanOutInv(R2, U2, B2, S, D)
<1>1. \A m \in DOMAIN S : MessageInv(S[m], m, B2, R2, U2)
  <2> TAKE m \in DOMAIN S
  <2>1. MessageInv(S[m], m, B, R, U)
    BY DEF FanOutInv
  <2> QED BY <2>1 DEF MessageInv
<1>2. ASSUME NEW h \in Handlers, D[h].pc # "idle"
      PROVE  D[h].msg \in DOMAIN S /\ BusyInv(D[h], S[D[h].msg], B2)
  <2>1. D[h].msg \in DOMAIN S /\ BusyInv(D[h], S[D[h].msg], B)
    BY <1>2 DEF FanOutInv
  <2> QED BY <2>1 DEF BusyInv
<1> QED BY <1>1, <1>2 DEF FanOutInv

\* A busy sender goes on: its message becomes x and its record y.
LEMMA SenderMoves ==
  ASSUME NEW R, NEW U, NEW B, NEW S, NEW D, FanOutInv(R, U, B, S, D),
         NEW h \in Handlers, D[h].pc # "idle",
         NEW x \in Message, MessageInv(x, D[h].msg, B, R, U),
         NEW y \in Sender, y.pc # "idle" => y.msg = D[h].msg /\ BusyInv(y, x, B)
  PROVE  FanOutInv(R, U, B, [S EXCEPT ![D[h].msg] = x], [D EXCEPT ![h] = y])
<1> DEFINE n == D[h].msg
           S2 == [S EXCEPT ![n] = x]
           D2 == [D EXCEPT ![h] = y]
<1>1. S \in Seq(Message) /\ D \in [Handlers -> Sender] /\ n \in DOMAIN S
  BY DEF FanOutInv
<1>2. S2 \in Seq(Message) /\ DOMAIN S2 = DOMAIN S /\ \A i \in DOMAIN S : S2[i] = IF i = n THEN x ELSE S[i]
  <2> HIDE DEF n
  <2> QED BY <1>1, Replaced
<1>3. D2 \in [Handlers -> Sender] /\ D2[h] = y /\ \A g \in Handlers \ {h} : D2[g] = D[g]
  BY <1>1
<1> HIDE DEF S2, D2
<1>4. \A m \in DOMAIN S2 : MessageInv(S2[m], m, B, R, U)
  BY <1>2 DEF FanOutInv
<1>5. \A g \in Handlers : D2[g].pc # "idle" => D2[g].msg \in DOMAIN S2 /\ BusyInv(D2[g], S2[D2[g].msg], B)
  <2> SUFFICES ASSUME NEW g \in Handlers, D2[g].pc # "idle"
               PROVE  D2[g].msg \in DOMAIN S2 /\ BusyInv(D2[g], S2[D2[g].msg], B)
    OBVIOUS
  <2>1. CASE g = h
    BY <1>1, <1>2, <1>3, <2>1
  <2>2. CASE g # h
    <3>1. D2[g] = D[g] /\ D[g].msg \in DOMAIN S /\ BusyInv(D[g], S[D[g].msg], B) /\ D[g].msg # n
      BY <1>3, <2>2 DEF FanOutInv
    <3> QED BY <1>2, <3>1
  <2> QED BY <2>1, <2>2
<1>6. ASSUME NEW g \in Handlers, NEW k \in Handlers, g # k, D2[g].pc # "idle", D2[k].pc # "idle"
      PROVE  D2[g].msg # D2[k].msg
  BY <1>3, <1>6 DEF FanOutInv
<1>7. FanOutInv(R, U, B, S2, D2)
  BY <1>2, <1>3, <1>4, <1>5, <1>6 DEF FanOutInv
<1> QED BY <1>7 DEF S2, D2

\* An idle sender starts a message.
LEMMA SenderStarts ==
  ASSUME NEW R, NEW U, NEW B, NEW S, NEW D, FanOutInv(R, U, B, S, D),
         NEW h \in Handlers, D[h].pc = "idle", NEW c \in Customers,
         NEW y \in Sender, y.pc = "push", y.msg = Len(S) + 1, y.customer = c,
         y.more > 0 => y.sent + y.more < MaxFlagged
  PROVE  FanOutInv(R, U, B, Append(S, Running(c)), [D EXCEPT ![h] = y])
<1> DEFINE x == Running(c)
           S2 == Append(S, x)
           D2 == [D EXCEPT ![h] = y]
<1>1. S \in Seq(Message) /\ D \in [Handlers -> Sender]
  BY DEF FanOutInv
<1>2. x \in Message /\ x.state = "running" /\ x.customer = c /\ x.looked = {} /\ x.sent = {} /\ x.errs = {}
  BY DEF Running, Message
<1> HIDE DEF x
<1>3. /\ S2 \in Seq(Message) /\ Len(S) \in Nat /\ Len(S2) = Len(S) + 1 /\ S2[Len(S) + 1] = x
      /\ \A i \in DOMAIN S : i \in DOMAIN S2 /\ S2[i] = S[i]
      /\ \A i \in DOMAIN S2 : i \in DOMAIN S \/ i = Len(S) + 1
  BY <1>1, <1>2, Appended
<1>4. D2 \in [Handlers -> Sender] /\ D2[h] = y /\ \A g \in Handlers \ {h} : D2[g] = D[g]
  BY <1>1
<1>5. Len(S) + 1 \in DOMAIN S2 /\ Len(S) + 1 \notin DOMAIN S
  BY <1>1, <1>3
<1> HIDE DEF S2, D2
<1>6. \A m \in DOMAIN S2 : MessageInv(S2[m], m, B, R, U)
  <2>1. \A m : MessageInv(x, m, B, R, U)
    BY <1>2 DEF MessageInv
  <2> QED BY <1>3, <2>1 DEF FanOutInv
<1>7. \A g \in Handlers : D2[g].pc # "idle" => D2[g].msg \in DOMAIN S2 /\ BusyInv(D2[g], S2[D2[g].msg], B)
  <2> SUFFICES ASSUME NEW g \in Handlers, D2[g].pc # "idle"
               PROVE  D2[g].msg \in DOMAIN S2 /\ BusyInv(D2[g], S2[D2[g].msg], B)
    OBVIOUS
  <2>1. CASE g = h
    <3>1. BusyInv(y, x, B)
      BY <1>2 DEF BusyInv
    <3> QED BY <1>3, <1>4, <1>5, <2>1, <3>1
  <2>2. CASE g # h
    <3>1. D2[g] = D[g] /\ D[g].msg \in DOMAIN S /\ BusyInv(D[g], S[D[g].msg], B)
      BY <1>4, <2>2 DEF FanOutInv
    <3> QED BY <1>3, <3>1
  <2> QED BY <2>1, <2>2
<1>8. ASSUME NEW g \in Handlers, NEW k \in Handlers, g # k, D2[g].pc # "idle", D2[k].pc # "idle"
      PROVE  D2[g].msg # D2[k].msg
  <2>1. \A f \in Handlers \ {h} : D2[f].pc # "idle" => D2[f].msg # Len(S) + 1
    BY <1>4, <1>5 DEF FanOutInv
  <2>2. CASE g # h /\ k # h
    BY <1>4, <1>8, <2>2 DEF FanOutInv
  <2>3. CASE g = h \/ k = h
    BY <1>4, <1>8, <2>1, <2>3
  <2> QED BY <2>2, <2>3
<1>9. FanOutInv(R, U, B, S2, D2)
  BY <1>3, <1>4, <1>6, <1>7, <1>8 DEF FanOutInv
<1> QED BY <1>9 DEF S2, D2, x

\* Send returns with result x: the handler is done, or goes on with the next flagged day.
LEMMA SendReturns ==
  ASSUME NEW R, NEW U, NEW B, FanOutInv(R, U, B, sends, sender), NEW h \in Handlers, sender[h].pc # "idle",
         NEW x \in Message, MessageInv(x, sender[h].msg, B, R, U), x.state # "running", x.customer = sender[h].customer,
         Return(h, x)
  PROVE  FanOutInv(R, U, B, sends', sender')
<1> DEFINE m == sender[h]
           count == m.sent + (IF x.errs = {} /\ x.state = "ok" THEN 1 ELSE 0)
           ended == [sends EXCEPT ![m.msg] = x]
           idle == [sender EXCEPT ![h] = IdleSender]
<1>1. m \in Sender /\ sender \in [Handlers -> Sender] /\ sends \in Seq(Message) /\ m.msg \in DOMAIN sends
      /\ BusyInv(m, sends[m.msg], B)
  BY DEF FanOutInv
<1>2. IdleSender \in Sender /\ IdleSender.pc = "idle"
  BY SmtpAssumption DEF IdleSender, Sender
<1>3. FanOutInv(R, U, B, ended, idle)
  BY <1>2, SenderMoves
<1>4. CASE m.more > 0
  <2> DEFINE n == Len(sends')
             k == m.more - 1
             y == [m EXCEPT !.pc = "push", !.msg = n, !.left = {}, !.more = k, !.sent = count]
  <2>1. sends' = Append(ended, Running(m.customer)) /\ sender' = [sender EXCEPT ![h] = y]
    BY <1>4 DEF Return
  <2>2. ended \in Seq(Message) /\ Len(ended) \in Nat /\ n = Len(ended) + 1
    BY <1>1, <2>1, Replaced
  <2>3. m.customer \in Customers
    BY DEF Message
  <2>4. m.more \in 1 .. MaxFlagged /\ m.sent \in 0 .. MaxFlagged /\ m.sent + m.more < MaxFlagged
    BY <1>1, <1>4 DEF Sender, BusyInv
  <2>5. count \in 0 .. MaxFlagged /\ count + k < MaxFlagged /\ k \in 0 .. MaxFlagged
    BY <2>4, SmtpAssumption
  <2> HIDE DEF count, ended, m, n, k
  <2>6. y \in Sender /\ y.pc = "push" /\ y.msg = Len(ended) + 1 /\ y.customer = m.customer
        /\ y.more = k /\ y.sent = count
    <3>1. m \in Sender /\ n \in Nat
      BY <1>1, <2>2
    <3>2. y = [m EXCEPT !.pc = "push", !.msg = n, !.left = {}, !.more = k, !.sent = count]
      OBVIOUS
    <3> HIDE DEF y
    <3>3. y \in Sender /\ y.pc = "push" /\ y.msg = n /\ y.customer = m.customer /\ y.more = k /\ y.sent = count
      BY <2>5, <3>1, <3>2 DEF Sender
    <3> QED BY <2>2, <3>3
  <2>7. idle[h].pc = "idle" /\ sender' = [idle EXCEPT ![h] = y]
    BY <1>1, <1>2, <2>1
  <2> HIDE DEF y, idle
  <2>8. y.more > 0 => y.sent + y.more < MaxFlagged
    BY <2>5, <2>6
  <2>9. FanOutInv(R, U, B, Append(ended, Running(m.customer)), [idle EXCEPT ![h] = y])
    BY <1>3, <2>3, <2>6, <2>7, <2>8, SenderStarts
  <2> QED BY <2>1, <2>7, <2>9
<1>5. CASE ~(m.more > 0)
  BY <1>3, <1>5 DEF Return
<1> QED BY <1>4, <1>5

\* Initially there is no message.
LEMMA NotificationInitial == NotificationInit => NotificationInv
<1> SUFFICES ASSUME NotificationInit PROVE NotificationInv
  OBVIOUS
<1>1. IdleSender \in Sender /\ IdleSender.pc = "idle"
  BY SmtpAssumption DEF IdleSender, Sender
<1>2. sender \in [Handlers -> Sender] /\ \A h \in Handlers : sender[h].pc = "idle"
  BY <1>1 DEF NotificationInit
<1>3. subs \in [Subs -> {None} \cup Row] /\ used \subseteq Subs /\ \A s \in Subs : subs[s] = None
  BY DEF NotificationInit
<1>4. inbox \in Seq(Item) /\ sends \in Seq(Message) /\ DOMAIN sends = {}
  BY DEF NotificationInit
<1> QED BY <1>2, <1>3, <1>4 DEF NotificationInv, FanOutInv

\* Marking rows as read, and a new row, leave what is stored.
LEMMA InboxKept ==
  ASSUME inbox \in Seq(Item), NEW x \in Item, inbox' = Append(inbox, x) \/ \E Q : Read(Q)
  PROVE  inbox' \in Seq(Item) /\ \A m, c : Stored(inbox, m, c) => Stored(inbox', m, c)
<1>1. CASE inbox' = Append(inbox, x)
  <2>1. inbox' \in Seq(Item) /\ \A i \in DOMAIN inbox : i \in DOMAIN inbox' /\ inbox'[i] = inbox[i]
    BY <1>1, Appended
  <2> QED BY <2>1 DEF Stored
<1>2. ASSUME NEW Q, Read(Q)
      PROVE  inbox' \in Seq(Item) /\ \A m, c : Stored(inbox, m, c) => Stored(inbox', m, c)
  <2>1. DOMAIN inbox' = DOMAIN inbox /\ inbox' = [i \in DOMAIN inbox |-> inbox'[i]]
        /\ \A i \in DOMAIN inbox : inbox'[i] = IF i \in Q THEN [inbox[i] EXCEPT !.read = TRUE] ELSE inbox[i]
    BY <1>2 DEF Read
  <2>2. ASSUME NEW i \in DOMAIN inbox
        PROVE  inbox'[i] \in Item /\ inbox'[i].msg = inbox[i].msg /\ inbox'[i].customer = inbox[i].customer
    <3>1. inbox[i] \in Item
      OBVIOUS
    <3>2. [inbox[i] EXCEPT !.read = TRUE] \in Item
          /\ [inbox[i] EXCEPT !.read = TRUE].msg = inbox[i].msg
          /\ [inbox[i] EXCEPT !.read = TRUE].customer = inbox[i].customer
      BY <3>1 DEF Item
    <3>3. CASE i \in Q
      BY <2>1, <3>2, <3>3
    <3>4. CASE i \notin Q
      BY <2>1, <3>1, <3>4
    <3> QED BY <3>3, <3>4
  <2>3. inbox' \in Seq(Item)
    BY <2>1, <2>2, Mapped
  <2> QED BY <2>1, <2>2, <2>3 DEF Stored
<1> QED BY <1>1, <1>2

\* Router.Send begins for customer c, with more messages to come.
LEMMA SendStarts ==
  ASSUME NotificationInv, NEW h \in Handlers, sender[h].pc = "idle", NEW op \in {"testSend", "scan"}, NEW c \in Customers,
         NEW more \in 0 .. MaxFlagged, more > 0 => more < MaxFlagged,
         StartSend(h, op, c, more, 0), UNCHANGED <<subs, used, inbox>>
  PROVE  NotificationInv'
<1> DEFINE y == [pc |-> "push", op |-> op, customer |-> c, msg |-> Len(sends'), left |-> {}, more |-> more, sent |-> 0]
<1>1. sends' = Append(sends, Running(c)) /\ sender' = [sender EXCEPT ![h] = y]
  BY DEF StartSend
<1>2. sends \in Seq(Message)
  BY DEF NotificationInv, FanOutInv
<1>3. Running(c) \in Message
  BY DEF Running, Message
<1>4. Len(sends') = Len(sends) + 1 /\ Len(sends') \in Nat
  BY <1>1, <1>2, <1>3, Appended
<1>5. y \in Sender /\ y.pc = "push" /\ y.msg = Len(sends) + 1 /\ y.customer = c /\ y.more = more /\ y.sent = 0
  BY <1>4, SmtpAssumption DEF Sender
<1> HIDE DEF y
<1>6. y.more > 0 => y.sent + y.more < MaxFlagged
  BY <1>5
<1>7. FanOutInv(subs, used, inbox, Append(sends, Running(c)), [sender EXCEPT ![h] = y])
  BY <1>5, <1>6, SenderStarts DEF NotificationInv
<1> QED BY <1>1, <1>7 DEF NotificationInv

\* The inbox row of a message is written, or Send returns its error.
LEMMA PushStep == ASSUME NotificationInv, NEW h \in Handlers, Push(h) PROVE NotificationInv'
<1> DEFINE m == sender[h].msg
           z == [customer |-> sender[h].customer, msg |-> m, read |-> FALSE]
           y == [sender[h] EXCEPT !.pc = "lookup"]
<1>0. sender[h].pc = "push" /\ UNCHANGED <<subs, used>>
  BY DEF Push
<1>1. sender[h] \in Sender /\ sender \in [Handlers -> Sender] /\ sends \in Seq(Message) /\ inbox \in Seq(Item)
      /\ m \in DOMAIN sends /\ BusyInv(sender[h], sends[m], inbox) /\ MessageInv(sends[m], m, inbox, subs, used)
  BY <1>0 DEF NotificationInv, FanOutInv
<1>2. sends[m] \in Message
  BY <1>1
<1>3. sends[m].state = "running" /\ sends[m].customer = sender[h].customer
      /\ sends[m].looked = {} /\ sends[m].sent = {} /\ sends[m].errs = {}
      /\ (sender[h].more > 0 => sender[h].sent + sender[h].more < MaxFlagged)
  BY <1>0, <1>1 DEF BusyInv
<1>4. CASE inbox' = Append(inbox, z) /\ sender' = [sender EXCEPT ![h] = y] /\ sends' = sends
  <2>1. z \in Item /\ z.msg = m /\ z.customer = sender[h].customer
    BY <1>1, <1>2, <1>3 DEF Item, Message, Sender
  <2> HIDE DEF z
  <2>2. inbox' \in Seq(Item) /\ \A n, c : Stored(inbox, n, c) => Stored(inbox', n, c)
    BY <1>1, <1>4, <2>1, InboxKept
  <2>3. FanOutInv(subs, used, inbox', sends, sender)
    <3>1. /\ subs \in [Subs -> {None} \cup Row] /\ used \in SUBSET Subs
          /\ \A s \in Subs : s \notin used => subs[s] = None
      BY DEF NotificationInv, FanOutInv
    <3> QED BY <2>2, <3>1, TablesMove DEF NotificationInv
  <2>4. Stored(inbox', m, sender[h].customer)
    <3>1. Len(inbox) + 1 \in DOMAIN inbox' /\ inbox'[Len(inbox) + 1] = z
      BY <1>1, <1>4, <2>1
    <3> QED BY <2>1, <3>1 DEF Stored
  <2>5. y \in Sender /\ y.pc = "lookup" /\ y.msg = m /\ y.customer = sender[h].customer
        /\ y.more = sender[h].more /\ y.sent = sender[h].sent
    BY <1>1 DEF Sender
  <2> HIDE DEF y
  <2>6. BusyInv(y, sends[m], inbox')
    BY <1>3, <2>4, <2>5 DEF BusyInv
  <2>7. MessageInv(sends[m], m, inbox', subs, used)
    BY <1>1, <2>3 DEF FanOutInv
  <2>8. FanOutInv(subs, used, inbox', [sends EXCEPT ![m] = sends[m]], [sender EXCEPT ![h] = y])
    BY <1>0, <1>2, <2>3, <2>5, <2>6, <2>7, SenderMoves
  <2>9. [sends EXCEPT ![m] = sends[m]] = sends
    BY <1>1
  <2> QED BY <1>0, <1>4, <2>8, <2>9 DEF NotificationInv
<1>5. CASE Return(h, [sends[m] EXCEPT !.state = "error"]) /\ inbox' = inbox
  <2> DEFINE x == [sends[m] EXCEPT !.state = "error"]
  <2>1. x \in Message /\ x.state = "error" /\ x.customer = sends[m].customer /\ x.looked = {} /\ x.sent = {} /\ x.errs = {}
    BY <1>2, <1>3 DEF Message
  <2> HIDE DEF x
  <2>2. MessageInv(x, m, inbox, subs, used)
    BY <2>1 DEF MessageInv
  <2>3. FanOutInv(subs, used, inbox, sends', sender')
    BY <1>0, <1>3, <1>5, <2>1, <2>2, SendReturns DEF NotificationInv, x
  <2> QED BY <1>0, <1>5, <2>3 DEF NotificationInv
<1>6. \/ (inbox' = Append(inbox, z) /\ sender' = [sender EXCEPT ![h] = y] /\ sends' = sends)
      \/ (Return(h, [sends[m] EXCEPT !.state = "error"]) /\ inbox' = inbox)
  BY <1>1 DEF Push
<1> QED BY <1>4, <1>5, <1>6

\* The rows of the customer are looked up, or Send returns.
LEMMA LookupStep == ASSUME NotificationInv, NEW h \in Handlers, LookupSubs(h) PROVE NotificationInv'
<1> DEFINE m == sender[h].msg
           rows == {s \in Subs : subs[s] # None /\ subs[s].customer = sender[h].customer}
           left == {<<s, subs[s].channel>> : s \in rows}
           y == [sender[h] EXCEPT !.pc = "fanOut", !.left = left]
           x == [sends[m] EXCEPT !.looked = rows]
<1>0. sender[h].pc = "lookup" /\ UNCHANGED <<subs, used, inbox>>
  BY DEF LookupSubs
<1>1. sender[h] \in Sender /\ sender \in [Handlers -> Sender] /\ sends \in Seq(Message)
      /\ m \in DOMAIN sends /\ BusyInv(sender[h], sends[m], inbox)
  BY <1>0 DEF NotificationInv, FanOutInv
<1>2. sends[m] \in Message
  BY <1>1
<1>3. sends[m].state = "running" /\ sends[m].customer = sender[h].customer
      /\ sends[m].looked = {} /\ sends[m].sent = {} /\ sends[m].errs = {}
      /\ Stored(inbox, m, sender[h].customer)
      /\ (sender[h].more > 0 => sender[h].sent + sender[h].more < MaxFlagged)
  BY <1>0, <1>1 DEF BusyInv
<1>4. ASSUME NEW st \in {"ok", "error"}, Return(h, [sends[m] EXCEPT !.state = st]) PROVE NotificationInv'
  <2> DEFINE w == [sends[m] EXCEPT !.state = st]
  <2>1. w \in Message /\ w.state = st /\ w.customer = sends[m].customer /\ w.looked = {} /\ w.sent = {} /\ w.errs = {}
    BY <1>2, <1>3 DEF Message
  <2> HIDE DEF w
  <2>2. MessageInv(w, m, inbox, subs, used)
    BY <1>3, <2>1 DEF MessageInv
  <2>3. FanOutInv(subs, used, inbox, sends', sender')
    BY <1>0, <1>3, <1>4, <2>1, <2>2, SendReturns DEF NotificationInv, w
  <2> QED BY <1>0, <2>3 DEF NotificationInv
<1>5. CASE sends' = [sends EXCEPT ![m] = x] /\ sender' = [sender EXCEPT ![h] = y]
  <2>1. subs \in [Subs -> {None} \cup Row] /\ \A s \in Subs : s \notin used => subs[s] = None
    BY DEF NotificationInv, FanOutInv
  <2>2. \A s \in rows : s \in Subs /\ s \in used /\ subs[s].customer = sender[h].customer /\ subs[s].channel \in Channels
    BY <2>1 DEF Row
  <2>3. rows \subseteq Subs /\ left \subseteq Subs \X Channels
    BY <2>2
  <2>4. {s \in Subs : \E ch \in Channels : <<s, ch>> \in left} = rows
    BY <2>2
  <2> HIDE DEF rows, left
  <2>5. x \in Message /\ x.state = "running" /\ x.customer = sends[m].customer /\ x.looked = rows /\ x.sent = {} /\ x.errs = {}
    BY <1>2, <1>3, <2>3 DEF Message
  <2>6. y \in Sender /\ y.pc = "fanOut" /\ y.msg = m /\ y.customer = sender[h].customer /\ y.left = left
        /\ y.more = sender[h].more /\ y.sent = sender[h].sent
    BY <1>1, <2>3 DEF Sender
  <2> HIDE DEF x, y
  <2>7. MessageInv(x, m, inbox, subs, used)
    BY <1>3, <2>2, <2>5 DEF MessageInv
  <2>8. BusyInv(y, x, inbox)
    BY <1>3, <2>4, <2>5, <2>6 DEF BusyInv
  <2>9. FanOutInv(subs, used, inbox, [sends EXCEPT ![m] = x], [sender EXCEPT ![h] = y])
    BY <1>0, <2>5, <2>6, <2>7, <2>8, SenderMoves DEF NotificationInv
  <2> QED BY <1>0, <1>5, <2>9 DEF NotificationInv
<1>6. \/ sends' = [sends EXCEPT ![m] = x] /\ sender' = [sender EXCEPT ![h] = y]
      \/ Return(h, [sends[m] EXCEPT !.state = "ok"])
      \/ Return(h, [sends[m] EXCEPT !.state = "error"])
  <2>1. \/ /\ sends' = [sends EXCEPT ![m].looked = rows]
           /\ sender' = [sender EXCEPT ![h].pc = "fanOut", ![h].left = left]
        \/ Return(h, [sends[m] EXCEPT !.state = "ok"])
        \/ Return(h, [sends[m] EXCEPT !.state = "error"])
    BY DEF LookupSubs
  <2> QED BY <1>1, <2>1
<1> QED BY <1>4, <1>5, <1>6

\* A delivery to s, sent or failed, moves s from the rows left to the rows done.
LEMMA DeliverStep ==
  ASSUME NotificationInv, NEW h \in Handlers, NEW s \in Subs, NEW channel \in Channels, Deliver(h, s, channel)
  PROVE  NotificationInv'
<1> DEFINE m == sender[h].msg
           rest == sender[h].left \ {<<s, channel>>}
           sent == [sends[m] EXCEPT !.sent = @ \cup {s}]
           failed == [sends[m] EXCEPT !.errs = @ \cup {s}]
           Go(result) ==
             IF rest = {} THEN Return(h, [result EXCEPT !.state = IF result.errs = {} THEN "ok" ELSE "error"])
             ELSE sends' = [sends EXCEPT ![m] = result] /\ sender' = [sender EXCEPT ![h] = [sender[h] EXCEPT !.left = rest]]
<1>0. sender[h].pc = "fanOut" /\ <<s, channel>> \in sender[h].left /\ UNCHANGED <<used, inbox>>
  BY DEF Deliver
<1>1. sender[h] \in Sender /\ sender \in [Handlers -> Sender] /\ sends \in Seq(Message)
      /\ m \in DOMAIN sends /\ BusyInv(sender[h], sends[m], inbox) /\ MessageInv(sends[m], m, inbox, subs, used)
  BY <1>0 DEF NotificationInv, FanOutInv
<1>2. sends[m] \in Message
  BY <1>1
<1>3. sends[m].state = "running" /\ sends[m].customer = sender[h].customer
      /\ sends[m].looked = sends[m].sent \cup sends[m].errs \cup {t \in Subs : \E ch \in Channels : <<t, ch>> \in sender[h].left}
      /\ Stored(inbox, m, sender[h].customer)
      /\ (sender[h].more > 0 => sender[h].sent + sender[h].more < MaxFlagged)
  BY <1>0, <1>1 DEF BusyInv
<1>4. Go(sent) \/ Go(failed)
  BY <1>1 DEF Deliver
<1>5. subs' = subs \/ subs' = [subs EXCEPT ![s] = IF subs[s] = None THEN None ELSE [subs[s] EXCEPT !.lastSent = TRUE]]
  BY DEF Deliver
<1>6. FanOutInv(subs', used, inbox, sends, sender)
  <2>1. /\ subs \in [Subs -> {None} \cup Row] /\ used \in SUBSET Subs /\ inbox \in Seq(Item)
        /\ \A t \in Subs : t \notin used => subs[t] = None
    BY DEF NotificationInv, FanOutInv
  <2>2. subs' \in [Subs -> {None} \cup Row]
        /\ \A t \in Subs : (subs'[t] # None => subs[t] # None /\ subs'[t].customer = subs[t].customer)
                           /\ (subs[t] = None => subs'[t] = None)
    <3>1. CASE subs' = subs
      BY <2>1, <3>1
    <3>2. CASE subs[s] = None /\ subs' = [subs EXCEPT ![s] = None]
      BY <2>1, <3>2
    <3>3. CASE subs[s] # None /\ subs' = [subs EXCEPT ![s] = [subs[s] EXCEPT !.lastSent = TRUE]]
      <4> DEFINE w == [subs[s] EXCEPT !.lastSent = TRUE]
      <4>1. subs[s] \in Row
        BY <2>1, <3>3
      <4>2. w \in Row /\ w.customer = subs[s].customer
        BY <4>1 DEF Row
      <4> HIDE DEF w
      <4>3. subs' = [subs EXCEPT ![s] = w]
        BY <3>3 DEF w
      <4> QED BY <2>1, <3>3, <4>2, <4>3
    <3> QED BY <1>5, <3>1, <3>2, <3>3
  <2>3. \A n, c : Stored(inbox, n, c) => Stored(inbox, n, c)
    OBVIOUS
  <2> QED BY <2>1, <2>2, <2>3, TablesMove DEF NotificationInv
<1>7. ASSUME NEW r \in Message, Go(r), r.state = "running", r.customer = sends[m].customer, r.looked = sends[m].looked,
             r.sent \cup r.errs = sends[m].sent \cup sends[m].errs \cup {s}
      PROVE  NotificationInv'
  <2> DEFINE before == {t \in Subs : \E ch \in Channels : <<t, ch>> \in sender[h].left}
             after == {t \in Subs : \E ch \in Channels : <<t, ch>> \in rest}
  <2>0. before = after \cup {s}
    BY <1>0
  <2>1. r.looked = r.sent \cup r.errs \cup after
    <3> HIDE DEF before, after
    <3>1. sends[m].looked = sends[m].sent \cup sends[m].errs \cup before
      BY <1>3 DEF before
    <3> QED BY <1>7, <2>0, <3>1
  <2>2. MessageInv(sends[m], m, inbox, subs', used)
    BY <1>1, <1>6 DEF FanOutInv
  <2>3. Stored(inbox, m, r.customer) /\ r.looked \subseteq used
        /\ \A t \in r.looked : subs'[t] # None => subs'[t].customer = r.customer
    BY <1>3, <1>7, <2>2 DEF MessageInv
  <2>4. CASE rest = {}
    <3> DEFINE st == IF r.errs = {} THEN "ok" ELSE "error"
               w == [r EXCEPT !.state = st]
    <3>1. after = {} /\ r.looked = r.sent \cup r.errs
      BY <2>1, <2>4
    <3>2. st \in {"ok", "error"} /\ (st = "ok" => r.errs = {})
      OBVIOUS
    <3>3. Return(h, w)
      BY <1>7, <2>4
    <3> HIDE DEF st
    <3>4. w \in Message /\ w.state = st /\ w.customer = r.customer /\ w.looked = r.looked /\ w.sent = r.sent /\ w.errs = r.errs
      BY <3>2 DEF Message
    <3> HIDE DEF w
    <3>5. MessageInv(w, m, inbox, subs', used)
      BY <2>3, <3>1, <3>2, <3>4 DEF MessageInv
    <3>6. FanOutInv(subs', used, inbox, sends', sender')
      BY <1>0, <1>3, <1>6, <1>7, <3>2, <3>3, <3>4, <3>5, SendReturns
    <3> QED BY <1>0, <3>6 DEF NotificationInv
  <2>5. CASE rest # {}
    <3> DEFINE y == [sender[h] EXCEPT !.left = rest]
    <3>1. sends' = [sends EXCEPT ![m] = r] /\ sender' = [sender EXCEPT ![h] = y]
      BY <1>7, <2>5
    <3>2. rest \subseteq Subs \X Channels
      BY <1>1 DEF Sender
    <3> HIDE DEF rest, after
    <3>3. y \in Sender /\ y.pc = "fanOut" /\ y.msg = m /\ y.customer = sender[h].customer /\ y.left = rest
          /\ y.more = sender[h].more /\ y.sent = sender[h].sent
      BY <1>0, <1>1, <3>2 DEF Sender
    <3> HIDE DEF y
    <3>4. BusyInv(y, r, inbox)
      BY <1>3, <1>7, <2>1, <3>3 DEF BusyInv, after
    <3>5. MessageInv(r, m, inbox, subs', used)
      BY <1>7, <2>1, <2>3 DEF MessageInv
    <3>6. FanOutInv(subs', used, inbox, [sends EXCEPT ![m] = r], [sender EXCEPT ![h] = y])
      BY <1>0, <1>6, <3>3, <3>4, <3>5, SenderMoves
    <3> QED BY <1>0, <3>1, <3>6 DEF NotificationInv
  <2> QED BY <2>4, <2>5
<1>8. sent \in Message /\ sent.state = "running" /\ sent.customer = sends[m].customer /\ sent.looked = sends[m].looked
      /\ sent.sent \cup sent.errs = sends[m].sent \cup sends[m].errs \cup {s}
  BY <1>2, <1>3 DEF Message
<1>9. failed \in Message /\ failed.state = "running" /\ failed.customer = sends[m].customer /\ failed.looked = sends[m].looked
      /\ failed.sent \cup failed.errs = sends[m].sent \cup sends[m].errs \cup {s}
  BY <1>2, <1>3 DEF Message
<1> HIDE DEF Go, sent, failed
<1> QED BY <1>4, <1>7, <1>8, <1>9

\* A sender that is chosen for a request is an idle handler.
LEMMA FreeSender ==
  ASSUME NEW h \in Free({x \in Handlers : sender[x].pc = "idle"})
  PROVE  h \in Handlers /\ sender[h].pc = "idle"
BY DEF Free

\* The steps of the notifications keep their invariant.
LEMMA NotificationStep == NotificationInv /\ NotificationNext => NotificationInv'
<1> SUFFICES ASSUME NotificationInv, NotificationNext PROVE NotificationInv'
  OBVIOUS
<1>0. /\ subs \in [Subs -> {None} \cup Row] /\ used \in SUBSET Subs /\ inbox \in Seq(Item)
      /\ \A s \in Subs : s \notin used => subs[s] = None
  BY DEF NotificationInv, FanOutInv
<1>1. ASSUME UNCHANGED notificationVars PROVE NotificationInv'
  BY <1>1 DEF notificationVars, NotificationInv
<1>2. ASSUME NEW s \in Subs, NEW c \in Customers, NEW channel, createDashboardSubscription(s, c, channel)
      PROVE  NotificationInv'
  <2> DEFINE row == [customer |-> c, channel |-> channel, lastSent |-> FALSE]
  <2>1. s \notin used /\ UNCHANGED <<inbox, sends, sender>>
        /\ \/ UNCHANGED <<subs, used>>
           \/ channel \in Channels /\ subs' = [subs EXCEPT ![s] = row] /\ used' = used \cup {s}
    BY <1>2 DEF createDashboardSubscription
  <2>2. CASE channel \in Channels /\ subs' = [subs EXCEPT ![s] = row] /\ used' = used \cup {s}
    <3>1. row \in Row
      BY <2>2 DEF Row
    <3> HIDE DEF row
    <3>2. subs' \in [Subs -> {None} \cup Row] /\ used' \in SUBSET Subs /\ used \subseteq used'
          /\ (\A t \in used : subs'[t] = subs[t]) /\ \A t \in Subs : t \notin used' => subs'[t] = None
      BY <1>0, <2>1, <2>2, <3>1
    <3>3. FanOutInv(subs', used', inbox, sends, sender)
      BY <1>0, <3>2, TablesMove DEF NotificationInv
    <3> QED BY <2>1, <3>3 DEF NotificationInv
  <2> QED BY <1>1, <2>1, <2>2 DEF notificationVars
<1>3. ASSUME NEW s \in Subs, deleteSubscription(s) PROVE NotificationInv'
  <2>1. UNCHANGED <<used, inbox, sends, sender>> /\ (subs' = subs \/ subs' = [subs EXCEPT ![s] = None])
    BY <1>3 DEF deleteSubscription
  <2>2. subs' \in [Subs -> {None} \cup Row] /\ \A t \in Subs : subs'[t] = None \/ subs'[t] = subs[t]
    BY <1>0, <2>1
  <2>3. FanOutInv(subs', used, inbox, sends, sender)
    BY <1>0, <2>2, TablesMove DEF NotificationInv
  <2> QED BY <2>1, <2>3 DEF NotificationInv
<1>4. ASSUME NEW h \in Free({x \in Handlers : sender[x].pc = "idle"}), NEW s \in Subs, testSendSubscription(h, s)
      PROVE  NotificationInv'
  <2>1. h \in Handlers /\ sender[h].pc = "idle"
    BY FreeSender
  <2>2. UNCHANGED <<subs, used, inbox>>
        /\ \/ UNCHANGED <<sends, sender>>
           \/ subs[s] # None /\ StartSend(h, "testSend", subs[s].customer, 0, 0)
    BY <1>4 DEF testSendSubscription
  <2>3. ASSUME subs[s] # None, StartSend(h, "testSend", subs[s].customer, 0, 0) PROVE NotificationInv'
    <3>1. subs[s].customer \in Customers
      BY <1>0, <2>3 DEF Row
    <3> QED BY <2>1, <2>2, <2>3, <3>1, SmtpAssumption, SendStarts
  <2> QED BY <1>1, <2>2, <2>3 DEF notificationVars
<1>5. ASSUME NEW h \in Free({x \in Handlers : sender[x].pc = "idle"}), NEW c \in Customers, NEW n \in 0 .. MaxFlagged,
             scanAnomalies(h, c, n)
      PROVE  NotificationInv'
  <2>1. h \in Handlers /\ sender[h].pc = "idle"
    BY FreeSender
  <2>2. UNCHANGED <<subs, used, inbox>>
        /\ \/ UNCHANGED <<sends, sender>>
           \/ n > 0 /\ StartSend(h, "scan", c, n - 1, 0)
    BY <1>5 DEF scanAnomalies
  <2>3. ASSUME n > 0, StartSend(h, "scan", c, n - 1, 0) PROVE NotificationInv'
    <3> DEFINE k == n - 1
    <3>1. k \in 0 .. MaxFlagged /\ k < MaxFlagged
      BY <2>3, SmtpAssumption
    <3>2. StartSend(h, "scan", c, k, 0)
      BY <2>3
    <3> HIDE DEF k
    <3> QED BY <2>1, <2>2, <3>1, <3>2, SendStarts
  <2> QED BY <1>1, <2>2, <2>3 DEF notificationVars
<1>6. ASSUME UNCHANGED <<subs, used, sends, sender>>, UNCHANGED inbox \/ \E Q : Read(Q) PROVE NotificationInv'
  <2>1. CASE UNCHANGED inbox
    BY <1>1, <1>6, <2>1 DEF notificationVars
  <2>2. CASE \E Q : Read(Q)
    <3>1. CASE Customers = {}
      <4>1. inbox = <<>>
        <5>1. Item = {}
          BY <3>1 DEF Item
        <5> QED BY <1>0, <5>1
      <4>2. inbox' = inbox
        BY <2>2, <4>1 DEF Read
      <4> QED BY <2>1, <4>2
    <3>2. CASE Customers # {}
      <4>1. PICK c \in Customers : TRUE
        BY <3>2
      <4>2. [customer |-> c, msg |-> 0, read |-> FALSE] \in Item
        BY DEF Item
      <4>3. inbox' \in Seq(Item) /\ \A m, d : Stored(inbox, m, d) => Stored(inbox', m, d)
        BY <1>0, <2>2, <4>2, InboxKept
      <4>4. FanOutInv(subs, used, inbox', sends, sender)
        BY <1>0, <4>3, TablesMove DEF NotificationInv
      <4> QED BY <1>6, <4>4 DEF NotificationInv
    <3> QED BY <3>1, <3>2
  <2> QED BY <1>6, <2>1, <2>2
<1>7. ASSUME NEW c \in Customers, inboxMarkAllRead(c) PROVE NotificationInv'
  BY <1>6, <1>7 DEF inboxMarkAllRead
<1>8. ASSUME NEW i \in DOMAIN inbox, inboxMarkRead(i) PROVE NotificationInv'
  BY <1>6, <1>8 DEF inboxMarkRead
<1>9. ASSUME listDashboardSubscriptions \/ (\E c \in Customers : inboxBadgeCount(c) \/ \E u \in BOOLEAN : inboxList(c, u))
      PROVE  NotificationInv'
  BY <1>1, <1>9 DEF listDashboardSubscriptions, inboxBadgeCount, inboxList
<1> QED BY <1>2, <1>3, <1>4, <1>5, <1>7, <1>8, <1>9, PushStep, LookupStep, DeliverStep DEF NotificationNext

\* What the invariant says of the types, and the property it is for.
LEMMA NotificationFacts == NotificationInv => NotificationTypeOK /\ FannedOut
<1> SUFFICES ASSUME NotificationInv PROVE NotificationTypeOK /\ FannedOut
  OBVIOUS
<1>1. NotificationTypeOK
  BY DEF NotificationInv, FanOutInv, NotificationTypeOK, Row, Item, Message, Sender
<1>2. FannedOut
  BY DEF NotificationInv, FanOutInv, MessageInv, Stored, FannedOut
<1> QED BY <1>1, <1>2

-----------------------------------------------------------------------------
(* The whole control plane.                                                 *)

\* What every step does to the clock and the two budgets.
Counted == (Call \/ UNCHANGED <<calls, now>>) /\ (Works \/ Fails)

\* A step of the scheduler counts at most one request and one failure.
LEMMA SchedulerCounted == SchedulerNext => Counted
BY DEF Counted, SchedulerNext, createScheduledQuery, deleteScheduledQuery, listScheduledQueries, Tick, runOne, insertRun,
       finishRun, advanceNext, StopRunner, Serve, Refuse, Works

\* A step of the notifications counts at most one request and one failure.
LEMMA NotificationCounted == NotificationNext => Counted
<1> SUFFICES ASSUME NotificationNext PROVE Counted
  OBVIOUS
<1>1. ASSUME NEW s, NEW c, NEW channel,
             createDashboardSubscription(s, c, channel) \/ deleteSubscription(s)
      PROVE  Counted
  BY <1>1 DEF Counted, createDashboardSubscription, deleteSubscription, Serve, Refuse
<1>2. ASSUME NEW h, NEW s, NEW c, NEW n,
             testSendSubscription(h, s) \/ scanAnomalies(h, c, n)
      PROVE  Counted
  BY <1>2 DEF Counted, testSendSubscription, scanAnomalies, Serve, Refuse
<1>3. ASSUME NEW h,
             Push(h) \/ LookupSubs(h)
      PROVE  Counted
  BY <1>3 DEF Counted, Push, LookupSubs, Serve, Refuse
<1>4. ASSUME NEW h, NEW s, NEW channel,
             Deliver(h, s, channel)
      PROVE  Counted
  BY <1>4 DEF Counted, Deliver, Serve, Refuse
<1>5. ASSUME NEW c, NEW u, NEW i,
             inboxBadgeCount(c) \/ inboxMarkAllRead(c) \/ inboxList(c, u) \/ inboxMarkRead(i) \/ listDashboardSubscriptions
      PROVE  Counted
  BY <1>5 DEF Counted, inboxBadgeCount, inboxMarkAllRead, inboxList, inboxMarkRead, listDashboardSubscriptions, Serve, Refuse
<1> QED BY <1>1, <1>2, <1>3, <1>4, <1>5 DEF NotificationNext

\* A step of the dashboards counts at most one request and one failure.
LEMMA DashboardCounted == DashboardNext => Counted
<1> SUFFICES ASSUME DashboardNext PROVE Counted
  OBVIOUS
<1>1. ASSUME NEW d, NEW p,
             createDashboard(d, p) \/ listDashboards
      PROVE  Counted
  BY <1>1 DEF Counted, createDashboard, listDashboards, Serve, Refuse
<1>2. ASSUME NEW h,
             CompleteEdit(h) \/ ReadMax(h) \/ InsertVersion(h) \/ Mirror(h) \/ ShowDashboard(h)
      PROVE  Counted
  BY <1>2 DEF Counted, CompleteEdit, ReadMax, InsertVersion, Mirror, ShowDashboard, Serve, Refuse
<1>3. ASSUME NEW h, NEW d, NEW v, NEW t,
             dashboardAIEdit(h, d) \/ restoreDashboardVersion(h, d, v) \/ publicDashboard(h, t)
      PROVE  Counted
  BY <1>3 DEF Counted, dashboardAIEdit, restoreDashboardVersion, publicDashboard, Serve, Refuse
<1>4. ASSUME NEW d, NEW v,
             listDashboardVersions(d) \/ getDashboardVersion(d, v)
      PROVE  Counted
  BY <1>4 DEF Counted, listDashboardVersions, getDashboardVersion, Serve, Refuse
<1>5. ASSUME NEW t, NEW d, NEW ttl,
             createDashboardSnapshot(t, d) \/ createDashboardShare(t, d, ttl) \/ getDashboardSnapshot(t) \/ Revoke(t)
      PROVE  Counted
  BY <1>5 DEF Counted, createDashboardSnapshot, createDashboardShare, getDashboardSnapshot, Revoke, Serve, Refuse
<1> QED BY <1>1, <1>2, <1>3, <1>4, <1>5 DEF DashboardNext

\* A step of the governance tables counts at most one request and one failure.
LEMMA GovernanceCounted == GovernanceNext => Counted
<1> SUFFICES ASSUME GovernanceNext PROVE Counted
  OBVIOUS
<1>1. ASSUME NEW a, NEW s, NEW x,
             submitQueryApproval(a) \/ decideQueryApproval(a, s, x) \/ listQueryApprovals(s)
      PROVE  Counted
  BY <1>1 DEF Counted, submitQueryApproval, decideQueryApproval, listQueryApprovals, Serve, Refuse
<1>2. ASSUME NEW role, NEW p,
             openAccessReview(role, p) \/ closeAccessReview(role, p)
      PROVE  Counted
  BY <1>2 DEF Counted, openAccessReview, closeAccessReview, Serve, Refuse
<1>3. ASSUME NEW h, NEW role, NEW p, NEW action,
             CheckReview(h, role, p, action) \/ InsertDecision(h)
      PROVE  Counted
  BY <1>3 DEF Counted, CheckReview, InsertDecision, Serve, Refuse
<1>4. ASSUME NEW c, NEW e, NEW id,
             listAccessReviews(c) \/ createUser(c, e, id)
      PROVE  Counted
  BY <1>4 DEF Counted, listAccessReviews, createUser, Serve, Refuse
<1>5. ASSUME NEW id,
             listUsers \/ getUser(id) \/ deleteUser(id)
      PROVE  Counted
  BY <1>5 DEF Counted, listUsers, getUser, deleteUser, Serve, Refuse
<1> QED BY <1>1, <1>2, <1>3, <1>4, <1>5 DEF GovernanceNext

\* A counted step stays within the bounds and forgets no request.
LEMMA ApiStep == ASSUME ApiTypeOK, Counted PROVE ApiTypeOK' /\ calls' \in {calls, calls + 1}
BY ApiAssumption DEF ApiTypeOK, Counted, Call, Works, Fails

\* The inductive invariant: one part per component.
IInv == ApiTypeOK /\ SchedulerTypeOK /\ NotificationInv /\ DashboardInv /\ GovernanceTypeOK /\ DecisionStands

\* Where a component does not move, its part of the invariant stays.
LEMMA Frame ==
  ASSUME IInv
  PROVE  /\ UNCHANGED schedulerVars => SchedulerTypeOK'
         /\ UNCHANGED notificationVars => NotificationInv'
         /\ (UNCHANGED dashboardVars /\ calls' \in {calls, calls + 1}) => DashboardInv'
         /\ UNCHANGED governanceVars => GovernanceTypeOK' /\ DecisionStands'
<1>1. ASSUME UNCHANGED schedulerVars PROVE SchedulerTypeOK'
  BY <1>1 DEF IInv, SchedulerTypeOK, schedulerVars
<1>2. ASSUME UNCHANGED notificationVars PROVE NotificationInv'
  BY <1>2 DEF IInv, NotificationInv, notificationVars
<1>3. ASSUME UNCHANGED dashboardVars, calls' \in {calls, calls + 1} PROVE DashboardInv'
  <2>1. UNCHANGED <<dash, versions, snapshots, tokens, editor>>
    BY <1>3 DEF dashboardVars
  <2>2. /\ dash' \in [Boards -> Payloads \cup {None}] /\ snapshots' \subseteq Tokens \X Boards
        /\ tokens' \in [Tokens -> {None} \cup [dash : Boards, expires : {None} \cup Nat, revoked : BOOLEAN]]
    BY <2>1 DEF IInv, DashboardInv, DashboardTypeOK
  <2> QED BY <1>3, <2>1, <2>2, DashboardFrame DEF IInv
<1>4. ASSUME UNCHANGED governanceVars PROVE GovernanceTypeOK' /\ DecisionStands'
  BY <1>4 DEF IInv, GovernanceTypeOK, DecisionStands, governanceVars
<1> QED BY <1>1, <1>2, <1>3, <1>4

\* Every step of every component keeps the invariant of all.
LEMMA ControlPlaneStep == IInv /\ [Next]_vars => IInv'
<1> SUFFICES ASSUME IInv, [Next]_vars PROVE IInv'
  OBVIOUS
<1>1. CASE SchedulerNext /\ UNCHANGED <<notificationVars, dashboardVars, governanceVars>>
  <2>1. ApiTypeOK' /\ calls' \in {calls, calls + 1}
    BY <1>1, SchedulerCounted, ApiStep DEF IInv
  <2>2. SchedulerTypeOK'
    BY <1>1, SchedulerStep DEF IInv
  <2> QED BY <1>1, <2>1, <2>2, Frame DEF IInv
<1>2. CASE NotificationNext /\ UNCHANGED <<schedulerVars, dashboardVars, governanceVars>>
  <2>1. ApiTypeOK' /\ calls' \in {calls, calls + 1}
    BY <1>2, NotificationCounted, ApiStep DEF IInv
  <2>2. NotificationInv'
    BY <1>2, NotificationStep DEF IInv
  <2> QED BY <1>2, <2>1, <2>2, Frame DEF IInv
<1>3. CASE DashboardNext /\ UNCHANGED <<schedulerVars, notificationVars, governanceVars>>
  <2>1. ApiTypeOK'
    BY <1>3, DashboardCounted, ApiStep DEF IInv
  <2>2. DashboardInv'
    BY <1>3, DashboardStep DEF IInv
  <2> QED BY <1>3, <2>1, <2>2, Frame DEF IInv
<1>4. CASE GovernanceNext /\ UNCHANGED <<schedulerVars, notificationVars, dashboardVars>>
  <2>1. ApiTypeOK' /\ calls' \in {calls, calls + 1}
    BY <1>4, GovernanceCounted, ApiStep DEF IInv
  <2>2. GovernanceTypeOK' /\ DecisionStands'
    BY <1>4, GovernanceStep DEF IInv
  <2> QED BY <1>4, <2>1, <2>2, Frame DEF IInv
<1>5. CASE Clock /\ UNCHANGED <<schedulerVars, notificationVars, dashboardVars, governanceVars>>
  <2>1. ApiTypeOK' /\ calls' = calls
    BY <1>5, ApiAssumption DEF IInv, ApiTypeOK, Clock
  <2> QED BY <1>5, <2>1, Frame DEF IInv
<1>6. CASE UNCHANGED vars
  <2>1. UNCHANGED <<calls, faults, now>> /\ UNCHANGED <<schedulerVars, notificationVars, dashboardVars, governanceVars>>
    BY <1>6 DEF vars, api
  <2>2. ApiTypeOK'
    BY <2>1 DEF IInv, ApiTypeOK
  <2> QED BY <2>1, <2>2, Frame DEF IInv
<1> QED BY <1>1, <1>2, <1>3, <1>4, <1>5, <1>6 DEF Next

\* The invariant holds throughout, however the requests, the runners, the clock and the failures interleave.
THEOREM ControlPlaneInvariance == Spec => []IInv
<1>1. Init => IInv
  <2> SUFFICES ASSUME Init PROVE IInv
    OBVIOUS
  <2>1. ApiTypeOK
    BY ApiAssumption DEF Init, ApiInit, ApiTypeOK
  <2> QED BY <2>1, SchedulerInitial, NotificationInitial, DashboardInitial, GovernanceInitial DEF Init, IInv
<1> QED BY <1>1, ControlPlaneStep, PTL DEF Spec

\* What the invariant says of the types and the properties.
LEMMA ControlPlaneFacts == IInv => TypeOK /\ FannedOut /\ VersionsDense /\ DecisionStands
BY NotificationFacts DEF IInv, DashboardInv, TypeOK

\* The tables, and the local variables of the handlers and the runners, keep their types, the clock and
\* the budgets stay in their bounds.
THEOREM ControlPlaneTypeCorrect == Spec => []TypeOK
BY ControlPlaneInvariance, ControlPlaneFacts, PTL

\* Router.Send: what is sent is in the inbox, and every row looked up is sent to or in the joined error,
\* with subscriptions created and deleted during the fan-out.
THEOREM MessagesFannedOut == Spec => []FannedOut
BY ControlPlaneInvariance, ControlPlaneFacts, PTL

\* insertDashboardVersion: the versions of a dashboard are 1, 2, 3, ..., with any number of edits and
\* restores between MAX(version) and the insert.
THEOREM HistoryDense == Spec => []VersionsDense
BY ControlPlaneInvariance, ControlPlaneFacts, PTL

\* decideQueryApproval: the decision that was answered 200 is the only one, and is what the row says.
THEOREM DecisionsStand == Spec => []DecisionStands
BY ControlPlaneInvariance, ControlPlaneFacts, PTL

=============================================================================
