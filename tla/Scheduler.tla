------------------------------- MODULE Scheduler -------------------------------
(***************************************************************************)
(* Scheduled queries: the registry of internal/api/scheduled_queries.go and *)
(* the runner of internal/scheduler, which cmd/sync ticks once a minute.    *)
(* Each replica of uv-sync is a runner; all of them share the database.     *)
(***************************************************************************)
EXTENDS ApiRequests

CONSTANTS Queries,   \* ids of scheduled_query rows
          Runners,   \* replicas of uv-sync
          Limit      \* LIMIT of the select of due rows (100 in the code)

ASSUME LimitAssumption == Limit \in Nat \ {0} /\ IsFiniteSet(Queries)

VARIABLES
  sq,       \* table scheduled_query: the state of each id, next_run_at, last_run_status
  runs,     \* table scheduled_query_run
  runner    \* each runner: the due rows left to run, its step, the id of its run row

schedulerVars == <<sq, runs, runner>>

IdleRunner == [pc |-> "idle", todo |-> <<>>, run |-> 0]
Live(q) == sq[q].state = "live"
Due(q) == Live(q) /\ sq[q].next <= now

SchedulerTypeOK ==
  /\ sq \in [Queries -> [state : {"absent", "live", "deleted"}, next : 0 .. MaxTime + 1,
                         last : {None, "success"}]]
  /\ runs \in Seq([query : Queries, at : 0 .. MaxTime, status : {"running", "success", "deleted"}])
  /\ runner \in [Runners -> [pc : {"idle", "insert", "finish", "advance"},
                             todo : Seq(Queries), run : Nat]]
  /\ \A r \in Runners : runner[r].run <= Len(runs) /\ (runner[r].pc = "idle" <=> runner[r].todo = <<>>)

SchedulerInit ==
  /\ sq = [q \in Queries |-> [state |-> "absent", next |-> 0, last |-> None]]
  /\ runs = <<>>
  /\ runner = [r \in Runners |-> IdleRunner]

createScheduledQuery(q) ==      \* next_run_at DEFAULT now()
  /\ sq[q].state = "absent"
  /\ \/ /\ Serve("createScheduledQuery", 201, q)
        /\ sq' = [sq EXCEPT ![q].state = "live", ![q].next = now]
     \/ Refuse("createScheduledQuery") /\ UNCHANGED sq
  /\ UNCHANGED <<runs, runner>>

deleteScheduledQuery(q) ==      \* scheduled_query_run rows go with it: ON DELETE CASCADE
  /\ sq[q].state # "absent"
  /\ \/ /\ Serve("deleteScheduledQuery", 204, None)
        /\ sq' = [sq EXCEPT ![q].state = "deleted"]
        /\ runs' = [i \in DOMAIN runs |-> IF runs[i].query = q THEN [runs[i] EXCEPT !.status = "deleted"] ELSE runs[i]]
     \/ Refuse("deleteScheduledQuery") /\ UNCHANGED <<sq, runs>>
  /\ UNCHANGED runner

listScheduledQueries ==
  /\ \/ Serve("listScheduledQueries", 200, {<<q, sq[q].last>> : q \in {x \in Queries : Live(x)}})
     \/ Refuse("listScheduledQueries")
  /\ UNCHANGED schedulerVars

(* mutant: no ORDER BY *)
BatchesUnordered ==
  LET due == {q \in Queries : Due(q)}
      size == IF Cardinality(due) < Limit THEN Cardinality(due) ELSE Limit
  IN  {s \in [1 .. size -> due] : \A i, j \in 1 .. size : i < j => s[i] # s[j]}

(* the rows of the select: at most Limit due ones, the earliest first *)
Batches ==
  LET due == {q \in Queries : Due(q)}
      size == IF Cardinality(due) < Limit THEN Cardinality(due) ELSE Limit
  IN  {s \in [1 .. size -> due] :
         /\ \A i, j \in 1 .. size : i < j => s[i] # s[j] /\ sq[s[i]].next <= sq[s[j]].next
         /\ \A q \in due \ {s[i] : i \in 1 .. size} : \A i \in 1 .. size : sq[s[i]].next <= sq[q].next}

Tick(r) ==                      \* a failed select is logged: the next tick selects again
  /\ runner[r].pc = "idle"
  /\ \E s \in Batches :
       /\ s # <<>>
       /\ runner' = [runner EXCEPT ![r] = [pc |-> "insert", todo |-> s, run |-> 0]]
  /\ Silent /\ UNCHANGED <<calls, faults, now, sq, runs>>

(* mutant: the runner is not set idle after the last row *)
NextRowStaysBusy(r) ==
  runner' = [runner EXCEPT ![r] = [pc |-> "insert", todo |-> Tail(runner[r].todo), run |-> 0]]

NextRow(r) ==
  LET rest == Tail(runner[r].todo)
  IN  runner' = [runner EXCEPT ![r] = IF rest = <<>> THEN IdleRunner ELSE [pc |-> "insert", todo |-> rest, run |-> 0]]

insertRun(r) ==                 \* the row is recorded before it is run; its query must still exist
  /\ runner[r].pc = "insert"
  /\ LET q == Head(runner[r].todo)
     IN  \/ /\ Works /\ Live(q)
            /\ runs' = Append(runs, [query |-> q, at |-> now, status |-> "running"])
            /\ runner' = [runner EXCEPT ![r].pc = "finish", ![r].run = Len(runs')]
         \/ ((Works /\ ~Live(q)) \/ Fails) /\ NextRow(r) /\ UNCHANGED runs
  /\ Silent /\ UNCHANGED <<calls, now, sq>>

finishRun(r) ==                 \* after 200 ms the run is a success; a deleted row is no error
  /\ runner[r].pc = "finish"
  /\ \/ /\ Works
        /\ runs' = [runs EXCEPT ![runner[r].run].status = IF @ = "deleted" THEN @ ELSE "success"]
        /\ runner' = [runner EXCEPT ![r].pc = "advance"]
     \/ Fails /\ NextRow(r) /\ UNCHANGED runs
  /\ Silent /\ UNCHANGED <<calls, now, sq>>

advanceNext(r) ==               \* every query reruns one hour later; a failure is logged
  /\ runner[r].pc = "advance"
  /\ LET q == Head(runner[r].todo)
     IN  \/ Works /\ sq' = [sq EXCEPT ![q].next = IF Live(q) THEN now + 1 ELSE @,
                                      ![q].last = IF Live(q) THEN "success" ELSE @]
         \/ Fails /\ UNCHANGED sq
  /\ NextRow(r)
  /\ Silent /\ UNCHANGED <<calls, now, runs>>

runOne(r) == insertRun(r) \/ finishRun(r) \/ advanceNext(r)

StopRunner(r) ==                \* the process is stopped or dies: a run row stays running
  /\ runner[r].pc # "idle"
  /\ Fails
  /\ runner' = [runner EXCEPT ![r] = IdleRunner]
  /\ Silent /\ UNCHANGED <<calls, now, sq, runs>>

SchedulerNext ==
  \/ \E q \in Queries : createScheduledQuery(q) \/ deleteScheduledQuery(q)
  \/ listScheduledQueries
  \/ \E r \in Runners : Tick(r) \/ runOne(r) \/ StopRunner(r)

(* No due query is passed over again and again, although a tick runs at     *)
(* most Limit rows and rows come due while others wait: while q waits, no   *)
(* other query is run again since the time q was due for, but once by each  *)
(* runner, which had selected it or saw it as due before q, and once more   *)
(* for each failure.                                                        *)
NotPassedOver ==
  \A q \in Queries : Due(q) =>
    \A p \in Queries \ {q} :
      Cardinality({i \in DOMAIN runs : runs[i].query = p /\ runs[i].at > sq[q].next /\ runs[i].status # "deleted"})
        <= Cardinality(Runners) + faults
=============================================================================
