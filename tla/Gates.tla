--------------------------------- MODULE Gates ---------------------------------
(***************************************************************************)
(* The spending gates: the budget of a customer (internal/budgets) and the  *)
(* quota of a user (internal/quotas), and the handlers that ask them before *)
(* a query is run.  They read the month's spend and advise; nothing is      *)
(* reserved.  Amounts are small naturals; a month does not end.             *)
(***************************************************************************)
EXTENDS Workspace

CONSTANTS
  Budgets,      \* external: the rows of cost_budget an operator may have put there (no route
                \* reaches upsertBudget): cap, soft and hard percentages
  Caps,         \* what a quota may be capped at
  Costs,        \* what a query may cost
  Size,         \* external: what the tables of the query amount to, at a rate of 1
  MaxCharges    \* bound: queries charged

ASSUME GatesAssumption ==
  /\ Budgets \subseteq [cap : Nat, soft : Nat, hard : Nat]
  /\ Caps \subseteq Nat /\ Costs \subseteq Nat /\ {Size, MaxCharges} \subseteq Nat

VARIABLES
  budget,       \* table cost_budget: a row, or None, for each customer
  quota,        \* table user_quota: a row, or None, for each customer and user
  charged       \* query_log rows with an actual cost: how many and how much, for each customer

gateVars == <<budget, quota, charged>>

GatesInit ==
  /\ budget \in [Customers -> Budgets \cup {None}]
  /\ quota = [p \in Customers \X Users |-> None]
  /\ charged = [c \in Customers |-> [n |-> 0, sum |-> 0]]

(* external: the backfiller finds what a query of the customer's cost *)
Charge(c, cost) ==
  /\ Exists(c) /\ charged[c].n < MaxCharges
  /\ charged' = [charged EXCEPT ![c] = [n |-> @.n + 1, sum |-> @.sum + cost]]
  /\ Silent
  /\ UNCHANGED <<calls, faults, now, admissionVars, workspaceVars, budget, quota>>

-----------------------------------------------------------------------------
HasCap(c) == budget[c] # None /\ budget[c].cap > 0

(* Status: without a cap nothing is used of it *)
Status(c) ==
  LET reached(pct) == IF HasCap(c) THEN charged[c].sum * 100 >= budget[c].cap * pct ELSE 0 >= pct
  IN  IF budget[c] = None THEN "ok"
      ELSE IF reached(budget[c].hard) THEN "hard_breach"
      ELSE IF reached(budget[c].soft) THEN "soft_breach" ELSE "ok"

(* a price of num / den *)
PreflightAllow(c, num, den) == HasCap(c) => (charged[c].sum * den + num) * 100 <= budget[c].cap * budget[c].hard * den

(* MonthSpend of internal/quotas: the customer's, whoever spent it *)
MonthSpend(c, u) == charged[c].sum

Check(c, u, cost) ==
  LET q == quota[<<c, u>>]
      over == q.cap > 0 /\ MonthSpend(c, u) + cost > q.cap
  IN  IF q = None THEN [allowed |-> TRUE, reason |-> "no quota configured"]
      ELSE IF over /\ q.block THEN [allowed |-> FALSE, reason |-> "hard quota exceeded"]
      ELSE [allowed |-> TRUE, reason |-> IF over THEN "soft quota exceeded" ELSE "ok"]

CapFor(c, u) == IF quota[<<c, u>>] = None THEN 0 ELSE quota[<<c, u>>].cap

primaryWarehouseFor(c) == IF ListConnections(c) = <<>> THEN "bigquery" ELSE conns[Head(ListConnections(c))].kind

(* EstimateSQL: a warehouse's rate times the bytes of the tables *)
Price(c) == IF primaryWarehouseFor(c) = "snowflake" THEN 2 * Size ELSE Size

resolvePreflightCustomer(user, body) == IF body # None THEN body ELSE activeCustomer(user)

Suggests(c, u) == ~Check(c, u, Price(c)).allowed \/ (CapFor(c, u) > 0 /\ 2 * Price(c) > CapFor(c, u))

-----------------------------------------------------------------------------
Verdict(c, num, den) ==
  IF ~PreflightAllow(c, num, den) THEN "hard_block" ELSE IF Status(c) = "soft_breach" THEN "soft_warn" ELSE "ok"

(* the body's price, or what the text cost on average; the average that is not read is 0, *)
(* and any other error is taken for no budget or no spend                                 *)
budgetCheck(c, price) ==
  /\ \/ (price # 0 \/ charged[c].n = 0) /\ Serve("budgetCheck", 200, Verdict(c, price, 1))
     \/ price = 0 /\ charged[c].n > 0 /\ Serve("budgetCheck", 200, Verdict(c, charged[c].sum, charged[c].n))
     \/ \E verdict \in {"ok", Verdict(c, price, 1)} : Call /\ Fails /\ Answer("budgetCheck", 200, verdict)
  /\ UNCHANGED gateVars

preflightCheck(user, body) ==
  LET c == resolvePreflightCustomer(user, body)
  IN  /\ \/ c # None /\ Serve("preflightCheck", 200, PreflightAllow(c, Price(c), 1))
         \/ c = None /\ Serve("preflightCheck", 400, None)
         \/ RefuseFor(user, "preflightCheck")
         \/ c # None /\ Call /\ Fails /\ Answer("preflightCheck", 200, TRUE)
      /\ UNCHANGED gateVars

List(c) == {u \in Users : quota[<<c, u>>] # None}

listQuotas(c) ==
  /\ Serve("listQuotas", 200, List(c)) \/ Refuse("listQuotas")
  /\ UNCHANGED gateVars

Upsert(c, u, q) == quota' = [quota EXCEPT ![<<c, u>>] = q]

upsertQuota(c, u, cap, block) ==         \* whatever goes wrong is answered 400
  /\ \/ Exists(c) /\ Serve("upsertQuota", 201, u) /\ Upsert(c, u, [cap |-> cap, block |-> block])
     \/ ~Exists(c) /\ Serve("upsertQuota", 400, None) /\ UNCHANGED quota
     \/ Call /\ Fails /\ Answer("upsertQuota", 400, None) /\ UNCHANGED quota
  /\ UNCHANGED <<budget, charged>>

scheduleSuggest(user, body, u) ==
  LET c == resolvePreflightCustomer(user, body)
  IN  /\ \/ c # None /\ Serve("scheduleSuggest", 200, Suggests(c, u))
         \/ c = None /\ Serve("scheduleSuggest", 400, None)
         \/ RefuseFor(user, "scheduleSuggest")
      /\ UNCHANGED gateVars
=============================================================================
