---------------------------- MODULE Platform_proofs ----------------------------
(***************************************************************************)
(* What the limiter and the readers of a workspace promise, for any number  *)
(* of buckets, customers, users and handlers, any rate, resolution of the   *)
(* clock and page size, and requests in any order:                          *)
(*                                                                          *)
(*   - RateBounded, from LimiterInv.  Over a window that ends when the      *)
(*     bucket was last asked, what was let through and what is left in the  *)
(*     bucket are together at most a full bucket and the refill of the      *)
(*     window (Metered): a request moves one token from the second to the   *)
(*     first, and the refill grows the bucket no faster than the window;    *)
(*   - ReadersMissNothing, from ReadersInv.  What a reader still lacks is   *)
(*     what its later statements read (Reader): a client's missing rows are *)
(*     behind the pages it had, the graph's are edges, the backup's are keys*)
(*     and tables of connections to come.  Rows are only added, and a row   *)
(*     that is added to an ordered list moves no other one forward          *)
(*     (ListedGrows), so no other request can take this away.               *)
(*                                                                          *)
(* No handler touches what the limiter keeps.                               *)
(***************************************************************************)
EXTENDS Platform, FiniteSetTheorems, SequenceTheorems, TLAPS

-----------------------------------------------------------------------------
(* what was let through from a tick to the last request, and what is left *)
WindowPaid(b, from) ==
  admitted[b][buckets[b].last] + buckets[b].tokens
    <= Before(b, from) + capacity + rps * (buckets[b].last - from)

(* no window that ends at a tick gave more than the bucket and its refill *)
WindowBounded(b, from, to) == admitted[b][to] <= Before(b, from) + capacity + rps * (to - from)

Metered(b) ==
  /\ buckets[b] = None => \A t \in 0 .. MaxTime : admitted[b][t] = 0
  /\ buckets[b] # None =>
       /\ buckets[b].last <= now
       /\ buckets[b].tokens <= capacity
       /\ \A t \in buckets[b].last .. MaxTime : admitted[b][t] = admitted[b][buckets[b].last]
       /\ \A from \in 0 .. buckets[b].last : WindowPaid(b, from)
       /\ \A from \in 0 .. buckets[b].last : \A to \in from .. buckets[b].last : WindowBounded(b, from, to)

LimiterTypeOK ==
  /\ now \in 0 .. MaxTime
  /\ buckets \in [Buckets -> {None} \cup Meter]
  /\ admitted \in [Buckets -> [0 .. MaxTime -> Nat]]

LimiterInv == LimiterTypeOK /\ \A b \in Buckets : Metered(b)

-----------------------------------------------------------------------------
(* What a step can do to the limiter.                                        *)

(* a request is let through or not, in the tick it arrives *)
LimiterStep == now' = now /\ \E b \in Buckets : Allow(b) \/ Deny(b)

LimiterStutter == UNCHANGED <<now, buckets, admitted>>

LimiterClock == now < MaxTime /\ now' = now + 1 /\ UNCHANGED <<buckets, admitted>>

(* the handlers of one statement: those over the rows of a workspace, and those of the gates *)
RowHandlers(user) ==
  \/ listCustomers
  \/ \E c \in Customers :
       \/ createCustomer(c) \/ createAPIKey(c) \/ createWebhook(c) \/ listWebhooks(c)
       \/ \E kind \in Kinds, name \in Names : createConnection(c, kind, name)
  \/ \E conn \in ConnIds : testConnection(conn) \/ \E t \in Tables : createSyncedTable(conn, t)
  \/ \E k \in 1 .. Len(apiKeys) : revokeAPIKey(k)
  \/ \E slug \in Users, t \in Tables, on \in {"change", "any"} : createLineageWatch(user, slug, t, on)
  \/ \E slug \in Users \cup {None} : listLineageWatches(user, slug)
  \/ \E id \in 1 .. MaxCalls : deleteLineageWatch(user, id) \/ deleteWebhook(id)
  \/ \E body \in Customers \cup {None}, author \in Authors \cup {None} : createAnnotation(user, body, author)
  \/ listAnnotations(user)

GateHandlers(user) ==
  \/ \E c \in Customers :
       \/ listQuotas(c)
       \/ \E price \in Costs : budgetCheck(c, price)
       \/ \E u \in Users, cap \in Caps, block \in BOOLEAN : upsertQuota(c, u, cap, block)
  \/ \E body \in Customers \cup {None} : preflightCheck(user, body) \/ \E u \in Users : scheduleSuggest(user, body, u)

\* A handler of one statement over the rows of a workspace leaves the clock alone.
LEMMA RowHandlersKeepTime ==
  ASSUME NEW user, RowHandlers(user)
  PROVE  now' = now
<1>1. CASE listCustomers
  BY <1>1 DEF listCustomers, Serve, Refuse, Call
<1>2. CASE \E c \in Customers :
             \/ createCustomer(c) \/ createAPIKey(c) \/ createWebhook(c) \/ listWebhooks(c)
             \/ \E kind \in Kinds, name \in Names : createConnection(c, kind, name)
  BY <1>2 DEF createCustomer, createAPIKey, createWebhook, listWebhooks, createConnection, Serve, Refuse, Call
<1>3. CASE \E conn \in ConnIds : testConnection(conn) \/ \E t \in Tables : createSyncedTable(conn, t)
  BY <1>3 DEF testConnection, createSyncedTable, Serve, Refuse, Call
<1>4. CASE \E k \in 1 .. Len(apiKeys) : revokeAPIKey(k)
  BY <1>4 DEF revokeAPIKey, Serve, Refuse, Call
<1>5. CASE \E slug \in Users, t \in Tables, on \in {"change", "any"} : createLineageWatch(user, slug, t, on)
  BY <1>5 DEF createLineageWatch, Serve, Refuse, RefuseFor, Call
<1>6. CASE \E slug \in Users \cup {None} : listLineageWatches(user, slug)
  BY <1>6 DEF listLineageWatches, Serve, Refuse, RefuseFor, Call
<1>7. CASE \E id \in 1 .. MaxCalls : deleteLineageWatch(user, id) \/ deleteWebhook(id)
  BY <1>7 DEF deleteLineageWatch, deleteWebhook, Serve, Refuse, RefuseFor, Call
<1>8. CASE \E body \in Customers \cup {None}, author \in Authors \cup {None} : createAnnotation(user, body, author)
  BY <1>8 DEF createAnnotation, Serve, Refuse, RefuseFor, Call
<1>9. CASE listAnnotations(user)
  BY <1>9 DEF listAnnotations, Serve, Refuse, RefuseFor, Call
<1> QED
  BY <1>1, <1>2, <1>3, <1>4, <1>5, <1>6, <1>7, <1>8, <1>9 DEF RowHandlers

\* The handlers of the gates leave the clock alone.
LEMMA GateHandlersKeepTime ==
  ASSUME NEW user, GateHandlers(user)
  PROVE  now' = now
<1>1. CASE \E c \in Customers : listQuotas(c)
  BY <1>1 DEF listQuotas, Serve, Refuse, Call
<1>2. CASE \E c \in Customers, price \in Costs : budgetCheck(c, price)
  BY <1>2 DEF budgetCheck, Serve, Refuse, Call
<1>3. CASE \E c \in Customers, u \in Users, cap \in Caps, block \in BOOLEAN : upsertQuota(c, u, cap, block)
  BY <1>3 DEF upsertQuota, Serve, Refuse, Call
<1>4. CASE \E body \in Customers \cup {None} : preflightCheck(user, body)
  BY <1>4 DEF preflightCheck, Serve, Refuse, RefuseFor, Call
<1>5. CASE \E body \in Customers \cup {None} : \E u \in Users : scheduleSuggest(user, body, u)
  BY <1>5 DEF scheduleSuggest, Serve, Refuse, RefuseFor, Call
<1> QED
  BY <1>1, <1>2, <1>3, <1>4, <1>5 DEF GateHandlers

\* Whatever handler a request reaches, it answers in the same tick.
LEMMA HandleKeepsTime ==
  ASSUME NEW user, NEW bypass, Handle(user, bypass)
  PROVE  now' = now
<1>1. CASE UNCHANGED <<work, gateVars, tokens>> /\ RowHandlers(user)
  BY <1>1, RowHandlersKeepTime
<1>2. CASE /\ UNCHANGED <<gateVars, tokens>>
           /\ \E h \in Idle :
                \/ \E c \in Customers : syncDAG(h, c) \/ workspaceBackup(h, c)
                \/ \E id \in 1 .. MaxCalls : deleteAnnotation(h, user, bypass, id)
  BY <1>2 DEF syncDAG, workspaceBackup, deleteAnnotation, Serve, Refuse, Call
<1>3. CASE /\ UNCHANGED <<gateVars, tokens>>
           /\ \E h \in Idle \cup {x \in Handlers : work[x].pc = "paging"}, limit \in 0 .. MaxPage + 1 :
                \/ \E c \in Customers : listAPIKeys(h, c, limit) \/ listConnections(h, c, limit)
                \/ \E conn \in DOMAIN conns : listSyncedTables(h, conn, limit)
  <2>1. \A h, op, of, limit : Page(h, op, of, limit) => now' = now
    BY DEF Page, Serve, Refuse, Call
  <2> QED
    BY <1>3, <2>1 DEF listAPIKeys, listConnections, listSyncedTables
<1>4. CASE GateHandlers(user)
  BY <1>4, GateHandlersKeepTime
<1>5. CASE /\ UNCHANGED <<workspaceVars, gateVars>>
           /\ refresh(user) \/ \E k \in 1 .. Len(apiKeys) + 1 : login(k)
  BY <1>5 DEF refresh, login, Serve, Refuse, Call
<1> QED
  BY <1>1, <1>2, <1>3, <1>4, <1>5 DEF Handle, RowHandlers, GateHandlers

\* The later statements of a handler run in the tick they begin in.
LEMMA ContinueKeepsTime == Continue => now' = now
BY DEF Continue, EraseAnnotation, DagEdges, BackupConns, BackupTables, BackupKeys, dumpRows

\* A step of the system, seen by the limiter.
LEMMA LimiterSees == [Next]_vars => LimiterStep \/ LimiterStutter \/ LimiterClock
<1> SUFFICES ASSUME [Next]_vars PROVE LimiterStep \/ LimiterStutter \/ LimiterClock
  OBVIOUS
<1>1. CASE UNCHANGED vars
  BY <1>1 DEF vars, api, admissionVars, LimiterStutter
<1>2. CASE Clock /\ UNCHANGED <<admissionVars, workspaceVars, gateVars>>
  BY <1>2 DEF Clock, admissionVars, LimiterClock
<1>3. CASE cors /\ UNCHANGED <<workspaceVars, gateVars>>
  BY <1>3 DEF cors, Aside, admissionVars, LimiterStutter
<1>4. ASSUME NEW r \in Requests, TurnedAway(r) PROVE LimiterStep
  BY <1>4 DEF TurnedAway, Aside, Requests, LimiterStep
<1>5. ASSUME NEW r \in Requests, Admit(r), health PROVE LimiterStep
  BY <1>5 DEF Admit, health, Aside, Requests, LimiterStep
<1>6. ASSUME NEW r \in Requests, Admit(r), Handle(UserID(r), r.bypass) PROVE LimiterStep
  <2>1. now' = now
    BY <1>6, HandleKeepsTime
  <2> QED
    BY <1>6, <2>1 DEF Admit, Requests, LimiterStep
<1>7. CASE Continue /\ UNCHANGED <<admissionVars, gateVars>>
  BY <1>7, ContinueKeepsTime DEF admissionVars, LimiterStutter
<1>8. CASE \E c \in Customers, cost \in Costs \ {0} : Charge(c, cost)
  BY <1>8 DEF Charge, admissionVars, LimiterStutter
<1> QED
  BY <1>1, <1>2, <1>3, <1>4, <1>5, <1>6, <1>7, <1>8 DEF Next

-----------------------------------------------------------------------------
(* The limiter.                                                              *)

\* The refill of a stretch is the refill of its parts.
LEMMA RefillAdds == \A r, d, e \in Nat : r * (d + e) = r * d + r * e
OBVIOUS

\* A longer stretch is refilled at least as much.
LEMMA RefillGrows == \A r, d, e \in Nat : d <= e => r * d <= r * e
<1> SUFFICES ASSUME NEW r \in Nat, NEW d \in Nat, NEW e \in Nat, d <= e PROVE r * d <= r * e
  OBVIOUS
<1>1. e - d \in Nat /\ e = d + (e - d)
  OBVIOUS
<1>2. r * e = r * d + r * (e - d)
  BY <1>1, RefillAdds
<1>3. r * d \in Nat /\ r * (e - d) \in Nat
  BY <1>1
<1> QED
  BY <1>2, <1>3

\* The rate is positive, a token has parts, and a bucket holds a number of them.
LEMMA Rates == rps \in Nat \ {0} /\ Ticks \in Nat \ {0} /\ capacity \in Nat
<1>1. rps \in Nat \ {0} /\ Ticks \in Nat \ {0}
  BY AdmissionAssumption DEF rps
<1>2. \A r, d \in Nat : 2 * r * d \in Nat
  OBVIOUS
<1> QED
  BY <1>1, <1>2 DEF capacity

\* A refilled bucket holds at most its capacity, and at most what it held and the refill since.
LEMMA RefilledBounds ==
  ASSUME LimiterTypeOK, NEW m \in Meter, m.last <= now
  PROVE  /\ Refilled(m) \in Nat
         /\ Refilled(m) <= capacity
         /\ Refilled(m) <= m.tokens + rps * (now - m.last)
<1> DEFINE gain == (now - m.last) * rps
<1>1. m.tokens \in Nat /\ m.last \in Nat /\ now \in Nat
  BY ApiAssumption DEF Meter, LimiterTypeOK
<1>2. gain \in Nat /\ gain = rps * (now - m.last)
  BY <1>1, Rates
<1> HIDE DEF gain
<1>3. \A x, y \in Nat : Min({x, y}) \in Nat /\ Min({x, y}) <= x /\ Min({x, y}) <= y
  BY DEF Min
<1>4. Refilled(m) = Min({capacity, m.tokens + gain})
  BY DEF Refilled, gain
<1>5. m.tokens + gain \in Nat
  BY <1>1, <1>2
<1> QED
  BY <1>2, <1>3, <1>4, <1>5, Rates

\* The bucket a request finds was asked no later than now.
LEMMA BucketFound ==
  ASSUME LimiterInv, NEW b \in Buckets
  PROVE  Bucket(b) \in Meter /\ Bucket(b).last <= now
BY ApiAssumption, Rates DEF LimiterInv, LimiterTypeOK, Metered, Bucket, Meter

\* Once a bucket is metered, no window up to now gave more than it may.
LEMMA MeteredBounds ==
  ASSUME LimiterTypeOK, NEW b \in Buckets, Metered(b),
         NEW from \in 0 .. now, NEW to \in from .. now
  PROVE  WindowBounded(b, from, to)
<1>1. now \in Nat /\ now <= MaxTime /\ from \in Nat /\ to \in Nat /\ from <= to /\ to <= now /\ MaxTime \in Nat
  BY ApiAssumption DEF LimiterTypeOK
<1>2. admitted[b] \in [0 .. MaxTime -> Nat]
  BY DEF LimiterTypeOK
<1>3. rps * (to - from) \in Nat
  BY <1>1, Rates
<1>4. Before(b, from) \in Nat
  BY <1>1, <1>2 DEF Before
<1>5. CASE buckets[b] = None
  <2>1. admitted[b][to] = 0
    BY <1>1, <1>5 DEF Metered
  <2> QED
    BY <2>1, <1>3, <1>4, Rates DEF WindowBounded
<1>6. CASE buckets[b] # None
  <2> DEFINE last == buckets[b].last
  <2>1. last \in Nat /\ last <= now /\ buckets[b].tokens \in Nat
    BY <1>6 DEF Metered, LimiterTypeOK, Meter
  <2>2. \A t \in last .. MaxTime : admitted[b][t] = admitted[b][last]
    BY <1>6 DEF Metered
  <2>3. CASE to <= last
    BY <2>1, <2>3, <1>1, <1>6 DEF Metered
  <2>4. CASE to > last /\ from <= last
    <3>1. WindowPaid(b, from)
      BY <2>1, <2>4, <1>1, <1>6 DEF Metered
    <3>2. rps * (last - from) <= rps * (to - from)
      <4>1. last - from \in Nat /\ to - from \in Nat /\ last - from <= to - from
        BY <2>1, <2>4, <1>1
      <4> QED
        BY <4>1, RefillGrows, Rates
    <3>3. rps * (last - from) \in Nat
      BY <2>1, <2>4, <1>1, Rates
    <3>4. admitted[b][to] = admitted[b][last] /\ admitted[b][last] \in Nat
      BY <2>1, <2>2, <2>4, <1>1, <1>2
    <3> QED
      BY <3>1, <3>2, <3>3, <3>4, <2>1, <1>3, <1>4, Rates DEF WindowPaid, WindowBounded
  <2>5. CASE to > last /\ from > last
    <3>1. admitted[b][to] = admitted[b][last] /\ admitted[b][from - 1] = admitted[b][last]
      BY <2>1, <2>2, <2>5, <1>1
    <3>2. Before(b, from) = admitted[b][to]
      BY <3>1, <2>1, <2>5, <1>1 DEF Before
    <3> QED
      BY <3>2, <1>3, <1>4, Rates DEF WindowBounded
  <2> QED
    BY <2>1, <2>3, <2>4, <2>5, <1>1
<1> QED
  BY <1>5, <1>6

\* Nothing is let through before the limiter is asked.
LEMMA LimiterInit == Init => LimiterInv
<1> SUFFICES ASSUME Init PROVE LimiterInv
  OBVIOUS
<1>1. LimiterTypeOK
  BY ApiAssumption DEF Init, ApiInit, AdmissionInit, LimiterTypeOK
<1>2. \A b \in Buckets : Metered(b)
  BY DEF Init, AdmissionInit, Metered
<1> QED
  BY <1>1, <1>2 DEF LimiterInv

\* A request takes at most one token, and what it leaves is what the refilled bucket held
\* without it: the windows that end with this request are paid for.
LEMMA LimiterAsked ==
  ASSUME LimiterInv, now' = now, NEW b \in Buckets, NEW got \in {0, Ticks},
         got <= Refilled(Bucket(b)),
         take(b, Refilled(Bucket(b)) - got),
         admitted' = [admitted EXCEPT ![b] =
                        [t \in 0 .. MaxTime |-> IF t < now THEN admitted[b][t] ELSE admitted[b][t] + got]]
  PROVE  LimiterInv'
<1> DEFINE R == Refilled(Bucket(b))
           A == admitted[b]
<1>1. now \in Nat /\ now <= MaxTime /\ MaxTime \in Nat
  BY ApiAssumption DEF LimiterInv, LimiterTypeOK
<1>2. A \in [0 .. MaxTime -> Nat]
  BY DEF LimiterInv, LimiterTypeOK
<1>3. Bucket(b) \in Meter /\ Bucket(b).last <= now
  BY BucketFound
<1>4. R \in Nat /\ R <= capacity /\ R <= Bucket(b).tokens + rps * (now - Bucket(b).last)
  BY <1>3, RefilledBounds DEF LimiterInv
<1> HIDE DEF R
<1>5. /\ buckets' = [buckets EXCEPT ![b] = [tokens |-> R - got, last |-> now]]
      /\ got <= R
  BY DEF take, R
<1>6. R - got \in Nat /\ R - got + got = R
  <2>1. got \in Nat
    BY Rates
  <2> QED
    BY <2>1, <1>4, <1>5
<1>7. buckets'[b] = [tokens |-> R - got, last |-> now] /\ buckets'[b] \in Meter
  BY <1>1, <1>5, <1>6 DEF LimiterInv, LimiterTypeOK, Meter
<1>8. LimiterTypeOK'
  <2>1. [t \in 0 .. MaxTime |-> IF t < now THEN admitted[b][t] ELSE admitted[b][t] + got] \in [0 .. MaxTime -> Nat]
    <3>1. got \in Nat
      BY Rates
    <3>2. ASSUME NEW t \in 0 .. MaxTime PROVE admitted[b][t] \in Nat /\ admitted[b][t] + got \in Nat
      <4>1. admitted[b][t] \in Nat
        BY <1>2
      <4> QED
        BY <4>1, <3>1
    <3> QED
      BY <3>2
  <2>2. admitted' \in [Buckets -> [0 .. MaxTime -> Nat]]
    BY <2>1 DEF LimiterInv, LimiterTypeOK
  <2>3. buckets' \in [Buckets -> {None} \cup Meter]
    BY <1>5, <1>7 DEF LimiterInv, LimiterTypeOK
  <2> QED
    BY <2>2, <2>3 DEF LimiterInv, LimiterTypeOK
<1>9. \A t \in 0 .. MaxTime : admitted'[b][t] = IF t < now THEN A[t] ELSE A[t] + got
  BY DEF LimiterInv, LimiterTypeOK
<1>10. \A from \in 0 .. now : Before(b, from)' = Before(b, from) /\ Before(b, from) \in Nat
  <2> SUFFICES ASSUME NEW from \in 0 .. now PROVE Before(b, from)' = Before(b, from) /\ Before(b, from) \in Nat
    OBVIOUS
  <2>1. CASE from = 0
    BY <2>1 DEF Before
  <2>2. CASE from # 0
    <3>1. from - 1 \in 0 .. MaxTime /\ from - 1 < now
      BY <2>2, <1>1
    <3>2. A[from - 1] \in Nat /\ admitted'[b][from - 1] = A[from - 1]
      BY <3>1, <1>2, <1>9
    <3> QED
      BY <3>2, <2>2 DEF Before
  <2> QED
    BY <2>1, <2>2
<1>11. A[now] \in Nat /\ got \in Nat /\ admitted'[b][now] = A[now] + got
  BY <1>1, <1>2, <1>9, Rates
\* what was let through before this request, and what the bucket holds now
<1>12. ASSUME NEW from \in 0 .. now PROVE A[now] + R <= Before(b, from) + capacity + rps * (now - from)
  <2>1. from \in Nat /\ from <= now /\ Before(b, from) \in Nat /\ rps * (now - from) \in Nat
    BY <1>1, <1>10, Rates
  <2>2. CASE buckets[b] = None
    <3>1. A[now] = 0
      BY <2>2, <1>1 DEF LimiterInv, Metered
    <3> QED
      BY <3>1, <2>1, <1>4, Rates
  <2>3. CASE buckets[b] # None
    <3> DEFINE last == buckets[b].last
               left == buckets[b].tokens
    <3>1. last \in Nat /\ last <= now /\ left \in Nat
      BY <2>3 DEF LimiterInv, LimiterTypeOK, Metered, Meter
    <3>2. A[now] = A[last]
      BY <2>3, <3>1, <1>1 DEF LimiterInv, Metered
    <3>3. R <= left + rps * (now - last)
      BY <2>3, <1>4 DEF Bucket
    <3>4. CASE from <= last
      <4>1. A[last] + left <= Before(b, from) + capacity + rps * (last - from)
        BY <2>3, <3>1, <3>4, <2>1 DEF LimiterInv, Metered, WindowPaid
      <4> HIDE DEF last, left, A
      <4>2. rps * (now - from) = rps * (last - from) + rps * (now - last)
        <5>1. last - from \in Nat /\ now - last \in Nat /\ now - from = (last - from) + (now - last)
          BY <3>1, <3>4, <2>1, <1>1
        <5> QED
          BY <5>1, RefillAdds, Rates
      <4>3. rps * (last - from) \in Nat /\ rps * (now - last) \in Nat
        <5>1. last - from \in Nat /\ now - last \in Nat
          BY <3>1, <3>4, <2>1, <1>1
        <5>2. \A r, d \in Nat : r * d \in Nat
          OBVIOUS
        <5> QED
          BY <5>1, <5>2, Rates
      <4> QED
        <5>1. \A a, l, x, c, g, d, y \in Nat : a + l <= x + c + g /\ y <= l + d => a + y <= x + c + (g + d)
          OBVIOUS
        <5>2. A[last] \in Nat
          BY <3>2, <1>11
        <5>3. A[last] + R <= Before(b, from) + capacity + (rps * (last - from) + rps * (now - last))
          BY <5>1, <5>2, <4>1, <4>3, <3>1, <3>3, <2>1, <1>4, Rates
        <5> QED
          BY <5>3, <4>2, <3>2
    <3>5. CASE from > last
      <4>1. from - 1 \in last .. MaxTime /\ from # 0
        BY <3>1, <3>5, <2>1, <1>1
      <4>2. A[from - 1] = A[last]
        BY <2>3, <4>1 DEF LimiterInv, Metered
      <4>3. Before(b, from) = A[now]
        BY <3>2, <4>1, <4>2 DEF Before
      <4> QED
        BY <4>3, <2>1, <1>4, Rates
    <3> QED
      BY <3>1, <3>4, <3>5, <2>1
  <2> QED
    BY <2>2, <2>3
<1>13. Metered(b)'
  <2>1. buckets'[b] # None
    BY <1>7, AdmissionAssumption
  <2>2. buckets'[b].last = now /\ buckets'[b].tokens = R - got
    BY <1>7
  <2>3. R - got <= capacity
    BY <1>4, <1>6, <1>11, Rates
  <2>4. \A t \in now .. MaxTime : admitted'[b][t] = admitted'[b][now]
    <3>1. \A t \in now .. MaxTime : A[t] = A[now]
      <4>1. CASE buckets[b] = None
        BY <4>1, <1>1 DEF LimiterInv, Metered
      <4>2. CASE buckets[b] # None
        <5>1. buckets[b].last \in Nat /\ buckets[b].last <= now
          BY <4>2 DEF LimiterInv, LimiterTypeOK, Metered, Meter
        <5>2. \A t \in buckets[b].last .. MaxTime : A[t] = A[buckets[b].last]
          BY <4>2 DEF LimiterInv, Metered
        <5> QED
          BY <5>1, <5>2, <1>1
      <4> QED
        BY <4>1, <4>2
    <3> QED
      BY <3>1, <1>1, <1>9
  <2>5. ASSUME NEW from \in 0 .. now PROVE WindowPaid(b, from)'
    <3>1. admitted'[b][now] + (R - got) = A[now] + R
      BY <1>4, <1>6, <1>11
    <3> QED
      BY <3>1, <2>2, <1>10, <1>12 DEF WindowPaid
  <2>6. ASSUME NEW from \in 0 .. now, NEW to \in from .. now PROVE WindowBounded(b, from, to)'
    <3>1. CASE to < now
      <4>1. WindowBounded(b, from, to)
        BY MeteredBounds DEF LimiterInv
      <4>2. to \in 0 .. MaxTime
        BY <1>1
      <4>3. admitted'[b][to] = A[to]
        BY <3>1, <4>2, <1>9
      <4> QED
        BY <4>1, <4>3, <1>10 DEF WindowBounded
    <3>2. CASE to = now
      <4>1. admitted'[b][now] + (R - got) <= Before(b, from)' + capacity + rps * (now - from)
        BY <2>2, <2>5 DEF WindowPaid
      <4>2. Before(b, from)' \in Nat /\ rps * (now - from) \in Nat
        BY <1>1, <1>10, Rates
      <4> QED
        <5>1. R - got >= 0 /\ admitted'[b][now] \in Nat
          BY <1>6, <1>8, <1>1 DEF LimiterTypeOK
        <5>2. admitted'[b][now] <= Before(b, from)' + capacity + rps * (now - from)
          BY <5>1, <4>1, <4>2, <1>6, Rates
        <5> QED
          BY <5>2, <3>2 DEF WindowBounded
    <3> QED
      BY <3>1, <3>2, <1>1
  <2> QED
    <3>1. buckets'[b].last <= now' /\ buckets'[b].tokens <= capacity
      BY <2>2, <2>3, <1>1
    <3>2. \A t \in buckets'[b].last .. MaxTime : admitted'[b][t] = admitted'[b][buckets'[b].last]
      BY <2>2, <2>4
    <3>3. \A from \in 0 .. buckets'[b].last : WindowPaid(b, from)'
      BY <2>2, <2>5
    <3>4. \A from \in 0 .. buckets'[b].last : \A to \in from .. buckets'[b].last : WindowBounded(b, from, to)'
      BY <2>2, <2>6
    <3> QED
      BY <2>1, <3>1, <3>2, <3>3, <3>4 DEF Metered
<1>14. ASSUME NEW x \in Buckets, x # b PROVE Metered(x)'
  <2>1. buckets'[x] = buckets[x] /\ admitted'[x] = admitted[x]
    BY <1>5, <1>14 DEF LimiterInv, LimiterTypeOK
  <2> QED
    BY <2>1 DEF LimiterInv, Metered, WindowPaid, WindowBounded, Before
<1> QED
  BY <1>8, <1>13, <1>14 DEF LimiterInv

\* The limiter's invariant survives a request, the clock, and every step that is neither.
LEMMA LimiterPreserved == LimiterInv /\ [Next]_vars => LimiterInv'
<1> SUFFICES ASSUME LimiterInv, [Next]_vars PROVE LimiterInv'
  OBVIOUS
<1>1. CASE LimiterStutter
  BY <1>1 DEF LimiterInv, LimiterTypeOK, Metered, WindowPaid, WindowBounded, Before, LimiterStutter
<1>2. CASE LimiterClock
  <2>1. LimiterTypeOK'
    BY <1>2, ApiAssumption DEF LimiterInv, LimiterTypeOK, LimiterClock
  <2>2. ASSUME NEW b \in Buckets PROVE Metered(b)'
    <3>1. /\ buckets'[b] = buckets[b] /\ admitted'[b] = admitted[b]
          /\ buckets[b] # None => buckets[b].last <= now'
      <4>1. buckets[b] # None => buckets[b].last \in Nat /\ buckets[b].last <= now
        BY DEF LimiterInv, LimiterTypeOK, Metered, Meter
      <4>2. now \in Nat /\ now' = now + 1
        BY <1>2, ApiAssumption DEF LimiterInv, LimiterTypeOK, LimiterClock
      <4> QED
        BY <4>1, <4>2, <1>2 DEF LimiterClock
    <3> QED
      BY <3>1 DEF LimiterInv, Metered, WindowPaid, WindowBounded, Before
  <2> QED
    BY <2>1, <2>2 DEF LimiterInv
<1>3. CASE LimiterStep
  <2>1. PICK b \in Buckets : Allow(b) \/ Deny(b)
    BY <1>3 DEF LimiterStep
  <2>2. now' = now
    BY <1>3 DEF LimiterStep
  <2>3. CASE Allow(b)
    <3>1. /\ Ticks \in {0, Ticks} /\ Ticks <= Refilled(Bucket(b))
          /\ take(b, Refilled(Bucket(b)) - Ticks)
          /\ admitted' = [admitted EXCEPT ![b] =
                            [t \in 0 .. MaxTime |-> IF t < now THEN admitted[b][t] ELSE admitted[b][t] + Ticks]]
      <4>1. Refilled(Bucket(b)) \in Nat
        BY BucketFound, RefilledBounds DEF LimiterInv
      <4> QED
        BY <4>1, <2>3, Rates DEF Allow
    <3> QED
      BY <3>1, <2>2, LimiterAsked
  <2>4. CASE Deny(b)
    <3>1. Refilled(Bucket(b)) \in Nat
      BY BucketFound, RefilledBounds DEF LimiterInv
    <3>2. take(b, Refilled(Bucket(b)) - 0)
      <4>1. Refilled(Bucket(b)) - 0 = Refilled(Bucket(b))
        BY <3>1
      <4> QED
        BY <4>1, <2>4 DEF Deny
    <3>3. admitted' = [admitted EXCEPT ![b] =
                         [t \in 0 .. MaxTime |-> IF t < now THEN admitted[b][t] ELSE admitted[b][t] + 0]]
      <4>1. admitted[b] \in [0 .. MaxTime -> Nat] /\ admitted \in [Buckets -> [0 .. MaxTime -> Nat]]
        BY DEF LimiterInv, LimiterTypeOK
      <4>2. \A t \in 0 .. MaxTime : admitted[b][t] + 0 = admitted[b][t]
        BY <4>1
      <4>3. [t \in 0 .. MaxTime |-> IF t < now THEN admitted[b][t] ELSE admitted[b][t] + 0] = admitted[b]
        BY <4>1, <4>2
      <4>4. admitted' = admitted
        BY <2>4 DEF Deny
      <4> QED
        BY <4>1, <4>3, <4>4
    <3>4. 0 \in {0, Ticks} /\ 0 <= Refilled(Bucket(b))
      BY <3>1
    <3> QED
      BY <3>2, <3>3, <3>4, <2>2, LimiterAsked
  <2> QED
    BY <2>1, <2>3, <2>4
<1> QED
  BY <1>1, <1>2, <1>3, LimiterSees

\* The limiter never gives a key or an address more, over any stretch of time, than a full bucket
\* and what the bucket regained meanwhile, in fractions as fine as the clock, whatever the handlers
\* behind it do.
THEOREM RateIsBounded == Spec => []RateBounded
<1>1. LimiterInv => RateBounded
  BY MeteredBounds DEF LimiterInv, RateBounded, WindowBounded
<1> QED
  BY <1>1, LimiterInit, LimiterPreserved, PTL DEF Spec

-----------------------------------------------------------------------------
(* Lists in an order.                                                        *)

\* A finite set of naturals can be listed in its order: a member comes at the place that
\* counts the members up to it.
LEMMA AscendingExists ==
  ASSUME NEW S \in SUBSET Nat, IsFiniteSet(S)
  PROVE  \E s \in SetToSeqs(S) : \A i, j \in DOMAIN s : i < j => s[i] < s[j]
<1> DEFINE n == Cardinality(S)
           Upto(k) == {j \in S : j <= k}
           r == [k \in S |-> Cardinality(Upto(k))]
<1>1. n \in Nat
  BY FS_CardinalityType
<1>2. ASSUME NEW k \in S PROVE IsFiniteSet(Upto(k)) /\ r[k] \in 1 .. n
  <2>1. Upto(k) \in SUBSET S /\ k \in Upto(k)
    OBVIOUS
  <2>2. IsFiniteSet(Upto(k)) /\ Cardinality(Upto(k)) <= n
    BY <2>1, FS_Subset
  <2>3. Cardinality(Upto(k)) \in Nat /\ Cardinality(Upto(k)) # 0
    BY <2>1, <2>2, FS_CardinalityType, FS_EmptySet
  <2> HIDE DEF Upto, n
  <2> QED
    BY <2>2, <2>3, <1>1
<1>3. ASSUME NEW k \in S, NEW l \in S, k < l PROVE r[k] < r[l]
  <2>1. Upto(k) \in SUBSET Upto(l) /\ l \in Upto(l) /\ l \notin Upto(k)
    <3>1. k \in Nat /\ l \in Nat
      OBVIOUS
    <3>2. ASSUME NEW j \in S, j <= k PROVE j <= l
      BY <1>3, <3>1, <3>2, j \in Nat
    <3>3. l <= l /\ ~(l <= k)
      BY <1>3, <3>1
    <3> QED
      BY <3>2, <3>3
  <2>2. Cardinality(Upto(k)) <= Cardinality(Upto(l)) /\ Cardinality(Upto(l)) # Cardinality(Upto(k))
    BY <1>2, <2>1, FS_Subset
  <2>3. Cardinality(Upto(k)) = r[k] /\ Cardinality(Upto(l)) = r[l] /\ r[k] \in Nat /\ r[l] \in Nat
    BY <1>2
  <2> HIDE DEF r, Upto
  <2> QED
    BY <2>2, <2>3
<1> HIDE DEF r, n
<1>4. r \in [S -> 1 .. n]
  BY <1>2 DEF r
<1>5. \A k, l \in S : r[k] = r[l] => k = l
  <2> SUFFICES ASSUME NEW k \in S, NEW l \in S, k # l PROVE r[k] # r[l]
    OBVIOUS
  <2>1. r[k] \in Nat /\ r[l] \in Nat /\ k \in Nat /\ l \in Nat
    BY <1>4
  <2>2. k < l \/ l < k
    BY <2>1
  <2> QED
    BY <2>1, <2>2, <1>3
<1>6. r \in Surjection(S, 1 .. n)
  <2>1. r \in Injection(S, 1 .. n)
    BY <1>4, <1>5 DEF Injection, IsInjective
  <2>2. IsFiniteSet(1 .. n) /\ Cardinality(1 .. n) = n
    BY <1>1, FS_Interval
  <2> QED
    BY <2>1, <2>2, FS_Injection DEF n
<1>7. \A i \in 1 .. n : \E k \in S : r[k] = i
  BY <1>6 DEF Surjection
<1> DEFINE s == [i \in 1 .. n |-> CHOOSE k \in S : r[k] = i]
<1>8. \A i \in 1 .. n : s[i] \in S /\ r[s[i]] = i
  BY <1>7
<1> HIDE DEF s
<1>9. s \in [1 .. n -> S] /\ DOMAIN s = 1 .. n
  BY <1>8 DEF s
<1>10. \A i, j \in 1 .. n : i # j => s[i] # s[j]
  BY <1>8
<1>11. s \in SetToSeqs(S)
  BY <1>9, <1>10 DEF SetToSeqs, n
<1>12. ASSUME NEW i \in 1 .. n, NEW j \in 1 .. n, i < j PROVE s[i] < s[j]
  <2>1. s[i] \in S /\ s[j] \in S /\ r[s[i]] = i /\ r[s[j]] = j
    BY <1>8
  <2>2. i \in Nat /\ j \in Nat
    BY <1>1
  <2>3. s[i] \in Nat /\ s[j] \in Nat
    BY <2>1
  <2>4. s[i] # s[j]
    BY <1>10, <1>12, <2>2
  <2>5. ~(s[j] < s[i])
    <3> SUFFICES ASSUME s[j] < s[i] PROVE FALSE
      OBVIOUS
    <3>1. PICK k \in S, l \in S : k = s[j] /\ l = s[i]
      BY <2>1
    <3>2. r[k] < r[l] /\ r[k] = j /\ r[l] = i
      BY <1>3, <2>1, <3>1
    <3> QED
      BY <1>12, <2>2, <3>2
  <2> QED
    BY <2>3, <2>4, <2>5
<1> QED
  BY <1>9, <1>11, <1>12

(* what a list of a set in either order is *)
Lists(L, S) ==
  /\ L \in Seq(S) /\ Len(L) = Cardinality(S) /\ DOMAIN L = 1 .. Len(L)
  /\ \A i, j \in DOMAIN L : i # j => L[i] # L[j]
  /\ ToSet(L) = S

\* A sequence of distinct members of a set, as long as the set is large, has all of them.
LEMMA ListsAll ==
  ASSUME NEW S, IsFiniteSet(S), NEW L \in SetToSeqs(S)
  PROVE  Lists(L, S)
<1> DEFINE n == Cardinality(S)
<1>1. n \in Nat /\ L \in [1 .. n -> S] /\ \A i, j \in 1 .. n : i # j => L[i] # L[j]
  BY FS_CardinalityType DEF SetToSeqs
<1>2. L \in Injection(1 .. n, S)
  BY <1>1 DEF Injection, IsInjective
<1>3. Cardinality(1 .. n) = n
  BY <1>1, FS_Interval
<1>4. L \in Surjection(1 .. n, S)
  BY <1>2, <1>3, FS_Injection
<1> HIDE DEF n
<1>5. ToSet(L) = S
  BY <1>1, <1>4 DEF Surjection, ToSet
<1>6. L \in Seq(S) /\ Len(L) = n /\ DOMAIN L = 1 .. n
  BY <1>1
<1> QED
  BY <1>1, <1>5, <1>6 DEF Lists, n

\* The list of a set in its order.
LEMMA AscendingLists ==
  ASSUME NEW S \in SUBSET Nat, IsFiniteSet(S)
  PROVE  Lists(Ascending(S), S) /\ \A i, j \in DOMAIN Ascending(S) : i < j => Ascending(S)[i] < Ascending(S)[j]
<1>1. Ascending(S) \in SetToSeqs(S) /\ \A i, j \in DOMAIN Ascending(S) : i < j => Ascending(S)[i] < Ascending(S)[j]
  BY AscendingExists DEF Ascending
<1> QED
  BY <1>1, ListsAll

\* The list of a set in the opposite order.
LEMMA DescendingLists ==
  ASSUME NEW S \in SUBSET Nat, IsFiniteSet(S)
  PROVE  Lists(Descending(S), S) /\ \A i, j \in DOMAIN Descending(S) : i < j => Descending(S)[i] > Descending(S)[j]
<1>1. \E s \in SetToSeqs(S) : \A i, j \in DOMAIN s : i < j => s[i] > s[j]
  <2> DEFINE n == Cardinality(S)
  <2>1. PICK a \in SetToSeqs(S) : \A i, j \in DOMAIN a : i < j => a[i] < a[j]
    BY AscendingExists
  <2>2. n \in Nat /\ a \in [1 .. n -> S] /\ \A i, j \in 1 .. n : i # j => a[i] # a[j]
    BY FS_CardinalityType DEF SetToSeqs
  <2> HIDE DEF n
  <2> DEFINE s == [i \in 1 .. n |-> a[n + 1 - i]]
  <2>3. \A i \in 1 .. n : n + 1 - i \in 1 .. n
    BY <2>2
  <2>4. s \in [1 .. n -> S] /\ DOMAIN s = 1 .. n
    BY <2>2, <2>3
  <2>5. ASSUME NEW i \in 1 .. n, NEW j \in 1 .. n, i < j PROVE s[i] > s[j]
    <3>1. n + 1 - i \in 1 .. n /\ n + 1 - j \in 1 .. n /\ n + 1 - j < n + 1 - i
      BY <2>2, <2>3, <2>5
    <3>2. a[n + 1 - j] < a[n + 1 - i] /\ a[n + 1 - j] \in Nat /\ a[n + 1 - i] \in Nat
      BY <2>1, <2>2, <3>1
    <3> QED
      BY <3>2
  <2>6. ASSUME NEW i \in 1 .. n, NEW j \in 1 .. n, i # j PROVE s[i] # s[j]
    <3>1. n + 1 - i \in 1 .. n /\ n + 1 - j \in 1 .. n /\ n + 1 - j # n + 1 - i
      BY <2>2, <2>3, <2>6
    <3> QED
      BY <2>2, <3>1
  <2> HIDE DEF s
  <2>7. s \in SetToSeqs(S)
    BY <2>4, <2>6 DEF SetToSeqs, n
  <2> QED
    BY <2>4, <2>5, <2>7
<1>2. Descending(S) \in SetToSeqs(S) /\ \A i, j \in DOMAIN Descending(S) : i < j => Descending(S)[i] > Descending(S)[j]
  BY <1>1 DEF Descending
<1> QED
  BY <1>2, ListsAll

(* every member of L[1 .. a] is in M[1 .. b], which has none twice, in the same order *)
Within(L, a, M, b) ==
  /\ \A p, q \in 1 .. b : p # q => M[p] # M[q]
  /\ \A i \in 1 .. a : \E p \in 1 .. b : M[p] = L[i]
  /\ \A i, j \in 1 .. a, p, q \in 1 .. b : L[i] = M[p] /\ L[j] = M[q] /\ i < j => p < q

\* When members are added to an ordered list, none of the others moves to an earlier place.
LEMMA PlacesGrow ==
  ASSUME NEW a \in Nat, NEW b \in Nat, NEW L, NEW M, Within(L, a, M, b),
         NEW n \in 1 .. a, NEW m \in 1 .. b, L[n] = M[m]
  PROVE  n <= m
<1> DEFINE f == [i \in 1 .. n |-> CHOOSE p \in 1 .. b : M[p] = L[i]]
<1>1. ASSUME NEW i \in 1 .. n PROVE f[i] \in 1 .. b /\ M[f[i]] = L[i]
  <2>1. i \in 1 .. a
    OBVIOUS
  <2>2. \E p \in 1 .. b : M[p] = L[i]
    BY <2>1 DEF Within
  <2> QED
    BY <2>2
<1> HIDE DEF f
<1>2. ASSUME NEW i \in 1 .. n, NEW j \in 1 .. n, i < j PROVE f[i] < f[j]
  <2>1. i \in 1 .. a /\ j \in 1 .. a /\ f[i] \in 1 .. b /\ f[j] \in 1 .. b
    BY <1>1
  <2>2. M[f[i]] = L[i] /\ M[f[j]] = L[j]
    BY <1>1
  <2> QED
    BY <1>2, <2>1, <2>2 DEF Within
<1>3. ASSUME NEW i \in 1 .. n PROVE f[i] \in 1 .. m
  <2>1. i \in 1 .. a /\ f[i] \in 1 .. b
    BY <1>1
  <2>2. CASE i < n
    <3>1. f[i] < m
      BY <1>1, <2>1, <2>2 DEF Within
    <3> QED
      BY <2>1, <3>1
  <2>3. CASE i = n
    BY <1>1, <2>1, <2>3 DEF Within
  <2> QED
    BY <2>2, <2>3
<1>4. f \in Injection(1 .. n, 1 .. m)
  <2>1. f \in [1 .. n -> 1 .. m]
    BY <1>3 DEF f
  <2>2. \A i, j \in 1 .. n : f[i] = f[j] => i = j
    <3> SUFFICES ASSUME NEW i \in 1 .. n, NEW j \in 1 .. n, i # j PROVE f[i] # f[j]
      OBVIOUS
    <3>1. i < j \/ j < i
      OBVIOUS
    <3>2. f[i] \in Nat /\ f[j] \in Nat
      BY <1>3
    <3> QED
      BY <1>2, <3>1, <3>2
  <2> QED
    BY <2>1, <2>2 DEF Injection, IsInjective
<1>5. IsFiniteSet(1 .. m) /\ Cardinality(1 .. n) = n /\ Cardinality(1 .. m) = m
  BY FS_Interval
<1> QED
  BY <1>4, <1>5, FS_Injection

\* A member of a set keeps its place or moves back in the list of a larger set, in its order.
LEMMA AscendingGrows ==
  ASSUME NEW T \in SUBSET Nat, IsFiniteSet(T), NEW S \in SUBSET T,
         NEW n \in DOMAIN Ascending(S), NEW m \in DOMAIN Ascending(T), Ascending(S)[n] = Ascending(T)[m]
  PROVE  n <= m
<1>1. S \in SUBSET Nat /\ IsFiniteSet(S)
  BY FS_Subset
<1> DEFINE L == Ascending(S)
           M == Ascending(T)
<1>2. Lists(L, S) /\ \A i, j \in DOMAIN L : i < j => L[i] < L[j]
  BY <1>1, AscendingLists
<1>3. Lists(M, T) /\ \A i, j \in DOMAIN M : i < j => M[i] < M[j]
  BY AscendingLists
<1> HIDE DEF L, M
<1>4. /\ Len(L) \in Nat /\ DOMAIN L = 1 .. Len(L) /\ Len(M) \in Nat /\ DOMAIN M = 1 .. Len(M)
      /\ \A i \in DOMAIN L : L[i] \in S
      /\ \A i \in DOMAIN M : M[i] \in T
  BY <1>2, <1>3 DEF Lists
<1>5. \A i \in 1 .. Len(L) : \E p \in 1 .. Len(M) : M[p] = L[i]
  <2> SUFFICES ASSUME NEW i \in 1 .. Len(L) PROVE \E p \in 1 .. Len(M) : M[p] = L[i]
    OBVIOUS
  <2>1. L[i] \in T /\ T = {M[p] : p \in DOMAIN M}
    BY <1>3, <1>4 DEF Lists, ToSet
  <2> QED
    BY <1>4, <2>1
<1>6. ASSUME NEW i \in 1 .. Len(L), NEW j \in 1 .. Len(L), NEW p \in 1 .. Len(M), NEW q \in 1 .. Len(M),
             L[i] = M[p], L[j] = M[q], i < j
      PROVE  p < q
  <2>1. L[i] < L[j] /\ M[p] \in Nat /\ M[q] \in Nat /\ p \in Nat /\ q \in Nat
    <3>1. L[i] < L[j]
      BY <1>2, <1>4, <1>6
    <3>2. M[p] \in T /\ M[q] \in T
      BY <1>4
    <3>3. M[p] \in Nat /\ M[q] \in Nat
      BY <3>2
    <3>4. p \in Nat /\ q \in Nat
      BY <1>4
    <3> QED
      BY <3>1, <3>3, <3>4
  <2>2. ~(q < p) /\ q # p
    BY <1>3, <1>4, <1>6, <2>1
  <2> QED
    BY <2>1, <2>2
<1>7. \A p, q \in 1 .. Len(M) : p # q => M[p] # M[q]
  BY <1>3, <1>4 DEF Lists
<1>8. n \in 1 .. Len(L) /\ m \in 1 .. Len(M) /\ L[n] = M[m]
  BY <1>4 DEF L, M
<1>9. \A i, j \in 1 .. Len(L), p, q \in 1 .. Len(M) : L[i] = M[p] /\ L[j] = M[q] /\ i < j => p < q
  BY <1>6
<1>10. Within(L, Len(L), M, Len(M))
  BY <1>5, <1>7, <1>9 DEF Within
<1> QED
  BY <1>4, <1>8, <1>10, PlacesGrow

\* And in the opposite order.
LEMMA DescendingGrows ==
  ASSUME NEW T \in SUBSET Nat, IsFiniteSet(T), NEW S \in SUBSET T,
         NEW n \in DOMAIN Descending(S), NEW m \in DOMAIN Descending(T), Descending(S)[n] = Descending(T)[m]
  PROVE  n <= m
<1>1. S \in SUBSET Nat /\ IsFiniteSet(S)
  BY FS_Subset
<1> DEFINE L == Descending(S)
           M == Descending(T)
<1>2. Lists(L, S) /\ \A i, j \in DOMAIN L : i < j => L[i] > L[j]
  BY <1>1, DescendingLists
<1>3. Lists(M, T) /\ \A i, j \in DOMAIN M : i < j => M[i] > M[j]
  BY DescendingLists
<1> HIDE DEF L, M
<1>4. /\ Len(L) \in Nat /\ DOMAIN L = 1 .. Len(L) /\ Len(M) \in Nat /\ DOMAIN M = 1 .. Len(M)
      /\ \A i \in DOMAIN L : L[i] \in S
      /\ \A i \in DOMAIN M : M[i] \in T
  BY <1>2, <1>3 DEF Lists
<1>5. \A i \in 1 .. Len(L) : \E p \in 1 .. Len(M) : M[p] = L[i]
  <2> SUFFICES ASSUME NEW i \in 1 .. Len(L) PROVE \E p \in 1 .. Len(M) : M[p] = L[i]
    OBVIOUS
  <2>1. L[i] \in T /\ T = {M[p] : p \in DOMAIN M}
    BY <1>3, <1>4 DEF Lists, ToSet
  <2> QED
    BY <1>4, <2>1
<1>6. ASSUME NEW i \in 1 .. Len(L), NEW j \in 1 .. Len(L), NEW p \in 1 .. Len(M), NEW q \in 1 .. Len(M),
             L[i] = M[p], L[j] = M[q], i < j
      PROVE  p < q
  <2>1. L[i] > L[j] /\ M[p] \in Nat /\ M[q] \in Nat /\ p \in Nat /\ q \in Nat
    <3>1. L[i] > L[j]
      BY <1>2, <1>4, <1>6
    <3>2. M[p] \in T /\ M[q] \in T
      BY <1>4
    <3>3. M[p] \in Nat /\ M[q] \in Nat
      BY <3>2
    <3>4. p \in Nat /\ q \in Nat
      BY <1>4
    <3> QED
      BY <3>1, <3>3, <3>4
  <2>2. ~(q < p) /\ q # p
    BY <1>3, <1>4, <1>6, <2>1
  <2> QED
    BY <2>1, <2>2
<1>7. \A p, q \in 1 .. Len(M) : p # q => M[p] # M[q]
  BY <1>3, <1>4 DEF Lists
<1>8. n \in 1 .. Len(L) /\ m \in 1 .. Len(M) /\ L[n] = M[m]
  BY <1>4 DEF L, M
<1>9. \A i, j \in 1 .. Len(L), p, q \in 1 .. Len(M) : L[i] = M[p] /\ L[j] = M[q] /\ i < j => p < q
  BY <1>6
<1>10. Within(L, Len(L), M, Len(M))
  BY <1>5, <1>7, <1>9 DEF Within
<1> QED
  BY <1>4, <1>8, <1>10, PlacesGrow

-----------------------------------------------------------------------------
(* The readers.  What a list is of: the keys and connections of a customer,  *)
(* the tables of a connection.                                               *)
KeysOf(c) == {i \in DOMAIN apiKeys : apiKeys[i].customer = c}
ConnsOf(c) == {i \in DOMAIN conns : conns[i].customer = c}
NamesOf(conn) == {t.name : t \in {u \in tables : u.conn = conn}}

RowsOK ==
  /\ apiKeys \in Seq([customer : Customers, revoked : BOOLEAN])
  /\ conns \in Seq([customer : Customers, kind : Kinds, name : Names])
  /\ tables \subseteq [conn : DOMAIN conns, name : Tables]

ListOps == {"listAPIKeys", "listConnections", "listSyncedTables"}

(* of the rows a client has to see, those it was not given yet come behind the pages it had *)
Paged(w) ==
  LET L == Listed(w.op, w.of)
  IN  /\ w.op \in ListOps /\ w.sent \in Nat
      /\ w.must \subseteq ToSet(L) /\ w.got \subseteq ToSet(L)
      /\ \A n \in DOMAIN L : L[n] \in w.must \ w.got => n > w.sent

(* the graph still needs edges only *)
Drawn(w) == w.must \subseteq w.got \cup EdgeRows(w.of) /\ w.got \subseteq NodeRows(w.of)

(* the backup still needs keys, and the tables of the connections it has not come to *)
HalfSaved(w) ==
  /\ w.todo \in Seq(ConnsOf(w.of))
  /\ w.must \subseteq w.got \cup KeyRows(w.of) \cup UNION {TableRows(k) : k \in ToSet(w.todo)}
  /\ w.got \subseteq WorkspaceRows(w.of)

Saved(w) == w.must \subseteq w.got /\ w.got \subseteq WorkspaceRows(w.of)

Given(w) ==
  /\ w.op \in ListOps \cup {"syncDAG", "workspaceBackup"}
  /\ w.must \subseteq w.got
  /\ w.op \in ListOps => w.got \subseteq ToSet(Listed(w.op, w.of))
  /\ w.op = "syncDAG" => w.got \subseteq NodeRows(w.of) \cup EdgeRows(w.of)
  /\ w.op = "workspaceBackup" => w.got \subseteq WorkspaceRows(w.of)

IsWork(w) == DOMAIN w = {"pc", "op", "of", "todo", "sent", "must", "got"}

(* how far a reader has come *)
Reader(w) ==
  /\ IsWork(w)
  /\ w.pc = "paging" => Paged(w)
  /\ w.pc = "edges" => Drawn(w)
  /\ w.pc = "conns" => w.must \subseteq WorkspaceRows(w.of)
  /\ w.pc = "tables" => HalfSaved(w)
  /\ w.pc = "dump" => Saved(w)
  /\ w.pc = "done" => Given(w)

ReadersInv ==
  /\ RowsOK
  /\ work = [h \in Handlers |-> work[h]]
  /\ \A h \in Handlers : Reader(work[h])

ListedSets ==
  \A x : /\ KeysOf(x) \in SUBSET Nat /\ IsFiniteSet(KeysOf(x))
         /\ ConnsOf(x) \in SUBSET Nat /\ IsFiniteSet(ConnsOf(x))
         /\ NamesOf(x) \in SUBSET Nat /\ IsFiniteSet(NamesOf(x))

\* What a list is of are finitely many numbers.
LEMMA RowsCounted == RowsOK => ListedSets
<1> SUFFICES ASSUME RowsOK, NEW x
             PROVE  /\ KeysOf(x) \in SUBSET Nat /\ IsFiniteSet(KeysOf(x))
                    /\ ConnsOf(x) \in SUBSET Nat /\ IsFiniteSet(ConnsOf(x))
                    /\ NamesOf(x) \in SUBSET Nat /\ IsFiniteSet(NamesOf(x))
  BY DEF ListedSets
<1>1. ASSUME NEW n \in Nat, NEW S \in SUBSET (1 .. n) PROVE S \in SUBSET Nat /\ IsFiniteSet(S)
  <2>1. IsFiniteSet(1 .. n)
    BY FS_Interval, 1 \in Int, n \in Int
  <2>2. IsFiniteSet(S)
    BY <2>1, FS_Subset
  <2>3. S \in SUBSET Nat
    OBVIOUS
  <2> QED
    BY <2>2, <2>3
<1>2. Len(apiKeys) \in Nat /\ KeysOf(x) \in SUBSET (1 .. Len(apiKeys))
  BY DEF RowsOK, KeysOf
<1>3. Len(conns) \in Nat /\ ConnsOf(x) \in SUBSET (1 .. Len(conns))
  BY DEF RowsOK, ConnsOf
<1>4. NamesOf(x) \in SUBSET Tables
  BY DEF RowsOK, NamesOf
<1>5. NamesOf(x) \in SUBSET Nat /\ IsFiniteSet(NamesOf(x))
  BY <1>4, FS_Subset, WorkspaceAssumption
<1>6. KeysOf(x) \in SUBSET Nat /\ IsFiniteSet(KeysOf(x))
  BY <1>1, <1>2
<1>7. ConnsOf(x) \in SUBSET Nat /\ IsFiniteSet(ConnsOf(x))
  BY <1>1, <1>3
<1> QED
  BY <1>5, <1>6, <1>7

\* The lists, by what they are of.
LEMMA ListsOf ==
  \A x : /\ ListAPIKeys(x) = Descending(KeysOf(x))
         /\ ListConnections(x) = Descending(ConnsOf(x))
         /\ ListSyncedTables(x) = Ascending(NamesOf(x))
BY DEF ListAPIKeys, ListConnections, ListSyncedTables, NewestFirst, KeysOf, ConnsOf, NamesOf

(* the rows of the lists, by what they are of *)
RowSets ==
  \A x : /\ KeyRows(x) = {<<"key", k>> : k \in KeysOf(x)}
         /\ ConnRows(x) = {<<"conn", k>> : k \in ConnsOf(x)}
         /\ TableRows(x) = {<<"table", x, t>> : t \in NamesOf(x)}
         /\ WorkspaceRows(x) = KeyRows(x) \cup ConnRows(x) \cup UNION {TableRows(k) : k \in ConnsOf(x)}

\* A list has every row once, and no other.
LEMMA RowSetsHold == RowsOK => RowSets
<1> SUFFICES ASSUME RowsOK, NEW x
             PROVE  /\ KeyRows(x) = {<<"key", k>> : k \in KeysOf(x)}
                    /\ ConnRows(x) = {<<"conn", k>> : k \in ConnsOf(x)}
                    /\ TableRows(x) = {<<"table", x, t>> : t \in NamesOf(x)}
                    /\ WorkspaceRows(x) = KeyRows(x) \cup ConnRows(x) \cup UNION {TableRows(k) : k \in ConnsOf(x)}
  BY DEF RowSets
<1>1. /\ KeysOf(x) \in SUBSET Nat /\ IsFiniteSet(KeysOf(x))
      /\ ConnsOf(x) \in SUBSET Nat /\ IsFiniteSet(ConnsOf(x))
      /\ NamesOf(x) \in SUBSET Nat /\ IsFiniteSet(NamesOf(x))
  BY RowsCounted DEF ListedSets
<1>2. ToSet(ListAPIKeys(x)) = KeysOf(x)
  BY <1>1, ListsOf, DescendingLists DEF Lists
<1>3. ToSet(ListConnections(x)) = ConnsOf(x)
  BY <1>1, ListsOf, DescendingLists DEF Lists
<1>4. ToSet(ListSyncedTables(x)) = NamesOf(x)
  BY <1>1, ListsOf, AscendingLists DEF Lists
<1>5. KeyRows(x) = {<<"key", k>> : k \in KeysOf(x)}
  BY <1>2 DEF KeyRows
<1>6. ConnRows(x) = {<<"conn", k>> : k \in ConnsOf(x)}
  BY <1>3 DEF ConnRows
<1>7. TableRows(x) = {<<"table", x, t>> : t \in NamesOf(x)}
  BY <1>4 DEF TableRows
<1>8. WorkspaceRows(x) = KeyRows(x) \cup ConnRows(x) \cup UNION {TableRows(k) : k \in ConnsOf(x)}
  BY <1>3 DEF WorkspaceRows
<1> QED
  BY <1>5, <1>6, <1>7, <1>8

(* a sequence without repetitions *)
Distinct(L) == L \in Seq(ToSet(L)) /\ Len(L) \in Nat /\ DOMAIN L = 1 .. Len(L) /\ \A i, j \in DOMAIN L : i # j => L[i] # L[j]

ListedDistinct == \A op \in ListOps : \A x : Distinct(Listed(op, x))

\* No list repeats a row.
LEMMA ListedOnce == RowsOK => ListedDistinct
<1> SUFFICES ASSUME RowsOK, NEW op \in ListOps, NEW x PROVE Distinct(Listed(op, x))
  BY DEF ListedDistinct
<1>1. /\ KeysOf(x) \in SUBSET Nat /\ IsFiniteSet(KeysOf(x))
      /\ ConnsOf(x) \in SUBSET Nat /\ IsFiniteSet(ConnsOf(x))
      /\ NamesOf(x) \in SUBSET Nat /\ IsFiniteSet(NamesOf(x))
  BY RowsCounted DEF ListedSets
<1>2. ASSUME NEW L, NEW S, Lists(L, S) PROVE Len(L) \in Nat /\ DOMAIN L = 1 .. Len(L) /\ \A i, j \in DOMAIN L : i # j => L[i] # L[j]
  BY <1>2 DEF Lists
<1>3. CASE op = "listAPIKeys"
  <2> DEFINE A == ListAPIKeys(x)
  <2>1. Len(A) \in Nat /\ DOMAIN A = 1 .. Len(A) /\ \A i, j \in DOMAIN A : i # j => A[i] # A[j]
    BY <1>1, <1>2, ListsOf, DescendingLists
  <2>2. Listed(op, x) = [i \in DOMAIN A |-> <<"key", A[i]>>]
    BY <1>3 DEF Listed
  <2> HIDE DEF A
  <2>3. \A i \in 1 .. Len(A) : Listed(op, x)[i] \in ToSet(Listed(op, x))
    BY <2>1, <2>2 DEF ToSet
  <2>4. Listed(op, x) \in Seq(ToSet(Listed(op, x)))
    BY <2>1, <2>2, <2>3
  <2> QED
    BY <2>1, <2>2, <2>4 DEF Distinct
<1>4. CASE op = "listConnections"
  <2> DEFINE A == ListConnections(x)
  <2>1. Len(A) \in Nat /\ DOMAIN A = 1 .. Len(A) /\ \A i, j \in DOMAIN A : i # j => A[i] # A[j]
    BY <1>1, <1>2, ListsOf, DescendingLists
  <2>2. Listed(op, x) = [i \in DOMAIN A |-> <<"conn", A[i]>>]
    BY <1>4 DEF Listed
  <2> HIDE DEF A
  <2>3. \A i \in 1 .. Len(A) : Listed(op, x)[i] \in ToSet(Listed(op, x))
    BY <2>1, <2>2 DEF ToSet
  <2>4. Listed(op, x) \in Seq(ToSet(Listed(op, x)))
    BY <2>1, <2>2, <2>3
  <2> QED
    BY <2>1, <2>2, <2>4 DEF Distinct
<1>5. CASE op = "listSyncedTables"
  <2> DEFINE A == ListSyncedTables(x)
  <2>1. Len(A) \in Nat /\ DOMAIN A = 1 .. Len(A) /\ \A i, j \in DOMAIN A : i # j => A[i] # A[j]
    BY <1>1, <1>2, ListsOf, AscendingLists
  <2>2. Listed(op, x) = [i \in DOMAIN A |-> <<"table", x, A[i]>>]
    BY <1>5 DEF Listed
  <2> HIDE DEF A
  <2>3. \A i \in 1 .. Len(A) : Listed(op, x)[i] \in ToSet(Listed(op, x))
    BY <2>1, <2>2 DEF ToSet
  <2>4. Listed(op, x) \in Seq(ToSet(Listed(op, x)))
    BY <2>1, <2>2, <2>3
  <2> QED
    BY <2>1, <2>2, <2>4 DEF Distinct
<1> QED
  BY <1>3, <1>4, <1>5 DEF ListOps

(* what a step may do to the rows: a key or a connection keeps its customer, and nothing goes *)
RowsGrow ==
  /\ DOMAIN apiKeys \subseteq DOMAIN apiKeys' /\ \A i \in DOMAIN apiKeys : apiKeys'[i].customer = apiKeys[i].customer
  /\ DOMAIN conns \subseteq DOMAIN conns' /\ \A i \in DOMAIN conns : conns'[i].customer = conns[i].customer
  /\ tables \subseteq tables'

\* What the lists, the graph and the backup read only grows.
LEMMA SetsGrow ==
  ASSUME RowsOK, RowsOK', RowsGrow, NEW x
  PROVE  /\ KeysOf(x) \subseteq KeysOf(x)' /\ ConnsOf(x) \subseteq ConnsOf(x)' /\ NamesOf(x) \subseteq NamesOf(x)'
         /\ KeyRows(x) \subseteq KeyRows(x)' /\ TableRows(x) \subseteq TableRows(x)'
         /\ WorkspaceRows(x) \subseteq WorkspaceRows(x)'
         /\ NodeRows(x) \subseteq NodeRows(x)' /\ EdgeRows(x) \subseteq EdgeRows(x)'
<1>1. KeysOf(x) \subseteq KeysOf(x)'
  BY DEF RowsGrow, KeysOf
<1>2. ConnsOf(x) \subseteq ConnsOf(x)'
  BY DEF RowsGrow, ConnsOf
<1>3. \A y : NamesOf(y) \subseteq NamesOf(y)'
  BY DEF RowsGrow, NamesOf
<1>4. RowSets /\ RowSets'
  BY RowSetsHold, PTL
<1>5. /\ KeyRows(x) = {<<"key", k>> : k \in KeysOf(x)} /\ KeyRows(x)' = {<<"key", k>> : k \in KeysOf(x)'}
      /\ ConnRows(x) = {<<"conn", k>> : k \in ConnsOf(x)} /\ ConnRows(x)' = {<<"conn", k>> : k \in ConnsOf(x)'}
  BY <1>4 DEF RowSets
<1>6. \A y : TableRows(y) = {<<"table", y, t>> : t \in NamesOf(y)} /\ TableRows(y)' = {<<"table", y, t>> : t \in NamesOf(y)'}
  BY <1>4 DEF RowSets
<1>7. /\ WorkspaceRows(x) = KeyRows(x) \cup ConnRows(x) \cup UNION {TableRows(k) : k \in ConnsOf(x)}
      /\ WorkspaceRows(x)' = KeyRows(x)' \cup ConnRows(x)' \cup UNION {TableRows(k)' : k \in ConnsOf(x)'}
  BY <1>4 DEF RowSets
<1>8. KeyRows(x) \subseteq KeyRows(x)' /\ ConnRows(x) \subseteq ConnRows(x)'
  BY <1>1, <1>2, <1>5
<1>9. \A y : TableRows(y) \subseteq TableRows(y)'
  BY <1>3, <1>6
<1>10. WorkspaceRows(x) \subseteq WorkspaceRows(x)'
  BY <1>2, <1>7, <1>8, <1>9
<1>11. Nodes(x) \subseteq Nodes(x)'
  <2>1. \A u \in tables : u \in tables' /\ conns'[u.conn].customer = conns[u.conn].customer
    BY DEF RowsGrow, RowsOK
  <2> QED
    BY <2>1 DEF Nodes
<1>12. NodeRows(x) \subseteq NodeRows(x)' /\ EdgeRows(x) \subseteq EdgeRows(x)'
  BY <1>11 DEF NodeRows, EdgeRows
<1> QED
  BY <1>1, <1>2, <1>3, <1>8, <1>9, <1>10, <1>12

\* A row of a list stays in it, and never moves to an earlier place.
LEMMA ListedGrows ==
  ASSUME RowsOK, RowsOK', RowsGrow, NEW op \in ListOps, NEW x
  PROVE  /\ ToSet(Listed(op, x)) \subseteq ToSet(Listed(op, x))'
         /\ \A n \in DOMAIN Listed(op, x), m \in DOMAIN Listed(op, x)' : Listed(op, x)[n] = Listed(op, x)'[m] => n <= m
<1>1. KeysOf(x) \subseteq KeysOf(x)' /\ ConnsOf(x) \subseteq ConnsOf(x)' /\ NamesOf(x) \subseteq NamesOf(x)'
  BY SetsGrow
<1>2. ListedSets /\ ListedSets'
  BY RowsCounted, PTL
<1>3. /\ KeysOf(x) \in SUBSET Nat /\ IsFiniteSet(KeysOf(x)) /\ KeysOf(x)' \in SUBSET Nat /\ IsFiniteSet(KeysOf(x)')
      /\ ConnsOf(x) \in SUBSET Nat /\ IsFiniteSet(ConnsOf(x)) /\ ConnsOf(x)' \in SUBSET Nat /\ IsFiniteSet(ConnsOf(x)')
      /\ NamesOf(x) \in SUBSET Nat /\ IsFiniteSet(NamesOf(x)) /\ NamesOf(x)' \in SUBSET Nat /\ IsFiniteSet(NamesOf(x)')
  BY <1>2 DEF ListedSets
<1>4. /\ ListAPIKeys(x) = Descending(KeysOf(x)) /\ ListAPIKeys(x)' = Descending(KeysOf(x)')
      /\ ListConnections(x) = Descending(ConnsOf(x)) /\ ListConnections(x)' = Descending(ConnsOf(x)')
      /\ ListSyncedTables(x) = Ascending(NamesOf(x)) /\ ListSyncedTables(x)' = Ascending(NamesOf(x)')
  BY DEF ListAPIKeys, ListConnections, ListSyncedTables, NewestFirst, KeysOf, ConnsOf, NamesOf
<1>5. ASSUME NEW S \in SUBSET Nat, NEW T \in SUBSET Nat, IsFiniteSet(T), S \subseteq T
      PROVE  /\ ToSet(Descending(S)) \subseteq ToSet(Descending(T))
             /\ \A n \in DOMAIN Descending(S), m \in DOMAIN Descending(T) : Descending(S)[n] = Descending(T)[m] => n <= m
             /\ ToSet(Ascending(S)) \subseteq ToSet(Ascending(T))
             /\ \A n \in DOMAIN Ascending(S), m \in DOMAIN Ascending(T) : Ascending(S)[n] = Ascending(T)[m] => n <= m
  <2>1. S \in SUBSET T /\ IsFiniteSet(S)
    BY <1>5, FS_Subset
  <2>2. Lists(Descending(S), S) /\ Lists(Descending(T), T) /\ Lists(Ascending(S), S) /\ Lists(Ascending(T), T)
    BY <1>5, <2>1, AscendingLists, DescendingLists
  <2>3. ToSet(Descending(S)) \subseteq ToSet(Descending(T)) /\ ToSet(Ascending(S)) \subseteq ToSet(Ascending(T))
    BY <2>1, <2>2 DEF Lists
  <2>4. ASSUME NEW n \in DOMAIN Descending(S), NEW m \in DOMAIN Descending(T), Descending(S)[n] = Descending(T)[m]
        PROVE  n <= m
    BY <1>5, <2>1, <2>4, DescendingGrows
  <2>5. ASSUME NEW n \in DOMAIN Ascending(S), NEW m \in DOMAIN Ascending(T), Ascending(S)[n] = Ascending(T)[m]
        PROVE  n <= m
    BY <1>5, <2>1, <2>5, AscendingGrows
  <2> QED
    BY <2>3, <2>4, <2>5
<1>6. ASSUME NEW A, NEW B, NEW F, NEW G, DOMAIN F = DOMAIN A, DOMAIN G = DOMAIN B,
             \A n \in DOMAIN A, m \in DOMAIN B : F[n] = G[m] <=> A[n] = B[m],
             ToSet(A) \subseteq ToSet(B), \A n \in DOMAIN A, m \in DOMAIN B : A[n] = B[m] => n <= m
      PROVE  ToSet(F) \subseteq ToSet(G) /\ \A n \in DOMAIN F, m \in DOMAIN G : F[n] = G[m] => n <= m
  <2>1. \A n \in DOMAIN A : \E m \in DOMAIN B : A[n] = B[m]
    BY <1>6 DEF ToSet
  <2>2. \A n \in DOMAIN F : \E m \in DOMAIN G : F[n] = G[m]
    BY <1>6, <2>1
  <2>3. ToSet(F) \subseteq ToSet(G)
    BY <2>2 DEF ToSet
  <2> QED
    BY <1>6, <2>3
<1>7. CASE op = "listAPIKeys"
  <2> DEFINE A == ListAPIKeys(x)
             B == ListAPIKeys(x)'
             F == Listed(op, x)
             G == Listed(op, x)'
  <2>1. ToSet(A) \subseteq ToSet(B) /\ \A n \in DOMAIN A, m \in DOMAIN B : A[n] = B[m] => n <= m
    BY <1>1, <1>3, <1>4, <1>5
  <2>2. F = [i \in DOMAIN A |-> <<"key", A[i]>>] /\ G = [i \in DOMAIN B |-> <<"key", B[i]>>]
    BY <1>7 DEF Listed
  <2> HIDE DEF A, B, F, G
  <2>3. DOMAIN F = DOMAIN A /\ DOMAIN G = DOMAIN B /\ \A n \in DOMAIN A, m \in DOMAIN B : F[n] = G[m] <=> A[n] = B[m]
    BY <2>2
  <2>4. ToSet(F) \subseteq ToSet(G) /\ \A n \in DOMAIN F, m \in DOMAIN G : F[n] = G[m] => n <= m
    BY <1>6, <2>1, <2>3
  <2> QED
    BY <2>4 DEF F, G
<1>8. CASE op = "listConnections"
  <2> DEFINE A == ListConnections(x)
             B == ListConnections(x)'
             F == Listed(op, x)
             G == Listed(op, x)'
  <2>1. ToSet(A) \subseteq ToSet(B) /\ \A n \in DOMAIN A, m \in DOMAIN B : A[n] = B[m] => n <= m
    BY <1>1, <1>3, <1>4, <1>5
  <2>2. F = [i \in DOMAIN A |-> <<"conn", A[i]>>] /\ G = [i \in DOMAIN B |-> <<"conn", B[i]>>]
    BY <1>8 DEF Listed
  <2> HIDE DEF A, B, F, G
  <2>3. DOMAIN F = DOMAIN A /\ DOMAIN G = DOMAIN B /\ \A n \in DOMAIN A, m \in DOMAIN B : F[n] = G[m] <=> A[n] = B[m]
    BY <2>2
  <2>4. ToSet(F) \subseteq ToSet(G) /\ \A n \in DOMAIN F, m \in DOMAIN G : F[n] = G[m] => n <= m
    BY <1>6, <2>1, <2>3
  <2> QED
    BY <2>4 DEF F, G
<1>9. CASE op = "listSyncedTables"
  <2> DEFINE A == ListSyncedTables(x)
             B == ListSyncedTables(x)'
             F == Listed(op, x)
             G == Listed(op, x)'
  <2>1. ToSet(A) \subseteq ToSet(B) /\ \A n \in DOMAIN A, m \in DOMAIN B : A[n] = B[m] => n <= m
    BY <1>1, <1>3, <1>4, <1>5
  <2>2. F = [i \in DOMAIN A |-> <<"table", x, A[i]>>] /\ G = [i \in DOMAIN B |-> <<"table", x, B[i]>>]
    BY <1>9 DEF Listed
  <2> HIDE DEF A, B, F, G
  <2>3. DOMAIN F = DOMAIN A /\ DOMAIN G = DOMAIN B /\ \A n \in DOMAIN A, m \in DOMAIN B : F[n] = G[m] <=> A[n] = B[m]
    BY <2>2
  <2>4. ToSet(F) \subseteq ToSet(G) /\ \A n \in DOMAIN F, m \in DOMAIN G : F[n] = G[m] => n <= m
    BY <1>6, <2>1, <2>3
  <2> QED
    BY <2>4 DEF F, G
<1> QED
  BY <1>7, <1>8, <1>9 DEF ListOps

\* How far a reader has come, it has come after any step of the others: they only add rows.
LEMMA ReaderLasts ==
  ASSUME RowsOK, RowsOK', RowsGrow, NEW w, Reader(w)
  PROVE  Reader(w)'
<1>1. /\ ConnsOf(w.of) \subseteq ConnsOf(w.of)'
      /\ KeyRows(w.of) \subseteq KeyRows(w.of)' /\ WorkspaceRows(w.of) \subseteq WorkspaceRows(w.of)'
      /\ NodeRows(w.of) \subseteq NodeRows(w.of)' /\ EdgeRows(w.of) \subseteq EdgeRows(w.of)'
  BY SetsGrow
<1>2. \A k : TableRows(k) \subseteq TableRows(k)'
  BY SetsGrow
<1>3. IsWork(w)'
  BY DEF Reader, IsWork
<1>4. ASSUME w.pc = "paging" PROVE Paged(w)'
  <2> DEFINE L == Listed(w.op, w.of)
             M == Listed(w.op, w.of)'
  <2>1. /\ w.op \in ListOps /\ w.sent \in Nat
        /\ w.must \subseteq ToSet(L) /\ w.got \subseteq ToSet(L)
        /\ \A n \in DOMAIN L : L[n] \in w.must \ w.got => n > w.sent
    BY <1>4 DEF Reader, Paged
  <2>2. ToSet(L) \subseteq ToSet(M) /\ \A n \in DOMAIN L, m \in DOMAIN M : L[n] = M[m] => n <= m
    BY <2>1, ListedGrows
  <2>3. ListedDistinct /\ ListedDistinct'
    BY ListedOnce, PTL
  <2>4. DOMAIN L \subseteq Nat /\ DOMAIN M \subseteq Nat
    BY <2>1, <2>3 DEF ListedDistinct, Distinct
  <2> HIDE DEF L, M
  <2>5. ASSUME NEW m \in DOMAIN M, M[m] \in w.must \ w.got PROVE m > w.sent
    <3>1. PICK n \in DOMAIN L : L[n] = M[m]
      BY <2>1, <2>5 DEF ToSet
    <3>2. n > w.sent /\ n <= m /\ n \in Nat /\ m \in Nat
      BY <2>1, <2>2, <2>4, <2>5, <3>1
    <3> QED
      BY <2>1, <3>2
  <2>6. w.must \subseteq ToSet(M) /\ w.got \subseteq ToSet(M)
    BY <2>1, <2>2
  <2> QED
    BY <2>1, <2>5, <2>6 DEF Paged, M
<1>5. ASSUME w.pc = "edges" PROVE Drawn(w)'
  <2>1. w.must \subseteq w.got \cup EdgeRows(w.of)' /\ w.got \subseteq NodeRows(w.of)'
    BY <1>1, <1>5 DEF Reader, Drawn
  <2> QED
    BY <2>1 DEF Drawn
<1>6. ASSUME w.pc = "conns" PROVE w.must \subseteq WorkspaceRows(w.of)'
  BY <1>1, <1>6 DEF Reader
<1>7. ASSUME w.pc = "tables" PROVE HalfSaved(w)'
  <2>1. /\ w.todo \in Seq(ConnsOf(w.of))
        /\ w.must \subseteq w.got \cup KeyRows(w.of) \cup UNION {TableRows(k) : k \in ToSet(w.todo)}
        /\ w.got \subseteq WorkspaceRows(w.of)
    BY <1>7 DEF Reader, HalfSaved
  <2>2. w.todo \in Seq(ConnsOf(w.of)')
    <3>1. Len(w.todo) \in Nat /\ w.todo \in [1 .. Len(w.todo) -> ConnsOf(w.of)]
      BY <2>1
    <3>2. w.todo \in [1 .. Len(w.todo) -> ConnsOf(w.of)']
      BY <1>1, <3>1
    <3> QED
      BY <3>1, <3>2
  <2>3. w.must \subseteq w.got \cup KeyRows(w.of)' \cup UNION {TableRows(k)' : k \in ToSet(w.todo)}
    BY <1>1, <1>2, <2>1
  <2>4. w.got \subseteq WorkspaceRows(w.of)'
    BY <1>1, <2>1
  <2> QED
    BY <2>2, <2>3, <2>4 DEF HalfSaved
<1>8. ASSUME w.pc = "dump" PROVE Saved(w)'
  <2>1. w.must \subseteq w.got /\ w.got \subseteq WorkspaceRows(w.of)'
    BY <1>1, <1>8 DEF Reader, Saved
  <2> QED
    BY <2>1 DEF Saved
<1>9. ASSUME w.pc = "done" PROVE Given(w)'
  <2>1. Given(w)
    BY <1>9 DEF Reader
  <2>2. w.op \in ListOps => w.got \subseteq ToSet(Listed(w.op, w.of))'
    BY <2>1, ListedGrows DEF Given
  <2>3. w.op = "syncDAG" => w.got \subseteq NodeRows(w.of)' \cup EdgeRows(w.of)'
    BY <1>1, <2>1 DEF Given
  <2>4. w.op = "workspaceBackup" => w.got \subseteq WorkspaceRows(w.of)'
    BY <1>1, <2>1 DEF Given
  <2> QED
    BY <2>1, <2>2, <2>3, <2>4 DEF Given
<1> QED
  BY <1>3, <1>4, <1>5, <1>6, <1>7, <1>8, <1>9 DEF Reader

(* what a step does to the rows that the readers read *)
RowsStep ==
  /\ \/ UNCHANGED apiKeys
     \/ \E c \in Customers : CreateAPIKey(c)
     \/ \E k : RevokeAPIKey(k)
  /\ \/ UNCHANGED conns
     \/ \E row \in [customer : Customers, kind : Kinds, name : Names] : CreateConnection(row)
  /\ \/ UNCHANGED tables
     \/ \E conn \in DOMAIN conns, t \in Tables : UpsertSyncedTable(conn, t)

RowsStay == UNCHANGED <<apiKeys, conns, tables>>

(* and to the readers: a statement of one of them writes no row *)
WorkStep == UNCHANGED work \/ (RowsStay /\ \E h \in Handlers : \E w : Reader(w) /\ Goes(h, w))

\* Rows are added, and a key is revoked where it is.
LEMMA RowsStepGrows ==
  ASSUME RowsOK, RowsStep
  PROVE  RowsOK' /\ RowsGrow
<1> DEFINE Keys == [customer : Customers, revoked : BOOLEAN]
           Conns == [customer : Customers, kind : Kinds, name : Names]
           KeysGrown == /\ apiKeys' \in Seq(Keys) /\ DOMAIN apiKeys \subseteq DOMAIN apiKeys'
                        /\ \A i \in DOMAIN apiKeys : apiKeys'[i].customer = apiKeys[i].customer
           ConnsGrown == /\ conns' \in Seq(Conns) /\ DOMAIN conns \subseteq DOMAIN conns'
                         /\ \A i \in DOMAIN conns : conns'[i].customer = conns[i].customer
<1>1. KeysGrown
  <2>1. apiKeys \in Seq(Keys)
    BY DEF RowsOK
  <2>2. CASE UNCHANGED apiKeys
    BY <2>1, <2>2
  <2>3. ASSUME NEW c \in Customers, CreateAPIKey(c) PROVE KeysGrown
    <3>1. [customer |-> c, revoked |-> FALSE] \in Keys
      OBVIOUS
    <3> HIDE DEF Keys
    <3> QED
      BY <2>1, <2>3, <3>1 DEF CreateAPIKey
  <2>4. ASSUME NEW k, RevokeAPIKey(k) PROVE KeysGrown
    <3>1. \A e \in Keys : [e EXCEPT !.revoked = TRUE] \in Keys /\ [e EXCEPT !.revoked = TRUE].customer = e.customer
      OBVIOUS
    <3> HIDE DEF Keys
    <3>2. \A i \in DOMAIN apiKeys : apiKeys[i] \in Keys
      BY <2>1
    <3>3. /\ apiKeys' = [i \in DOMAIN apiKeys |-> IF i = k THEN [apiKeys[i] EXCEPT !.revoked = TRUE] ELSE apiKeys[i]]
          /\ DOMAIN apiKeys = 1 .. Len(apiKeys) /\ Len(apiKeys) \in Nat
      BY <2>1, <2>4 DEF RevokeAPIKey
    <3>4. \A i \in DOMAIN apiKeys : apiKeys'[i] \in Keys /\ apiKeys'[i].customer = apiKeys[i].customer
      BY <3>1, <3>2, <3>3
    <3>5. apiKeys' \in [1 .. Len(apiKeys) -> Keys]
      BY <3>3, <3>4
    <3> QED
      BY <3>3, <3>4, <3>5
  <2> QED
    BY <2>2, <2>3, <2>4 DEF RowsStep
<1>2. ConnsGrown
  <2>1. conns \in Seq(Conns)
    BY DEF RowsOK
  <2>2. CASE UNCHANGED conns
    BY <2>1, <2>2
  <2>3. ASSUME NEW row \in Conns, CreateConnection(row) PROVE ConnsGrown
    <3> HIDE DEF Conns
    <3> QED
      BY <2>1, <2>3 DEF CreateConnection
  <2> QED
    BY <2>2, <2>3 DEF RowsStep
<1>3. tables \subseteq tables' /\ tables' \subseteq [conn : DOMAIN conns', name : Tables]
  BY <1>2 DEF RowsStep, RowsOK, UpsertSyncedTable
<1> QED
  BY <1>1, <1>2, <1>3 DEF RowsOK, RowsGrow

\* A step that adds rows, or is a statement of a reader, keeps every reader's place.
LEMMA ReadersStep ==
  ASSUME ReadersInv, RowsStep, WorkStep
  PROVE  ReadersInv'
<1>1. RowsOK /\ RowsOK' /\ RowsGrow
  BY RowsStepGrows DEF ReadersInv
<1>2. work = [h \in Handlers |-> work[h]] /\ \A h \in Handlers : Reader(work[h])
  BY DEF ReadersInv
<1>3. CASE UNCHANGED work
  <2>1. ASSUME NEW h \in Handlers PROVE Reader(work[h])'
    <3>1. PICK w : w = work[h]
      OBVIOUS
    <3>2. Reader(w)'
      BY <1>1, <1>2, <3>1, ReaderLasts
    <3> QED
      BY <1>3, <3>1, <3>2
  <2>2. work' = [h \in Handlers |-> work'[h]]
    BY <1>2, <1>3
  <2> QED
    BY <1>1, <2>1, <2>2 DEF ReadersInv
<1>4. ASSUME NEW g \in Handlers, NEW v, Reader(v), Goes(g, v) PROVE ReadersInv'
  <2>1. work' = [work EXCEPT ![g] = v]
    BY <1>4 DEF Goes
  <2>2. ASSUME NEW h \in Handlers PROVE Reader(work[h])'
    <3>1. PICK w : w = IF h = g THEN v ELSE work[h]
      OBVIOUS
    <3>2. Reader(w) /\ w = work'[h]
      BY <1>2, <1>4, <2>1, <3>1
    <3>3. Reader(w)'
      BY <1>1, <3>2, ReaderLasts
    <3> QED
      BY <3>2, <3>3
  <2>3. work' = [h \in Handlers |-> work'[h]]
    BY <1>2, <2>1
  <2> QED
    BY <1>1, <2>2, <2>3 DEF ReadersInv
<1> QED
  BY <1>3, <1>4 DEF WorkStep

-----------------------------------------------------------------------------
(* The pages.                                                                *)

\* A page is never asked for without rows.
LEMMA PageLimits ==
  ASSUME NEW limit \in 0 .. MaxPage + 1
  PROVE  pageLimit(limit) \in Nat /\ pageLimit(limit) >= 1
<1>1. MaxPage \in Nat /\ MaxPage >= 1 /\ DefaultPage \in Nat /\ DefaultPage >= 1
  BY WorkspaceAssumption
<1>2. PICK k \in Nat : k = (IF limit = 0 THEN DefaultPage ELSE limit) /\ k >= 1
  BY <1>1
<1>3. Min({MaxPage, k}) \in {MaxPage, k}
  BY <1>1 DEF Min
<1> QED
  BY <1>1, <1>2, <1>3 DEF pageLimit

(* the page that begins behind the first sent rows of a list: when it is empty there are no *)
(* more, and otherwise the next one begins right behind it                                  *)
PageOf(L, rows, sent) ==
  /\ rows \subseteq ToSet(L)
  /\ rows = {} => sent >= Len(L)
  /\ sent + Cardinality(rows) \in Nat
  /\ \A n \in DOMAIN L : n > sent /\ L[n] \notin rows => n > sent + Cardinality(rows)

\* What applyPage cuts out of a list without repetitions.
LEMMA PageRows ==
  ASSUME NEW L, Distinct(L), NEW k \in Nat, k >= 1, NEW sent \in Nat
  PROVE  PageOf(L, ToSet(applyPage(L, k, sent)), sent)
<1>1. Len(L) \in Nat /\ DOMAIN L = 1 .. Len(L) /\ \A i, j \in DOMAIN L : i # j => L[i] # L[j]
  BY DEF Distinct
<1>2. CASE sent >= Len(L)
  <2>1. ToSet(applyPage(L, k, sent)) = {}
    BY <1>2 DEF applyPage, ToSet
  <2>2. Cardinality({}) = 0
    BY FS_EmptySet
  <2> QED
    BY <1>1, <1>2, <2>1, <2>2 DEF PageOf
<1>3. CASE sent < Len(L)
  <2>1. PICK e : e = Min({sent + k, Len(L)})
    OBVIOUS
  <2>2. (e = sent + k \/ e = Len(L)) /\ e <= Len(L)
    <3>1. PICK a \in Nat : a = sent + k
      OBVIOUS
    <3>2. PICK b \in Nat : b = Len(L)
      BY <1>1
    <3>3. \E x \in {a, b} : \A y \in {a, b} : x <= y
      OBVIOUS
    <3>4. Min({a, b}) \in {a, b} /\ \A y \in {a, b} : Min({a, b}) <= y
      BY <3>3 DEF Min
    <3> QED
      BY <2>1, <3>1, <3>2, <3>4
  <2>3. e \in Nat /\ sent + 1 <= e /\ e <= Len(L)
    <3>1. sent + k \in Nat /\ sent + 1 <= sent + k
      OBVIOUS
    <3>2. sent + 1 <= Len(L)
      BY <1>1, <1>3
    <3> QED
      BY <1>1, <2>2, <3>1, <3>2
  <2> DEFINE P == SubSeq(L, sent + 1, e)
             n == e - sent
  <2>4. applyPage(L, k, sent) = P
    <3>1. ~(sent >= Len(L))
      BY <1>1, <1>3
    <3> QED
      BY <2>1, <3>1, Zenon DEF applyPage
  <2>5. \A i \in sent + 1 .. e : i \in DOMAIN L /\ L[i] \in ToSet(L)
    BY <1>1, <2>3 DEF ToSet
  <2>6. /\ P \in Seq(ToSet(L)) /\ Len(P) = e - (sent + 1) + 1
        /\ \A i \in 1 .. e - (sent + 1) + 1 : P[i] = L[sent + 1 + i - 1]
    BY <2>3, <2>5, SubSeqProperties
  <2> HIDE DEF P
  <2>7. n \in Nat /\ n >= 1 /\ Len(P) = n /\ DOMAIN P = 1 .. n /\ \A i \in 1 .. n : sent + i \in sent + 1 .. e /\ P[i] = L[sent + i]
    BY <2>3, <2>6
  <2> HIDE DEF n
  <2>8. \A i, j \in 1 .. n : i # j => P[i] # P[j]
    <3> SUFFICES ASSUME NEW i \in 1 .. n, NEW j \in 1 .. n, i # j PROVE P[i] # P[j]
      OBVIOUS
    <3>1. sent + i # sent + j /\ sent + i \in DOMAIN L /\ sent + j \in DOMAIN L
      BY <2>5, <2>7
    <3> QED
      BY <1>1, <2>7, <3>1
  <2>9. ToSet(P) = {P[i] : i \in 1 .. n} /\ P \in [1 .. n -> ToSet(P)]
    <3>1. P = [i \in 1 .. n |-> P[i]]
      BY <2>6, <2>7
    <3>2. ToSet(P) = {P[i] : i \in 1 .. n}
      BY <2>7 DEF ToSet
    <3> QED
      BY <3>1, <3>2
  <2>10. Cardinality(ToSet(P)) = n
    <3>1. P \in Surjection(1 .. n, ToSet(P))
      BY <2>9 DEF Surjection
    <3>2. P \in Injection(1 .. n, ToSet(P))
      BY <2>8, <2>9 DEF Injection, IsInjective
    <3>3. IsFiniteSet(1 .. n) /\ Cardinality(1 .. n) = n
      BY <2>7, FS_Interval
    <3> QED
      BY <3>1, <3>2, <3>3, FS_Surjection
  <2>11. ToSet(P) \subseteq ToSet(L) /\ ToSet(P) # {}
    <3>1. \A i \in 1 .. n : P[i] \in ToSet(L)
      BY <2>5, <2>7
    <3>2. 1 \in 1 .. n
      BY <2>7
    <3> QED
      BY <2>9, <3>1, <3>2
  <2>12. ASSUME NEW m \in DOMAIN L, m > sent, L[m] \notin ToSet(P) PROVE m > sent + n
    <3> SUFFICES ASSUME m <= sent + n PROVE FALSE
      BY <1>1, <2>7
    <3>1. m - sent \in 1 .. n /\ sent + (m - sent) = m
      BY <1>1, <2>7, <2>12
    <3>2. P[m - sent] = L[m]
      BY <2>7, <3>1
    <3> QED
      BY <2>9, <2>12, <3>1, <3>2
  <2>13. sent + n \in Nat
    BY <2>7
  <2> QED
    BY <2>4, <2>10, <2>11, <2>12, <2>13 DEF PageOf
<1> QED
  BY <1>1, <1>2, <1>3

(* what a client has after a page *)
Turned(w, op, of, rows, sent, must, got) ==
  /\ IsWork(w) /\ w.op = op /\ w.of = of /\ w.must = must /\ w.got = rows \cup got
  /\ w.pc = (IF rows = {} THEN "done" ELSE "paging")
  /\ w.sent = (IF rows = {} THEN 0 ELSE sent + Cardinality(rows))

\* A client that lacked only rows behind its pages lacks only rows behind the next one, and
\* none when the next one is empty.
LEMMA TurnedReads ==
  ASSUME RowsOK, NEW op \in ListOps, NEW of, NEW sent \in Nat, NEW rows, NEW must, NEW got,
         NEW w, Turned(w, op, of, rows, sent, must, got), PageOf(Listed(op, of), rows, sent),
         must \subseteq ToSet(Listed(op, of)), got \subseteq ToSet(Listed(op, of)),
         \A n \in DOMAIN Listed(op, of) : Listed(op, of)[n] \in must \ got => n > sent
  PROVE  Reader(w)
<1> DEFINE L == Listed(op, of)
<1>1. Len(L) \in Nat /\ DOMAIN L = 1 .. Len(L)
  BY ListedOnce DEF ListedDistinct, Distinct
<1>2. /\ w.op = op /\ w.of = of /\ w.must = must /\ w.got = rows \cup got /\ IsWork(w)
      /\ w.pc = (IF rows = {} THEN "done" ELSE "paging")
      /\ w.sent = (IF rows = {} THEN 0 ELSE sent + Cardinality(rows))
  BY DEF Turned
<1> HIDE DEF L
<1>3. /\ rows \subseteq ToSet(L)
      /\ rows = {} => sent >= Len(L)
      /\ sent + Cardinality(rows) \in Nat
      /\ \A n \in DOMAIN L : n > sent /\ L[n] \notin rows => n > sent + Cardinality(rows)
  BY DEF PageOf, L
<1>4. must \subseteq ToSet(L) /\ got \subseteq ToSet(L) /\ \A n \in DOMAIN L : L[n] \in must \ got => n > sent
  BY DEF L
<1>5. rows \cup got \subseteq ToSet(L)
  BY <1>3, <1>4
<1>6. CASE rows = {}
  <2>1. ASSUME NEW x \in must PROVE x \in got
    <3>1. PICK n \in DOMAIN L : L[n] = x
      BY <1>4 DEF ToSet
    <3>2. n \in Nat /\ n <= Len(L) /\ sent >= Len(L)
      BY <1>1, <1>3, <1>6
    <3>3. ~(n > sent)
      BY <1>1, <3>2
    <3> QED
      BY <1>4, <3>1, <3>3
  <2>2. Given(w)
    <3>1. w.op \in ListOps /\ w.must \subseteq w.got /\ w.got \subseteq ToSet(Listed(w.op, w.of))
      BY <1>2, <1>5, <2>1 DEF L
    <3>2. w.op # "syncDAG" /\ w.op # "workspaceBackup"
      BY <3>1 DEF ListOps
    <3> QED
      BY <3>1, <3>2 DEF Given
  <2>3. w.pc = "done"
    BY <1>2, <1>6
  <2> QED
    BY <1>2, <2>2, <2>3 DEF Reader
<1>7. CASE rows # {}
  <2>1. ASSUME NEW n \in DOMAIN L, L[n] \in must \ (rows \cup got) PROVE n > sent + Cardinality(rows)
    BY <1>3, <1>4, <2>1
  <2>2. Listed(w.op, w.of) = L /\ w.sent = sent + Cardinality(rows) /\ w.pc = "paging"
    BY <1>2, <1>7 DEF L
  <2>3. Paged(w)
    BY <1>2, <1>3, <1>4, <1>5, <2>1, <2>2 DEF Paged
  <2> QED
    BY <1>2, <2>2, <2>3 DEF Reader
<1> QED
  BY <1>6, <1>7

\* A page moves its client on, or fails and leaves it where it was.
LEMMA PageReads ==
  ASSUME ReadersInv, NEW h \in Handlers, NEW op \in ListOps, NEW of, NEW limit \in 0 .. MaxPage + 1,
         Page(h, op, of, limit)
  PROVE  WorkStep /\ RowsStay
<1> DEFINE first == work[h].pc # "paging"
           sent == IF first THEN 0 ELSE work[h].sent
           L == Listed(op, of)
           rows == ToSet(applyPage(L, pageLimit(limit), sent))
           must == IF first THEN ToSet(L) ELSE work[h].must
           got == IF first THEN {} ELSE work[h].got
           next == [Resting EXCEPT !.op = op, !.of = of,
                      !.pc = IF rows = {} THEN "done" ELSE "paging",
                      !.sent = IF rows = {} THEN 0 ELSE sent + Cardinality(rows),
                      !.must = IF first THEN ToSet(L) ELSE work[h].must,
                      !.got = rows \cup (IF first THEN {} ELSE work[h].got)]
<1>1. /\ work[h].pc = "paging" => work[h].op = op /\ work[h].of = of
      /\ Goes(h, next) \/ UNCHANGED work
      /\ UNCHANGED <<rowVars, apiKeys>>
  BY DEF Page
<1>2. RowsStay
  BY <1>1 DEF rowVars, RowsStay
<1>3. RowsOK /\ Reader(work[h])
  BY DEF ReadersInv
<1>4. sent \in Nat /\ must \subseteq ToSet(L) /\ got \subseteq ToSet(L) /\ \A n \in DOMAIN L : L[n] \in must \ got => n > sent
  <2>1. CASE first
    <3>1. sent = 0 /\ must = ToSet(L) /\ got = {}
      BY <2>1
    <3>2. DOMAIN L = 1 .. Len(L) /\ Len(L) \in Nat
      BY <1>3, ListedOnce DEF ListedDistinct, Distinct
    <3> HIDE DEF sent, must, got, L
    <3> QED
      BY <3>1, <3>2
  <2>2. CASE ~first
    <3>1. Paged(work[h]) /\ work[h].op = op /\ work[h].of = of
      BY <1>1, <1>3, <2>2 DEF Reader
    <3>2. sent = work[h].sent /\ must = work[h].must /\ got = work[h].got
      BY <2>2
    <3> HIDE DEF sent, must, got
    <3> QED
      BY <3>1, <3>2 DEF Paged
  <2> QED
    BY <2>1, <2>2
<1>5. PageOf(L, rows, sent)
  <2>1. Distinct(L)
    BY <1>3, ListedOnce DEF ListedDistinct
  <2>2. pageLimit(limit) \in Nat /\ pageLimit(limit) >= 1
    BY PageLimits
  <2> HIDE DEF L, sent
  <2> QED
    BY <1>4, <2>1, <2>2, PageRows
<1>6. Turned(next, op, of, rows, sent, must, got)
  <2> HIDE DEF rows, sent, first
  <2> QED
    BY DEF Resting, Turned, IsWork
<1> HIDE DEF rows, sent, must, got, next
<1>7. Reader(next)
  BY <1>3, <1>4, <1>5, <1>6, TurnedReads
<1> QED
  BY <1>1, <1>2, <1>7 DEF WorkStep

-----------------------------------------------------------------------------
(* The statements of the graph, of the backup and of an erasure.             *)

\* A handler that ended, or goes on to erase an annotation, reads nothing.
LEMMA RestingReads ==
  ASSUME NEW id
  PROVE  Reader(Resting) /\ Reader([Resting EXCEPT !.pc = "erase", !.of = id])
<1>1. IsWork(Resting) /\ Resting.pc = "idle"
  BY DEF Resting, IsWork
<1>2. PICK w : w = [Resting EXCEPT !.pc = "erase", !.of = id]
  OBVIOUS
<1>3. IsWork(w) /\ w.pc = "erase"
  BY <1>2 DEF Resting, IsWork
<1> QED
  BY <1>1, <1>2, <1>3 DEF Reader

\* The graph begins with the nodes and lacks the edges between them.
LEMMA DagReads ==
  ASSUME ReadersInv, NEW h \in Handlers, NEW c, syncDAG(h, c)
  PROVE  WorkStep /\ RowsStay
<1>1. RowsStay
  BY DEF syncDAG, rowVars, RowsStay
<1>2. PICK w : w = [Resting EXCEPT !.pc = "edges", !.of = c, !.must = NodeRows(c) \cup EdgeRows(c), !.got = NodeRows(c)]
  OBVIOUS
<1>3. IsWork(w) /\ w.pc = "edges" /\ w.of = c /\ w.must = NodeRows(c) \cup EdgeRows(c) /\ w.got = NodeRows(c)
  BY <1>2 DEF Resting, IsWork
<1>4. Drawn(w)
  BY <1>3 DEF Drawn
<1>5. Reader(w)
  BY <1>3, <1>4 DEF Reader
<1>6. Goes(h, w) \/ UNCHANGED work
  BY <1>2 DEF syncDAG
<1> QED
  BY <1>1, <1>5, <1>6 DEF WorkStep

\* The backup begins with the rows of the workspace before it.
LEMMA BackupReads ==
  ASSUME ReadersInv, NEW h \in Handlers, NEW c, workspaceBackup(h, c)
  PROVE  WorkStep /\ RowsStay
<1>1. RowsStay
  BY DEF workspaceBackup, rowVars, RowsStay
<1>2. PICK w : w = [Resting EXCEPT !.pc = "conns", !.of = c, !.must = WorkspaceRows(c)]
  OBVIOUS
<1>3. IsWork(w) /\ w.pc = "conns" /\ w.of = c /\ w.must = WorkspaceRows(c)
  BY <1>2 DEF Resting, IsWork
<1>4. Reader(w)
  BY <1>3 DEF Reader
<1>5. Goes(h, w) \/ UNCHANGED work
  BY <1>2 DEF workspaceBackup
<1> QED
  BY <1>1, <1>4, <1>5 DEF WorkStep

\* Looking up an annotation's author reads none of the rows.
LEMMA AuthorReads ==
  ASSUME NEW h \in Handlers, NEW user, NEW bypass, NEW id, deleteAnnotation(h, user, bypass, id)
  PROVE  WorkStep /\ RowsStay
<1>1. RowsStay
  BY DEF deleteAnnotation, rowVars, RowsStay
<1>2. Goes(h, Resting) \/ Goes(h, [Resting EXCEPT !.pc = "erase", !.of = id])
  BY DEF deleteAnnotation, Ends, Failed
<1> QED
  BY <1>1, <1>2, RestingReads DEF WorkStep

\* The edges complete the graph.
LEMMA DagEdgesReads ==
  ASSUME NEW w, Reader(w), w.pc = "edges"
  PROVE  Reader([w EXCEPT !.pc = "done", !.op = "syncDAG", !.got = @ \cup EdgeRows(w.of)])
<1>1. PICK v : v = [w EXCEPT !.pc = "done", !.op = "syncDAG", !.got = @ \cup EdgeRows(w.of)]
  OBVIOUS
<1>2. IsWork(w) /\ Drawn(w)
  BY DEF Reader
<1>3. /\ IsWork(v) /\ v.pc = "done" /\ v.op = "syncDAG" /\ v.of = w.of /\ v.must = w.must
      /\ v.got = w.got \cup EdgeRows(w.of)
  BY <1>1, <1>2 DEF IsWork
<1>4. Given(v)
  BY <1>2, <1>3 DEF Given, Drawn, ListOps
<1>5. Reader(v)
  BY <1>3, <1>4 DEF Reader
<1> QED
  BY <1>1, <1>5

\* With the connections the backup lacks their tables and the keys.
LEMMA BackupConnsReads ==
  ASSUME RowsOK, NEW w, Reader(w), w.pc = "conns"
  PROVE  Reader([w EXCEPT !.pc = "tables", !.todo = ListConnections(w.of), !.got = ConnRows(w.of)])
<1>1. PICK v : v = [w EXCEPT !.pc = "tables", !.todo = ListConnections(w.of), !.got = ConnRows(w.of)]
  OBVIOUS
<1>2. IsWork(w) /\ w.must \subseteq WorkspaceRows(w.of)
  BY DEF Reader
<1>3. /\ IsWork(v) /\ v.pc = "tables" /\ v.of = w.of /\ v.must = w.must
      /\ v.todo = ListConnections(w.of) /\ v.got = ConnRows(w.of)
  BY <1>1, <1>2 DEF IsWork
<1>4. Lists(ListConnections(w.of), ConnsOf(w.of))
  BY RowsCounted, ListsOf, DescendingLists DEF ListedSets
<1>5. v.todo \in Seq(ConnsOf(w.of)) /\ ToSet(v.todo) = ConnsOf(w.of)
  BY <1>3, <1>4 DEF Lists
<1>6. WorkspaceRows(w.of) = KeyRows(w.of) \cup ConnRows(w.of) \cup UNION {TableRows(k) : k \in ConnsOf(w.of)}
  BY RowSetsHold DEF RowSets
<1>7. HalfSaved(v)
  BY <1>2, <1>3, <1>5, <1>6 DEF HalfSaved
<1>8. Reader(v)
  BY <1>3, <1>7 DEF Reader
<1> QED
  BY <1>1, <1>8

\* The tables of a connection are in the backup when it goes on to the next one.
LEMMA BackupTablesReads ==
  ASSUME RowsOK, NEW w, Reader(w), w.pc = "tables", w.todo # <<>>
  PROVE  Reader([w EXCEPT !.todo = Tail(@), !.got = @ \cup TableRows(Head(w.todo))])
<1>1. PICK v : v = [w EXCEPT !.todo = Tail(@), !.got = @ \cup TableRows(Head(w.todo))]
  OBVIOUS
<1>2. IsWork(w) /\ HalfSaved(w)
  BY DEF Reader
<1>3. /\ IsWork(v) /\ v.pc = "tables" /\ v.of = w.of /\ v.must = w.must
      /\ v.todo = Tail(w.todo) /\ v.got = w.got \cup TableRows(Head(w.todo))
  BY <1>1, <1>2 DEF IsWork
<1>4. w.todo \in Seq(ConnsOf(w.of))
  BY <1>2 DEF HalfSaved
<1>5. Head(w.todo) \in ConnsOf(w.of) /\ Tail(w.todo) \in Seq(ConnsOf(w.of))
  BY <1>4, HeadTailProperties
<1>6. ToSet(w.todo) \subseteq {Head(w.todo)} \cup ToSet(Tail(w.todo))
  <2> DEFINE t == w.todo
  <2> HIDE DEF t
  <2>1. t \in Seq(ConnsOf(w.of)) /\ t # <<>>
    BY <1>4 DEF t
  <2>2. Len(t) \in Nat /\ Len(Tail(t)) = Len(t) - 1 /\ DOMAIN t = 1 .. Len(t) /\ DOMAIN Tail(t) = 1 .. Len(t) - 1
    BY <2>1
  <2>3. Head(t) = t[1] /\ \A i \in 1 .. Len(t) - 1 : Tail(t)[i] = t[i + 1]
    BY <2>1
  <2>4. ASSUME NEW i \in DOMAIN t PROVE t[i] \in {Head(t)} \cup ToSet(Tail(t))
    <3>1. CASE i = 1
      BY <2>3, <3>1
    <3>2. CASE i # 1
      <4>1. i - 1 \in DOMAIN Tail(t) /\ Tail(t)[i - 1] = t[i]
        BY <2>2, <2>3, <2>4, <3>2
      <4> QED
        BY <4>1 DEF ToSet
    <3> QED
      BY <3>1, <3>2
  <2> QED
    BY <2>4 DEF ToSet, t
<1>7. TableRows(Head(w.todo)) \subseteq WorkspaceRows(w.of)
  BY <1>5, RowSetsHold DEF RowSets
<1>8. v.must \subseteq v.got \cup KeyRows(v.of) \cup UNION {TableRows(k) : k \in ToSet(v.todo)}
  BY <1>2, <1>3, <1>6 DEF HalfSaved
<1>9. v.got \subseteq WorkspaceRows(v.of)
  BY <1>2, <1>3, <1>7 DEF HalfSaved
<1>10. HalfSaved(v)
  BY <1>3, <1>5, <1>8, <1>9 DEF HalfSaved
<1>11. Reader(v)
  BY <1>3, <1>10 DEF Reader
<1> QED
  BY <1>1, <1>11

\* The keys complete the backup.
LEMMA BackupKeysReads ==
  ASSUME RowsOK, NEW w, Reader(w), w.pc = "tables", w.todo = <<>>
  PROVE  Reader([w EXCEPT !.pc = "dump", !.got = @ \cup KeyRows(w.of)])
<1>1. PICK v : v = [w EXCEPT !.pc = "dump", !.got = @ \cup KeyRows(w.of)]
  OBVIOUS
<1>2. IsWork(w) /\ HalfSaved(w)
  BY DEF Reader
<1>3. IsWork(v) /\ v.pc = "dump" /\ v.of = w.of /\ v.must = w.must /\ v.got = w.got \cup KeyRows(w.of)
  BY <1>1, <1>2 DEF IsWork
<1>4. ToSet(w.todo) = {}
  BY DEF ToSet
<1>5. KeyRows(w.of) \subseteq WorkspaceRows(w.of)
  BY RowSetsHold DEF RowSets
<1>6. Saved(v)
  BY <1>2, <1>3, <1>4, <1>5 DEF Saved, HalfSaved
<1>7. Reader(v)
  BY <1>3, <1>6 DEF Reader
<1> QED
  BY <1>1, <1>7

\* The dumps add nothing that is modelled, and the backup is given out.
LEMMA DumpReads ==
  ASSUME NEW w, Reader(w), w.pc = "dump"
  PROVE  Reader([w EXCEPT !.pc = "done", !.op = "workspaceBackup"])
<1>1. PICK v : v = [w EXCEPT !.pc = "done", !.op = "workspaceBackup"]
  OBVIOUS
<1>2. IsWork(w) /\ Saved(w)
  BY DEF Reader
<1>3. /\ IsWork(v) /\ v.pc = "done" /\ v.op = "workspaceBackup"
      /\ v.of = w.of /\ v.must = w.must /\ v.got = w.got
  BY <1>1, <1>2 DEF IsWork
<1>4. Given(v)
  BY <1>2, <1>3 DEF Given, Saved, ListOps
<1>5. Reader(v)
  BY <1>3, <1>4 DEF Reader
<1> QED
  BY <1>1, <1>5

\* The later statements of a handler.
LEMMA ContinueReads ==
  ASSUME ReadersInv, Continue, UNCHANGED admissionVars
  PROVE  WorkStep /\ RowsStay
<1>1. RowsStay
  BY DEF Continue, EraseAnnotation, DagEdges, BackupConns, BackupTables, BackupKeys, dumpRows, rowVars, admissionVars, RowsStay
<1>2. PICK h \in Handlers :
        EraseAnnotation(h) \/ DagEdges(h) \/ BackupConns(h) \/ BackupTables(h) \/ BackupKeys(h) \/ dumpRows(h)
  BY DEF Continue
<1>3. RowsOK /\ Reader(work[h]) /\ Reader(Resting)
  BY RestingReads DEF ReadersInv
<1>4. ASSUME NEW v, Reader(v), Goes(h, v) \/ Goes(h, Resting) PROVE WorkStep
  BY <1>1, <1>3, <1>4 DEF WorkStep
<1>5. CASE EraseAnnotation(h)
  BY <1>1, <1>3, <1>4, <1>5 DEF EraseAnnotation, Ends, Failed
<1>6. CASE DagEdges(h)
  <2>1. PICK v : v = [work[h] EXCEPT !.pc = "done", !.op = "syncDAG", !.got = @ \cup EdgeRows(work[h].of)]
    OBVIOUS
  <2>2. Reader(v)
    BY <1>3, <1>6, <2>1, DagEdgesReads DEF DagEdges
  <2>3. Goes(h, v) \/ Goes(h, Resting)
    BY <1>6, <2>1 DEF DagEdges, Ends, Failed
  <2> QED
    BY <1>1, <1>4, <2>2, <2>3
<1>7. CASE BackupConns(h)
  <2>1. PICK v : v = [work[h] EXCEPT !.pc = "tables", !.todo = ListConnections(work[h].of), !.got = ConnRows(work[h].of)]
    OBVIOUS
  <2>2. Reader(v)
    BY <1>3, <1>7, <2>1, BackupConnsReads DEF BackupConns
  <2>3. Goes(h, v) \/ Goes(h, Resting)
    BY <1>7, <2>1 DEF BackupConns, Ends, Failed
  <2> QED
    BY <1>1, <1>4, <2>2, <2>3
<1>8. CASE BackupTables(h)
  <2>1. PICK v : v = [work[h] EXCEPT !.todo = Tail(@), !.got = @ \cup TableRows(Head(work[h].todo))]
    OBVIOUS
  <2>2. Reader(v)
    BY <1>3, <1>8, <2>1, BackupTablesReads DEF BackupTables
  <2>3. Goes(h, v) \/ Goes(h, Resting)
    BY <1>8, <2>1 DEF BackupTables, Ends, Failed
  <2> QED
    BY <1>1, <1>4, <2>2, <2>3
<1>9. CASE BackupKeys(h)
  <2>1. PICK v : v = [work[h] EXCEPT !.pc = "dump", !.got = @ \cup KeyRows(work[h].of)]
    OBVIOUS
  <2>2. Reader(v)
    BY <1>3, <1>9, <2>1, BackupKeysReads DEF BackupKeys
  <2>3. Goes(h, v) \/ Goes(h, Resting)
    BY <1>9, <2>1 DEF BackupKeys, Ends, Failed
  <2> QED
    BY <1>1, <1>4, <2>2, <2>3
<1>10. CASE dumpRows(h)
  <2>1. PICK v : v = [work[h] EXCEPT !.pc = "done", !.op = "workspaceBackup"]
    OBVIOUS
  <2>2. Reader(v)
    BY <1>3, <1>10, <2>1, DumpReads DEF dumpRows
  <2>3. Goes(h, v) \/ Goes(h, Resting)
    BY <1>10, <2>1 DEF dumpRows, Ends, Failed
  <2> QED
    BY <1>1, <1>4, <2>2, <2>3
<1> QED
  BY <1>1, <1>2, <1>5, <1>6, <1>7, <1>8, <1>9, <1>10

-----------------------------------------------------------------------------
(* The system, seen by the readers.                                          *)

\* A handler of one statement adds a row that names what is there, or revokes a key.
LEMMA RowHandlersGrow ==
  ASSUME NEW user, RowHandlers(user)
  PROVE  RowsStep
<1>1. CASE listCustomers \/ listAnnotations(user) \/ \E c \in Customers : listWebhooks(c)
  BY <1>1 DEF listCustomers, listAnnotations, listWebhooks, rowVars, RowsStep
<1>2. CASE \E c \in Customers : createCustomer(c) \/ createWebhook(c)
  BY <1>2 DEF createCustomer, createWebhook, RowsStep
<1>3. ASSUME NEW c \in Customers, createAPIKey(c) PROVE RowsStep
  <2>1. UNCHANGED <<conns, tables>> /\ (UNCHANGED apiKeys \/ CreateAPIKey(c))
    BY <1>3 DEF createAPIKey, rowVars
  <2> QED
    BY <2>1 DEF RowsStep
<1>4. ASSUME NEW c \in Customers, NEW kind \in Kinds, NEW name \in Names, createConnection(c, kind, name) PROVE RowsStep
  <2>1. PICK row : row = [customer |-> c, kind |-> kind, name |-> name]
    OBVIOUS
  <2>2. UNCHANGED <<apiKeys, tables>> /\ (UNCHANGED conns \/ CreateConnection(row))
    BY <1>4, <2>1 DEF createConnection
  <2>3. row \in [customer : Customers, kind : Kinds, name : Names]
    BY <2>1
  <2> QED
    BY <2>2, <2>3 DEF RowsStep
<1>5. CASE \E conn \in ConnIds : testConnection(conn)
  BY <1>5 DEF testConnection, rowVars, RowsStep
<1>6. ASSUME NEW conn, NEW t \in Tables, createSyncedTable(conn, t) PROVE RowsStep
  <2>1. UNCHANGED <<apiKeys, conns>> /\ (UNCHANGED tables \/ (conn \in DOMAIN conns /\ UpsertSyncedTable(conn, t)))
    BY <1>6 DEF createSyncedTable
  <2> QED
    BY <2>1 DEF RowsStep
<1>7. ASSUME NEW k, revokeAPIKey(k) PROVE RowsStep
  <2>1. UNCHANGED <<conns, tables>> /\ (UNCHANGED apiKeys \/ RevokeAPIKey(k))
    BY <1>7 DEF revokeAPIKey, rowVars
  <2> QED
    BY <2>1 DEF RowsStep
<1>8. CASE \E slug \in Users, t \in Tables, on \in {"change", "any"} : createLineageWatch(user, slug, t, on)
  BY <1>8 DEF createLineageWatch, RowsStep
<1>9. CASE \E slug \in Users \cup {None} : listLineageWatches(user, slug)
  BY <1>9 DEF listLineageWatches, rowVars, RowsStep
<1>10. CASE \E id \in 1 .. MaxCalls : deleteLineageWatch(user, id) \/ deleteWebhook(id)
  BY <1>10 DEF deleteLineageWatch, deleteWebhook, RowsStep
<1>11. CASE \E body \in Customers \cup {None}, author \in Authors \cup {None} : createAnnotation(user, body, author)
  BY <1>11 DEF createAnnotation, RowsStep
<1> QED
  BY <1>1, <1>2, <1>3, <1>4, <1>5, <1>6, <1>7, <1>8, <1>9, <1>10, <1>11 DEF RowHandlers

\* Whatever handler a request reaches adds rows or is a statement of a reader.
LEMMA HandleReads ==
  ASSUME ReadersInv, NEW user, NEW bypass, Handle(user, bypass)
  PROVE  RowsStep /\ WorkStep
<1>1. RowsStay => RowsStep
  BY DEF RowsStay, RowsStep
<1>2. UNCHANGED work => WorkStep
  BY DEF WorkStep
<1>3. Idle \subseteq Handlers
  BY DEF Idle, Free
<1>4. CASE UNCHANGED <<work, gateVars, tokens>> /\ RowHandlers(user)
  BY <1>2, <1>4, RowHandlersGrow
<1>5. ASSUME NEW h \in Idle, NEW c \in Customers, syncDAG(h, c) \/ workspaceBackup(h, c) PROVE RowsStep /\ WorkStep
  BY <1>1, <1>3, <1>5, DagReads, BackupReads
<1>6. ASSUME NEW h \in Idle, NEW id, deleteAnnotation(h, user, bypass, id) PROVE RowsStep /\ WorkStep
  BY <1>1, <1>3, <1>6, AuthorReads
<1>7. ASSUME NEW h \in Idle \cup {x \in Handlers : work[x].pc = "paging"}, NEW limit \in 0 .. MaxPage + 1, NEW of,
             listAPIKeys(h, of, limit) \/ listConnections(h, of, limit) \/ listSyncedTables(h, of, limit)
      PROVE  RowsStep /\ WorkStep
  <2>1. PICK op \in ListOps : Page(h, op, of, limit)
    BY <1>7 DEF listAPIKeys, listConnections, listSyncedTables, ListOps
  <2>2. h \in Handlers
    BY <1>3
  <2> QED
    BY <1>1, <2>1, <2>2, PageReads
<1>8. CASE UNCHANGED <<workspaceVars, apiKeys>>
  <2>1. UNCHANGED <<rowVars, work>>
    BY <1>8 DEF workspaceVars
  <2>2. RowsStay /\ UNCHANGED work
    BY <1>8, <2>1 DEF rowVars, RowsStay
  <2> QED
    BY <1>1, <1>2, <2>2
<1>9. CASE UNCHANGED <<workspaceVars, gateVars>> /\ (refresh(user) \/ \E k \in 1 .. Len(apiKeys) + 1 : login(k))
  BY <1>8, <1>9 DEF refresh, login
<1> QED
  BY <1>4, <1>5, <1>6, <1>7, <1>8, <1>9 DEF Handle, RowHandlers

\* A step of the system keeps every reader's place.
LEMMA ReadersPreserved == ReadersInv /\ [Next]_vars => ReadersInv'
<1> SUFFICES ASSUME ReadersInv, [Next]_vars PROVE RowsStep /\ WorkStep
  BY ReadersStep
<1>1. RowsStay => RowsStep
  BY DEF RowsStay, RowsStep
<1>2. ASSUME UNCHANGED <<workspaceVars, apiKeys>> PROVE RowsStep /\ WorkStep
  <2>1. UNCHANGED <<rowVars, work>>
    BY <1>2 DEF workspaceVars
  <2>2. RowsStay /\ UNCHANGED work
    BY <1>2, <2>1 DEF rowVars, RowsStay
  <2> QED
    BY <1>1, <2>2 DEF WorkStep
<1>3. CASE UNCHANGED vars
  BY <1>2, <1>3 DEF vars, admissionVars
<1>4. CASE Clock /\ UNCHANGED <<admissionVars, workspaceVars, gateVars>>
  BY <1>2, <1>4 DEF admissionVars
<1>5. CASE cors /\ UNCHANGED <<workspaceVars, gateVars>>
  BY <1>2, <1>5 DEF cors, admissionVars
<1>6. ASSUME NEW r \in Requests, TurnedAway(r), UNCHANGED <<workspaceVars, gateVars>> PROVE RowsStep /\ WorkStep
  BY <1>2, <1>6 DEF TurnedAway
<1>7. ASSUME NEW r \in Requests, health, UNCHANGED <<workspaceVars, gateVars>> PROVE RowsStep /\ WorkStep
  BY <1>2, <1>7 DEF health
<1>8. ASSUME NEW r \in Requests, Handle(UserID(r), r.bypass) PROVE RowsStep /\ WorkStep
  BY <1>8, HandleReads
<1>9. CASE Continue /\ UNCHANGED <<admissionVars, gateVars>>
  BY <1>1, <1>9, ContinueReads
<1>10. CASE \E c \in Customers, cost \in Costs \ {0} : Charge(c, cost)
  BY <1>2, <1>10 DEF Charge, admissionVars
<1> QED
  BY <1>3, <1>4, <1>5, <1>6, <1>7, <1>8, <1>9, <1>10 DEF Next

\* The last table in the order of schema and name is one of the tables.
LEMMA LastTable == Max(Tables) \in Tables
<1>1. Tables \in SUBSET Nat /\ IsFiniteSet(Tables) /\ Tables # {}
  BY WorkspaceAssumption
<1>2. PICK L : Lists(L, Tables) /\ \A i, j \in DOMAIN L : i < j => L[i] < L[j]
  BY <1>1, AscendingLists
<1>3. /\ Len(L) \in Nat /\ DOMAIN L = 1 .. Len(L) /\ Tables = {L[i] : i \in DOMAIN L}
      /\ \A i \in DOMAIN L : L[i] \in Nat
  <2>1. L \in Seq(Tables) /\ DOMAIN L = 1 .. Len(L) /\ ToSet(L) = Tables
    BY <1>2 DEF Lists
  <2>2. Len(L) \in Nat /\ \A i \in DOMAIN L : L[i] \in Tables
    BY <2>1
  <2>3. Tables = {L[i] : i \in DOMAIN L}
    BY <2>1 DEF ToSet
  <2> QED
    BY <1>1, <2>1, <2>2, <2>3
<1>4. Len(L) \in DOMAIN L
  BY <1>1, <1>3
<1>5. \A i \in DOMAIN L : L[Len(L)] >= L[i]
  <2> SUFFICES ASSUME NEW i \in DOMAIN L PROVE L[Len(L)] >= L[i]
    OBVIOUS
  <2>1. L[i] \in Nat /\ L[Len(L)] \in Nat
    BY <1>3, <1>4
  <2>2. i = Len(L) \/ L[i] < L[Len(L)]
    BY <1>2, <1>3, <1>4
  <2> QED
    BY <2>1, <2>2
<1>6. \E x \in Tables : \A y \in Tables : x >= y
  BY <1>3, <1>4, <1>5
<1> QED
  BY <1>6 DEF Max

\* No reader has begun.
LEMMA ReadersInit == Init => ReadersInv
<1> SUFFICES ASSUME Init PROVE ReadersInv
  OBVIOUS
<1>1. apiKeys \in Seq([customer : Customers, revoked : BOOLEAN])
  BY DEF Init, AdmissionInit
<1> DEFINE RowsTyped == conns \in Seq([customer : Customers, kind : Kinds, name : Names]) /\ tables \subseteq [conn : DOMAIN conns, name : Tables]
<1>2. RowsTyped
  <2>1. CASE conns = <<>> /\ tables = {}
    BY <2>1
  <2>2. ASSUME NEW c \in Customers, NEW k \in Kinds,
               conns = <<[customer |-> c, kind |-> k, name |-> CHOOSE n \in Names : TRUE]>>,
               tables = {[conn |-> 1, name |-> Max(Tables)]}
        PROVE  RowsTyped
    <3>1. PICK n \in Names : n = CHOOSE m \in Names : TRUE
      BY WorkspaceAssumption
    <3>2. PICK row \in [customer : Customers, kind : Kinds, name : Names] : row = [customer |-> c, kind |-> k, name |-> n]
      OBVIOUS
    <3>3. conns = <<row>>
      BY <2>2, <3>1, <3>2
    <3>4. conns \in Seq([customer : Customers, kind : Kinds, name : Names]) /\ 1 \in DOMAIN conns
      BY <3>3
    <3> QED
      BY <2>2, <3>4, LastTable
  <2> QED
    BY <2>1, <2>2 DEF Init, WorkspaceInit
<1>3. work = [h \in Handlers |-> Resting]
  BY DEF Init, WorkspaceInit
<1>4. \A h \in Handlers : Reader(work[h])
  BY <1>3, RestingReads
<1>5. work = [h \in Handlers |-> work[h]]
  BY <1>3
<1> QED
  BY <1>1, <1>2, <1>4, <1>5 DEF ReadersInv, RowsOK

\* Every reader, at every statement, lacks only what its later statements still read.
THEOREM ReadersInductive == Spec => []ReadersInv
BY ReadersInit, ReadersPreserved, PTL DEF Spec

\* A reader that is done lacks nothing.
LEMMA ReadersDone == ReadersInv => ReadersMissNothing
<1> SUFFICES ASSUME ReadersInv, NEW h \in Handlers, work[h].pc = "done"
             PROVE  /\ work[h].must \subseteq work[h].got
                    /\ work[h].got \subseteq
                         CASE work[h].op = "syncDAG" -> NodeRows(work[h].of) \cup EdgeRows(work[h].of)
                           [] work[h].op = "workspaceBackup" -> WorkspaceRows(work[h].of)
                           [] OTHER -> ToSet(Listed(work[h].op, work[h].of))
  BY DEF ReadersMissNothing
<1>1. PICK w : w = work[h]
  OBVIOUS
<1>2. Given(w)
  BY <1>1 DEF ReadersInv, Reader
<1>3. /\ w.must \subseteq w.got
      /\ w.got \subseteq CASE w.op = "syncDAG" -> NodeRows(w.of) \cup EdgeRows(w.of)
                           [] w.op = "workspaceBackup" -> WorkspaceRows(w.of)
                           [] OTHER -> ToSet(Listed(w.op, w.of))
  BY <1>2 DEF Given, ListOps
<1> QED
  BY <1>1, <1>3

\* Every row that was there when a reader began is in what it was given, and nothing of
\* another customer's is, whatever the other requests add between its statements.
THEOREM ReadersAreGivenAll == Spec => []ReadersMissNothing
BY ReadersInductive, ReadersDone, PTL

=============================================================================
