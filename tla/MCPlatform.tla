------------------------------ MODULE MCPlatform ------------------------------
(* Model-checking instance of Platform. *)
EXTENDS Platform, Integers

MCEdges == {<<1, 2>>}

(* a budget that blocks below its cap *)
MCBudgets == {[cap |-> 2, soft |-> 25, hard |-> 50]}

(* States are told apart by what can matter to a later step or to a property. *)
(* Of a bucket that is what a request would find in it and how far the worst  *)
(* window up to now has got (Drawn): a request adds a token to every window   *)
(* that is open, and a tick takes the same refill from each.  The last answer *)
(* does not matter, nor whose note it is, nor a token that has expired; and   *)
(* of the gates' rows, the watches and the webhooks, which only their own     *)
(* handlers read, whether there are any: whatever these find, a request comes *)
(* to the same for the rest of the state.                                     *)
Drawn(b) == Max({admitted[b][now] - Before(b, from) - rps * (now - from) : from \in 0 .. now})
NoCharge == [c \in Customers |-> [n |-> 0, sum |-> 0]]
NoQuota == [p \in Customers \X Users |-> None]
Told == <<calls, faults, now, {<<b, Refilled(Bucket(b)), Drawn(b)>> : b \in Buckets},
          apiKeys, {t \in tokens : now < t.exp},
          customers, conns, tables, {<<n.id, n.author>> : n \in notes}, work,
          charged = NoCharge, quota = NoQuota, watches = {}, hooks = {}>>
=============================================================================
