------------------------------ MODULE PgwireServer ------------------------------
(***************************************************************************)
(* The Postgres-wire server of internal/protocols/pgwire/session.go: the    *)
(* accept loop with its connection semaphore and wait group, the drain on   *)
(* shutdown, the cancel-key registry, and for every session the context     *)
(* that a CancelRequest cancels and the contexts of its statements.         *)
(*                                                                          *)
(* A connection c of Conns is one goroutine running serveConn.  What a      *)
(* statement computes is left to QueryHandler; here it is something that    *)
(* starts, has a context, writes to its client, and returns by itself or    *)
(* because the context is done.                                             *)
(***************************************************************************)
EXTENDS Naturals, FiniteSets

CONSTANTS
  Conns,        \* client connections; each is used once
  NumPIDs,      \* backend pids are 0 .. NumPIDs-1          (2^31 in the code)
  SecretSpan,   \* secrets are 0 .. SecretSpan-1; the packing factor (2^32)
  MaxInflight,  \* capacity of Server.sem
  MaxStmts,     \* bound: statements one connection starts
  None          \* Go's nil

PIDs == 0 .. NumPIDs - 1
Secrets == 0 .. SecretSpan - 1
Keys == PIDs \X Secrets

ASSUME ConnsAssumption == IsFiniteSet(Conns) /\ None \notin Conns
ASSUME KeysAssumption == /\ NumPIDs \in Nat \ {0}
                         /\ SecretSpan \in Nat \ {0}
                         /\ None \notin Keys
ASSUME LimitsAssumption == MaxInflight \in Nat \ {0} /\ MaxStmts \in Nat

VARIABLES
  server,     \* ListenAndServe: "serving", "draining", "drained", "forced", "exited"
  ctxDone,    \* the server context is cancelled (SIGTERM)
  lnOpen,     \* the listener accepts
  sem,        \* tokens in Server.sem
  wg,         \* counter of Server.wg
  phase,      \* where each connection's goroutine is
  key,        \* the (pid, secret) of the session's BackendKeyData
  cancelFns,  \* Server.cancelFns: packed key -> the session whose cancel it holds
  sessCtx,    \* sess.ctx: "none", "live", "cancelled"
  target,     \* the cancel function a CancelRequest connection looked up
  watched,    \* the running statement's mergeCtx goroutine is still waiting
  cancelled,  \* the running statement's merged context was cancelled by it
  expired,    \* the running statement's 30 s deadline has passed
  stalled,    \* the running statement is in a write to a client that does not read
  parked,     \* mergeCtx goroutines of finished statements, still waiting
  nstmts,     \* statements started
  requested,  \* history: the keys that CancelRequests have carried
  struck      \* history: sess.ctx was cancelled during the running statement

listenVars == <<server, ctxDone, lnOpen, sem, wg>>
cancelVars == <<key, cancelFns, sessCtx, target, requested>>
stmtVars == <<watched, cancelled, expired, stalled, parked, nstmts, struck>>
vars == <<listenVars, phase, cancelVars, stmtVars>>

-----------------------------------------------------------------------------

\* The packing with the secret dropped: two sessions with one pid share an entry.
cancelKeyPidOnly(pid, secret) == pid * SecretSpan

\* uint64(uint32(pid))<<32 | uint64(uint32(secret))
cancelKey(pid, secret) == pid * SecretSpan + secret

Packed(k) == cancelKey(k[1], k[2])
PackedKeys == 0 .. NumPIDs * SecretSpan - 1

InLoop == {"idle", "simple", "extended"}       \* inside runQueryLoop
InStmt == {"simple", "extended"}               \* inside the QueryHandler
Serving == {"startup", "firing"} \cup InLoop   \* inside serveConn
Holding == Serving \cup {"closing"}            \* token in Server.sem
Counted == Holding \cup {"released"}           \* counted by Server.wg
Phases == {"absent", "backlog", "rejected", "done"} \cup Counted

Goto(c, from, to) == phase[c] = from /\ phase' = [phase EXCEPT ![c] = to]

\* The context a statement runs under: a child of the server context with a
\* deadline, and for simple queries cancelled by mergeCtx.
StmtCtxDone(c) == ctxDone \/ cancelled[c] \/ expired[c]

-----------------------------------------------------------------------------

Init ==
  /\ server = "serving" /\ ctxDone = FALSE /\ lnOpen = TRUE
  /\ sem = 0 /\ wg = 0
  /\ phase = [c \in Conns |-> "absent"]
  /\ key = [c \in Conns |-> None]
  /\ cancelFns = [k \in PackedKeys |-> None]
  /\ sessCtx = [c \in Conns |-> "none"]
  /\ target = [c \in Conns |-> None]
  /\ watched = [c \in Conns |-> FALSE]
  /\ cancelled = [c \in Conns |-> FALSE]
  /\ expired = [c \in Conns |-> FALSE]
  /\ stalled = [c \in Conns |-> FALSE]
  /\ parked = [c \in Conns |-> 0]
  /\ nstmts = [c \in Conns |-> 0]
  /\ requested = {}
  /\ struck = [c \in Conns |-> FALSE]

-----------------------------------------------------------------------------
(* The accept loop and shutdown.                                            *)

\* A client connects: the kernel queues the connection for Accept.
Dial(c) ==
  /\ lnOpen
  /\ Goto(c, "absent", "backlog")
  /\ UNCHANGED <<listenVars, cancelVars, stmtVars>>

\* wg.Add(1) moved into the goroutine: the connection is not counted when it starts.
AcceptUncounted(c) ==
  /\ server = "serving" /\ lnOpen
  /\ sem < MaxInflight
  /\ Goto(c, "backlog", "startup")
  /\ sem' = sem + 1
  /\ UNCHANGED <<server, ctxDone, lnOpen, wg, cancelVars, stmtVars>>

\* Accept returns c and the semaphore has room.  One goroutine acquires, counts
\* and spawns, and nobody else looks at wg before it drains, so this is one step.
Accept(c) ==
  /\ server = "serving" /\ lnOpen
  /\ sem < MaxInflight
  /\ Goto(c, "backlog", "startup")
  /\ sem' = sem + 1
  /\ wg' = wg + 1
  /\ UNCHANGED <<server, ctxDone, lnOpen, cancelVars, stmtVars>>

\* Accept returns c over MaxInflight: the connection is closed unserved.
Reject(c) ==
  /\ server = "serving" /\ lnOpen
  /\ sem = MaxInflight
  /\ Goto(c, "backlog", "rejected")
  /\ UNCHANGED <<listenVars, cancelVars, stmtVars>>

\* SIGTERM cancels the server context.
Signal ==
  /\ ~ctxDone
  /\ ctxDone' = TRUE
  /\ UNCHANGED <<server, lnOpen, sem, wg, phase, cancelVars, stmtVars>>

\* The goroutine waiting on ctx.Done closes the listener; queued connections are reset.
CloseListener ==
  /\ ctxDone /\ lnOpen
  /\ lnOpen' = FALSE
  /\ phase' = [c \in Conns |-> IF phase[c] = "backlog" THEN "rejected" ELSE phase[c]]
  /\ UNCHANGED <<server, ctxDone, sem, wg, cancelVars, stmtVars>>

\* Accept fails, for any reason, with the context done: the loop starts to wait for wg.
StartDrain ==
  /\ server = "serving" /\ ctxDone
  /\ server' = "draining"
  /\ UNCHANGED <<ctxDone, lnOpen, sem, wg, phase, cancelVars, stmtVars>>

DrainDone ==
  /\ server = "draining" /\ wg = 0
  /\ server' = "drained"
  /\ UNCHANGED <<ctxDone, lnOpen, sem, wg, phase, cancelVars, stmtVars>>

\* The drain without the DrainGrace timer never gives up on a connection.
DrainTimeoutMissing == FALSE /\ UNCHANGED vars

\* DrainGrace elapses first: ListenAndServe returns with sessions still open.
DrainTimeout ==
  /\ server = "draining"
  /\ server' = "forced"
  /\ UNCHANGED <<ctxDone, lnOpen, sem, wg, phase, cancelVars, stmtVars>>

\* main closes the handler and the database and returns: the process is gone.
Exit ==
  /\ server \in {"drained", "forced"}
  /\ server' = "exited"
  /\ UNCHANGED <<ctxDone, lnOpen, sem, wg, phase, cancelVars, stmtVars>>

-----------------------------------------------------------------------------
(* serveConn: startup, authentication, CancelRequest, and the exit of the   *)
(* goroutine.  Nothing here runs once the process is gone.                  *)

Running == server # "exited"

\* The startup read, the TLS handshake, the password message or Authenticate fails.
StartupFails(c) ==
  /\ Running
  /\ Goto(c, "startup", "closing")
  /\ UNCHANGED <<listenVars, cancelVars, stmtVars>>

\* crypto/rand: a key no session has been given.
FreshKey(k) == \A c \in Conns : key[c] # k

\* registerCancelKey with the fresh session context.
registerCancelKey(c, k) ==
  /\ key' = [key EXCEPT ![c] = k]
  /\ cancelFns' = [cancelFns EXCEPT ![Packed(k)] = c]
  /\ sessCtx' = [sessCtx EXCEPT ![c] = "live"]

\* Authenticated: the key is registered and sent, the session waits for frames.
CompleteStartup(c, k) ==
  /\ Running
  /\ FreshKey(k)
  /\ Goto(c, "startup", "idle")
  /\ registerCancelKey(c, k)
  /\ UNCHANGED <<listenVars, target, requested, stmtVars>>

\* BackendKeyData or ReadyForQuery cannot be written: the key stays registered.
CompleteStartupFails(c, k) ==
  /\ Running
  /\ FreshKey(k)
  /\ Goto(c, "startup", "closing")
  /\ registerCancelKey(c, k)
  /\ UNCHANGED <<listenVars, target, requested, stmtVars>>

\* fireCancel that removes the entry it finds: a second CancelRequest is lost.
FireLookupOnce(c, k) ==
  /\ Running
  /\ phase[c] = "startup"
  /\ requested' = requested \cup {k}
  /\ target' = [target EXCEPT ![c] = cancelFns[Packed(k)]]
  /\ cancelFns' = [cancelFns EXCEPT ![Packed(k)] = None]
  /\ phase' = [phase EXCEPT ![c] = IF target'[c] = None THEN "closing" ELSE "firing"]
  /\ UNCHANGED <<listenVars, key, sessCtx, stmtVars>>

\* fireCancel, first half: the CancelRequest on connection c looks the key up.
FireLookup(c, k) ==
  /\ Running
  /\ phase[c] = "startup"
  /\ requested' = requested \cup {k}
  /\ target' = [target EXCEPT ![c] = cancelFns[Packed(k)]]
  /\ phase' = [phase EXCEPT ![c] = IF target'[c] = None THEN "closing" ELSE "firing"]
  /\ UNCHANGED <<listenVars, key, cancelFns, sessCtx, stmtVars>>

\* fireCancel, second half: outside the lock, the cancel function is called.
FireInvoke(c) ==
  /\ Running
  /\ Goto(c, "firing", "closing")
  /\ sessCtx' = [sessCtx EXCEPT ![target[c]] = "cancelled"]
  /\ struck' = [struck EXCEPT ![target[c]] = @ \/ phase[target[c]] \in InStmt]
  /\ UNCHANGED <<listenVars, key, cancelFns, target, requested,
                 watched, cancelled, expired, stalled, parked, nstmts>>

\* The token is not given back on this path out of serveConn.
ReleaseTokenForgotten(c) ==
  /\ Running
  /\ Goto(c, "closing", "released")
  /\ UNCHANGED <<listenVars, cancelVars, stmtVars>>

\* serveConn has returned: first the token, then the wait group (deferred calls
\* run last to first).
ReleaseToken(c) ==
  /\ Running
  /\ Goto(c, "closing", "released")
  /\ sem' = sem - 1
  /\ UNCHANGED <<server, ctxDone, lnOpen, wg, cancelVars, stmtVars>>

WgDone(c) ==
  /\ Running
  /\ Goto(c, "released", "done")
  /\ wg' = wg - 1
  /\ UNCHANGED <<server, ctxDone, lnOpen, sem, cancelVars, stmtVars>>

-----------------------------------------------------------------------------
(* runQueryLoop: statements and the two ways out.                           *)

\* A statement starts with a fresh deadline; only a simple query is watched for
\* a cancellation of sess.ctx.
StartStmt(c, kind, watch) ==
  /\ Running
  /\ nstmts[c] < MaxStmts
  /\ Goto(c, "idle", kind)
  /\ nstmts' = [nstmts EXCEPT ![c] = @ + 1]
  /\ watched' = [watched EXCEPT ![c] = watch]
  /\ cancelled' = [cancelled EXCEPT ![c] = FALSE]
  /\ expired' = [expired EXCEPT ![c] = FALSE]
  /\ struck' = [struck EXCEPT ![c] = FALSE]
  /\ UNCHANGED <<listenVars, cancelVars, stalled, parked>>

\* The merged context is only derived from the server context.
dispatchUnmerged(c) == StartStmt(c, "simple", FALSE)

\* Query: WithTimeout(mergeCtx(ctx, sess.ctx), 30s).
dispatch(c) == StartStmt(c, "simple", TRUE)

\* Execute: WithTimeout(ctx, 30s).
handleExecute(c) == StartStmt(c, "extended", FALSE)

\* The goroutine of mergeCtx wakes: sess.ctx is done (it cancels the merged
\* context) or the server context is (the merged context is done already); when
\* both are, the select takes either.
WatcherFires(c) ==
  /\ Running
  /\ watched[c]
  /\ watched' = [watched EXCEPT ![c] = FALSE]
  /\ \/ ctxDone /\ UNCHANGED cancelled
     \/ sessCtx[c] = "cancelled" /\ cancelled' = [cancelled EXCEPT ![c] = TRUE]
  /\ UNCHANGED <<listenVars, phase, cancelVars, expired, stalled, parked, nstmts, struck>>

\* The goroutine of an earlier statement of c wakes and ends.
ParkedWatcherEnds(c) ==
  /\ Running
  /\ parked[c] > 0
  /\ ctxDone \/ sessCtx[c] = "cancelled"
  /\ parked' = [parked EXCEPT ![c] = @ - 1]
  /\ UNCHANGED <<listenVars, phase, cancelVars, watched, cancelled, expired, stalled, nstmts, struck>>

DeadlineMissing(c) == FALSE /\ UNCHANGED vars

\* Thirty seconds have passed.
Deadline(c) ==
  /\ Running
  /\ phase[c] \in InStmt /\ ~expired[c]
  /\ expired' = [expired EXCEPT ![c] = TRUE]
  /\ UNCHANGED <<listenVars, phase, cancelVars, watched, cancelled, stalled, parked, nstmts, struck>>

\* The client stops reading and the socket's buffer fills: a write of the handler
\* does not return, whatever happens to its context, for no connection is ever
\* given a deadline.  It returns when the client reads again or is gone.
ClientStalls(c) ==
  /\ Running
  /\ phase[c] \in InStmt /\ ~stalled[c]
  /\ stalled' = [stalled EXCEPT ![c] = TRUE]
  /\ UNCHANGED <<listenVars, phase, cancelVars, watched, cancelled, expired, parked, nstmts, struck>>

ClientReads(c) ==
  /\ Running
  /\ stalled[c]
  /\ stalled' = [stalled EXCEPT ![c] = FALSE]
  /\ UNCHANGED <<listenVars, phase, cancelVars, watched, cancelled, expired, parked, nstmts, struck>>

\* The handler returns, the response is written and the loop reads again.  The
\* merged context is not cancelled on the way: its goroutine goes on waiting.
EndStmt(c) ==
  /\ Running
  /\ phase[c] \in InStmt /\ ~stalled[c]
  /\ phase' = [phase EXCEPT ![c] = "idle"]
  /\ parked' = [parked EXCEPT ![c] = IF watched[c] THEN @ + 1 ELSE @]
  /\ watched' = [watched EXCEPT ![c] = FALSE]
  /\ cancelled' = [cancelled EXCEPT ![c] = FALSE]
  /\ expired' = [expired EXCEPT ![c] = FALSE]
  /\ struck' = [struck EXCEPT ![c] = FALSE]
  /\ UNCHANGED <<listenVars, cancelVars, stalled, nstmts>>

\* The statement finishes by itself.
StmtReturns(c) == ~StmtCtxDone(c) /\ EndStmt(c)

\* The statement returns because its context is done.
StmtAborted(c) == StmtCtxDone(c) /\ EndStmt(c)

\* Terminate that forgets to call sess.ctxCancel.
TerminateUncancelled(c) ==
  /\ Running
  /\ Goto(c, "idle", "closing")
  /\ cancelFns' = [cancelFns EXCEPT ![Packed(key[c])] = None]
  /\ UNCHANGED <<listenVars, key, sessCtx, target, requested, stmtVars>>

\* Terminate: the key is unregistered and the session context cancelled.
Terminate(c) ==
  /\ Running
  /\ Goto(c, "idle", "closing")
  /\ cancelFns' = [cancelFns EXCEPT ![Packed(key[c])] = None]
  /\ sessCtx' = [sessCtx EXCEPT ![c] = "cancelled"]
  /\ UNCHANGED <<listenVars, key, target, requested, stmtVars>>

\* ReadFrame fails (end of file, reset, malformed length): the loop returns and
\* leaves the key and the session context as they are.
ReadFails(c) ==
  /\ Running
  /\ Goto(c, "idle", "closing")
  /\ UNCHANGED <<listenVars, cancelVars, stmtVars>>

-----------------------------------------------------------------------------

Next ==
  \/ Signal \/ CloseListener \/ StartDrain \/ DrainDone \/ DrainTimeout \/ Exit
  \/ \E c \in Conns :
       \/ Dial(c) \/ Accept(c) \/ Reject(c)
       \/ StartupFails(c) \/ FireInvoke(c) \/ ReleaseToken(c) \/ WgDone(c)
       \/ \E k \in Keys : \/ CompleteStartup(c, k)
                          \/ CompleteStartupFails(c, k)
                          \/ FireLookup(c, k)
       \/ dispatch(c) \/ handleExecute(c)
       \/ WatcherFires(c) \/ ParkedWatcherEnds(c) \/ Deadline(c)
       \/ ClientStalls(c) \/ ClientReads(c)
       \/ StmtReturns(c) \/ StmtAborted(c)
       \/ Terminate(c) \/ ReadFails(c)

SafetySpec == Init /\ [][Next]_vars

\* What the runtime guarantees: timers fire, runnable goroutines run, and a
\* statement whose context is done returns unless it is stuck in a write.  Clients
\* owe nothing: one that has stopped reading need not read again.
Fairness ==
  /\ WF_vars(CloseListener) /\ WF_vars(~lnOpen /\ StartDrain)
  /\ WF_vars(DrainTimeout) /\ WF_vars(Exit)
  /\ \A c \in Conns :
       /\ WF_vars(Deadline(c)) /\ WF_vars(StmtAborted(c))
       /\ WF_vars(WatcherFires(c)) /\ WF_vars(ParkedWatcherEnds(c))
       /\ WF_vars(FireInvoke(c)) /\ WF_vars(ReleaseToken(c)) /\ WF_vars(WgDone(c))

Spec == SafetySpec /\ Fairness

-----------------------------------------------------------------------------
(* Properties.                                                              *)

\* Every variable keeps its type.
TypeOK ==
  /\ server \in {"serving", "draining", "drained", "forced", "exited"}
  /\ ctxDone \in BOOLEAN /\ lnOpen \in BOOLEAN
  /\ sem \in Nat /\ wg \in Nat
  /\ phase \in [Conns -> Phases]
  /\ key \in [Conns -> Keys \cup {None}]
  /\ cancelFns \in [PackedKeys -> Conns \cup {None}]
  /\ sessCtx \in [Conns -> {"none", "live", "cancelled"}]
  /\ target \in [Conns -> Conns \cup {None}]
  /\ watched \in [Conns -> BOOLEAN]
  /\ cancelled \in [Conns -> BOOLEAN]
  /\ expired \in [Conns -> BOOLEAN]
  /\ stalled \in [Conns -> BOOLEAN]
  /\ parked \in [Conns -> Nat]
  /\ nstmts \in [Conns -> Nat]
  /\ requested \subseteq Keys
  /\ struck \in [Conns -> BOOLEAN]

\* The semaphore holds exactly one token per connection being served, whatever
\* way connections end, and never more than MaxInflight; the wait group counts
\* exactly the goroutines that have not finished.  A token lost on one exit path
\* would shrink the server for good; one returned twice would let it overrun.
TokensAccounted ==
  /\ sem = Cardinality({c \in Conns : phase[c] \in Holding})
  /\ sem <= MaxInflight
  /\ wg = Cardinality({c \in Conns : phase[c] \in Counted})

\* When ListenAndServe reports a complete drain, no connection goroutine is left
\* that could still use the handler and the database main is about to close,
\* although connections were being accepted until the listener closed.
CleanDrain ==
  server = "drained" => \A c \in Conns : phase[c] \notin Counted

\* Every session in its query loop can be cancelled: the registry entry of its
\* key is its own, whatever other sessions registered, cancelled or unregistered.
LiveSessionReachable ==
  \A c \in Conns : phase[c] \in InLoop =>
    /\ key[c] # None
    /\ cancelFns[Packed(key[c])] = c

\* While a session is registered, its context is cancelled only if some
\* CancelRequest carried exactly its pid and secret: nobody is hit by a request
\* meant for another session.
CancelOnlyByOwnKey ==
  \A c \in Conns : sessCtx[c] = "cancelled" =>
    key[c] \in requested \/ cancelFns[Packed(key[c])] # c

\* A CancelRequest that arrives while a simple query runs is never lost: the
\* query's context is done, or the goroutine of mergeCtx is still there to cancel it.
CancelNotLost ==
  \A c \in Conns : phase[c] = "simple" /\ struck[c] => StmtCtxDone(c) \/ watched[c]

\* Every statement ends, whatever the backend does, because its context has a
\* deadline; only its own client can keep it, by not reading what it is sent, and
\* a statement whose client reads again ends.
StatementEnds ==
  \A c \in Conns : phase[c] \in InStmt ~> (phase[c] \notin InStmt \/ stalled[c] \/ ~Running)

\* After SIGTERM the process ends, however many idle sessions stay connected.
ShutdownCompletes == ctxDone ~> ~Running

\* Once a session is out of the registry, the mergeCtx goroutines its statements
\* left behind end.
UnregisteredSessionQuiesces ==
  \A c \in Conns :
    (key[c] # None /\ cancelFns[Packed(key[c])] # c) ~> (parked[c] = 0 \/ ~Running)
=============================================================================
