------------------------- MODULE PgwireServer_proofs -------------------------
(***************************************************************************)
(* Proofs about PgwireServer for every number of connections, keys and      *)
(* tokens.  The inductive invariant IInv adds to the checked properties     *)
(* what keeps them true: keys are never given twice, the registry names     *)
(* only owners, a pending cancel call was asked for by key.                 *)
(***************************************************************************)
EXTENDS PgwireServer, FiniteSetTheorems, TLAPS

\* No session has a key before completeStartup.
NoKeyBeforeStartup ==
  \A c \in Conns : phase[c] \in {"absent", "backlog", "startup"} => key[c] = None

\* No two sessions have the same key.
KeysDistinct ==
  \A c, d \in Conns : key[c] # None /\ key[c] = key[d] => c = d

\* An entry of the registry is the entry of its session's own key.
RegistryOwned ==
  \A p \in PackedKeys : cancelFns[p] # None =>
    key[cancelFns[p]] # None /\ Packed(key[cancelFns[p]]) = p

\* A session with a context has a key.
ContextHasKey == \A c \in Conns : sessCtx[c] # "none" => key[c] # None

\* A looked-up cancel function belongs to the session whose key was sent.
FiringAsked ==
  \A c \in Conns : phase[c] = "firing" =>
    /\ target[c] \in Conns
    /\ key[target[c]] \in requested

\* A simple query is watched as long as its context is not done.
SimpleWatched ==
  \A c \in Conns : phase[c] = "simple" => watched[c] \/ StmtCtxDone(c)

RegistryInv ==
  /\ NoKeyBeforeStartup /\ KeysDistinct /\ RegistryOwned /\ ContextHasKey
  /\ FiringAsked /\ LiveSessionReachable /\ CancelOnlyByOwnKey

IInv == TypeOK /\ TokensAccounted /\ CleanDrain /\ RegistryInv /\ SimpleWatched

-----------------------------------------------------------------------------
(* Lemmas about the operators.                                              *)

\* Packing pid and secret loses nothing: different keys have different entries.
LEMMA PackedInjective ==
  ASSUME NEW k \in Keys, NEW l \in Keys
  PROVE  /\ Packed(k) \in PackedKeys
         /\ Packed(k) = Packed(l) => k = l
<1> USE KeysAssumption
<1> DEFINE p == k[1]  s == k[2]  q == l[1]  t == l[2]
<1>1. /\ p \in Nat /\ s \in Nat /\ q \in Nat /\ t \in Nat
      /\ p <= NumPIDs - 1 /\ q <= NumPIDs - 1
      /\ s < SecretSpan /\ t < SecretSpan
      /\ k = <<p, s>> /\ l = <<q, t>>
  BY DEF Keys, PIDs, Secrets
<1> HIDE DEF p, s, q, t
<1>2. ASSUME NEW m \in Nat, NEW n \in Nat, m < n
      PROVE  m * SecretSpan + SecretSpan <= n * SecretSpan
  <2> DEFINE d == n - m - 1
  <2>1. d \in Nat /\ n = m + 1 + d
    BY <1>2
  <2> HIDE DEF d
  <2>2. n * SecretSpan = m * SecretSpan + SecretSpan + d * SecretSpan
    BY <2>1
  <2>3. d * SecretSpan \in Nat
    BY <2>1
  <2> QED BY <2>2, <2>3
<1>3. Packed(k) = p * SecretSpan + s /\ Packed(l) = q * SecretSpan + t
  BY DEF Packed, cancelKey, p, s, q, t
<1>4. p * SecretSpan \in Nat /\ q * SecretSpan \in Nat /\ NumPIDs * SecretSpan \in Nat
  BY <1>1
<1>5. p * SecretSpan + SecretSpan <= NumPIDs * SecretSpan
  BY <1>1, <1>2
<1>6. Packed(k) \in PackedKeys
  BY <1>1, <1>3, <1>4, <1>5 DEF PackedKeys
<1>7. ASSUME Packed(k) = Packed(l) PROVE k = l
  <2>1. ~(p < q)
    BY <1>1, <1>2, <1>3, <1>4, <1>7
  <2>2. ~(q < p)
    BY <1>1, <1>2, <1>3, <1>4, <1>7
  <2>3. p = q
    BY <1>1, <2>1, <2>2
  <2>4. s = t
    BY <1>1, <1>3, <1>4, <1>7, <2>3
  <2> QED BY <1>1, <2>3, <2>4
<1> QED BY <1>6, <1>7

\* How the number of connections in a set of phases changes when one moves.
LEMMA CountAfterMove ==
  ASSUME NEW f \in [Conns -> Phases], NEW c \in Conns, NEW v \in Phases, NEW S,
         NEW A, A = {d \in Conns : f[d] \in S},
         NEW B, B = {d \in Conns : [f EXCEPT ![c] = v][d] \in S}
  PROVE  /\ Cardinality(A) \in Nat /\ Cardinality(B) \in Nat
         /\ f[c] \notin S /\ v \in S => Cardinality(B) = Cardinality(A) + 1
         /\ f[c] \in S /\ v \notin S => Cardinality(B) = Cardinality(A) - 1
         /\ (f[c] \in S <=> v \in S) => Cardinality(B) = Cardinality(A)
<1>1. IsFiniteSet(A) /\ IsFiniteSet(B)
  BY ConnsAssumption, FS_Subset
<1>2. Cardinality(A) \in Nat /\ Cardinality(B) \in Nat
  BY <1>1, FS_CardinalityType
<1>3. ASSUME f[c] \notin S, v \in S PROVE Cardinality(B) = Cardinality(A) + 1
  <2>1. B = A \cup {c} /\ c \notin A
    BY <1>3
  <2> QED BY <1>1, <2>1, FS_AddElement
<1>4. ASSUME f[c] \in S, v \notin S PROVE Cardinality(B) = Cardinality(A) - 1
  <2>1. B = A \ {c} /\ c \in A
    BY <1>4
  <2> QED BY <1>1, <2>1, FS_RemoveElement
<1>5. ASSUME f[c] \in S <=> v \in S PROVE B = A
  BY <1>5
<1> QED BY <1>2, <1>3, <1>4, <1>5

-----------------------------------------------------------------------------
(* The accounting of tokens and goroutines.                                 *)

\* A connection that moves from one phase to another changes the two counts as
\* the accept loop and the deferred calls change the counters.
LEMMA MoveKeepsAccounts ==
  ASSUME TypeOK, TokensAccounted, NEW c \in Conns, NEW v \in Phases,
         phase' = [phase EXCEPT ![c] = v],
         sem' = IF phase[c] \notin Holding /\ v \in Holding THEN sem + 1
                ELSE IF phase[c] \in Holding /\ v \notin Holding THEN sem - 1 ELSE sem,
         wg' = IF phase[c] \notin Counted /\ v \in Counted THEN wg + 1
               ELSE IF phase[c] \in Counted /\ v \notin Counted THEN wg - 1 ELSE wg,
         sem' <= MaxInflight
  PROVE  TokensAccounted' /\ sem' \in Nat /\ wg' \in Nat
<1> DEFINE A(S) == {d \in Conns : phase[d] \in S}
           B(S) == {d \in Conns : [phase EXCEPT ![c] = v][d] \in S}
<1>1. phase \in [Conns -> Phases]
  BY DEF TypeOK
<1>2. ASSUME NEW S
      PROVE  /\ Cardinality(B(S)) \in Nat /\ Cardinality(A(S)) \in Nat
             /\ phase[c] \notin S /\ v \in S => Cardinality(B(S)) = Cardinality(A(S)) + 1
             /\ phase[c] \in S /\ v \notin S => Cardinality(B(S)) = Cardinality(A(S)) - 1
             /\ (phase[c] \in S <=> v \in S) => Cardinality(B(S)) = Cardinality(A(S))
  BY <1>1, CountAfterMove
<1>4. sem = Cardinality(A(Holding)) /\ wg = Cardinality(A(Counted))
  BY DEF TokensAccounted
<1>5. /\ {d \in Conns : phase'[d] \in Holding} = B(Holding)
      /\ {d \in Conns : phase'[d] \in Counted} = B(Counted)
  OBVIOUS
<1> HIDE DEF A, B
<1>6. sem' = Cardinality(B(Holding))
  BY <1>2, <1>4
<1>7. wg' = Cardinality(B(Counted))
  BY <1>2, <1>4
<1> QED BY <1>2, <1>5, <1>6, <1>7 DEF TokensAccounted

\* Every action leaves the counters exact and in their type.
LEMMA TokensStep ==
  ASSUME TypeOK, TokensAccounted, [Next]_vars
  PROVE  TokensAccounted' /\ sem' \in Nat /\ wg' \in Nat
<1> USE DEF Holding, Serving, InLoop, InStmt, Counted, Phases, Goto
<1>t. /\ sem \in Nat /\ wg \in Nat /\ sem <= MaxInflight /\ MaxInflight \in Nat
      /\ phase \in [Conns -> Phases]
  BY LimitsAssumption DEF TypeOK, TokensAccounted
<1>1. CASE UNCHANGED <<sem, wg, phase>>
  BY <1>t, <1>1 DEF TokensAccounted
<1>2. CASE CloseListener
  <2>1. \A c \in Conns : /\ phase'[c] \in Holding <=> phase[c] \in Holding
                         /\ phase'[c] \in Counted <=> phase[c] \in Counted
    BY <1>2, <1>t DEF CloseListener
  <2>2. /\ {c \in Conns : phase'[c] \in Holding} = {c \in Conns : phase[c] \in Holding}
        /\ {c \in Conns : phase'[c] \in Counted} = {c \in Conns : phase[c] \in Counted}
    BY <2>1
  <2>3. sem' = sem /\ wg' = wg
    BY <1>2 DEF CloseListener
  <2> QED BY <2>2, <2>3, <1>t DEF TokensAccounted
<1>3. ASSUME NEW c \in Conns, Accept(c)
      PROVE  TokensAccounted' /\ sem' \in Nat /\ wg' \in Nat
  <2>1. /\ phase' = [phase EXCEPT ![c] = "startup"] /\ phase[c] = "backlog"
        /\ sem' = sem + 1 /\ wg' = wg + 1 /\ sem' <= MaxInflight
    BY <1>3, <1>t DEF Accept
  <2> QED BY <2>1, MoveKeepsAccounts
<1>4. ASSUME NEW c \in Conns, ReleaseToken(c)
      PROVE  TokensAccounted' /\ sem' \in Nat /\ wg' \in Nat
  <2>1. /\ phase' = [phase EXCEPT ![c] = "released"] /\ phase[c] = "closing"
        /\ sem' = sem - 1 /\ wg' = wg /\ sem' <= MaxInflight
    BY <1>4, <1>t DEF ReleaseToken
  <2> QED BY <2>1, MoveKeepsAccounts
<1>5. ASSUME NEW c \in Conns, WgDone(c)
      PROVE  TokensAccounted' /\ sem' \in Nat /\ wg' \in Nat
  <2>1. /\ phase' = [phase EXCEPT ![c] = "done"] /\ phase[c] = "released"
        /\ sem' = sem /\ wg' = wg - 1 /\ sem' <= MaxInflight
    BY <1>5, <1>t DEF WgDone
  <2> QED BY <2>1, MoveKeepsAccounts
<1>6. ASSUME NEW c \in Conns, NEW u \in Phases, NEW v \in Phases,
             phase[c] = u, phase' = [phase EXCEPT ![c] = v], UNCHANGED listenVars,
             u \in Holding <=> v \in Holding, u \in Counted <=> v \in Counted
      PROVE  TokensAccounted' /\ sem' \in Nat /\ wg' \in Nat
  <2>1. sem' = sem /\ wg' = wg
    BY <1>6 DEF listenVars
  <2> QED BY <1>6, <2>1, <1>t, MoveKeepsAccounts
<1>7. ASSUME NEW c \in Conns,
             \/ Dial(c) \/ Reject(c) \/ StartupFails(c) \/ FireInvoke(c)
             \/ Terminate(c) \/ ReadFails(c) \/ dispatch(c) \/ handleExecute(c)
             \/ StmtReturns(c) \/ StmtAborted(c)
      PROVE  TokensAccounted' /\ sem' \in Nat /\ wg' \in Nat
  BY <1>6, <1>7, <1>t DEF Dial, Reject, StartupFails, FireInvoke, Terminate, ReadFails,
     dispatch, handleExecute, StartStmt, StmtReturns, StmtAborted, EndStmt
<1>8. ASSUME NEW c \in Conns, NEW k \in Keys,
             CompleteStartup(c, k) \/ CompleteStartupFails(c, k) \/ FireLookup(c, k)
      PROVE  TokensAccounted' /\ sem' \in Nat /\ wg' \in Nat
  BY <1>6, <1>8, <1>t DEF CompleteStartup, CompleteStartupFails, FireLookup
<1>9. ASSUME Signal \/ StartDrain \/ DrainDone \/ DrainTimeout \/ Exit \/ UNCHANGED vars
      PROVE  UNCHANGED <<sem, wg, phase>>
  BY <1>9 DEF Signal, StartDrain, DrainDone, DrainTimeout, Exit, vars, listenVars
<1>10. ASSUME NEW c \in Conns, \/ WatcherFires(c) \/ ParkedWatcherEnds(c) \/ Deadline(c)
                               \/ ClientStalls(c) \/ ClientReads(c)
       PROVE  UNCHANGED <<sem, wg, phase>>
  BY <1>10 DEF WatcherFires, ParkedWatcherEnds, Deadline, ClientStalls, ClientReads, listenVars
<1> QED BY <1>1, <1>2, <1>3, <1>4, <1>5, <1>7, <1>8, <1>9, <1>10 DEF Next

-----------------------------------------------------------------------------
(* Types.                                                                   *)

\* Every action keeps every variable in its type; the counters need the
\* accounting, the cancelled session needs a pending cancel to have a target.
LEMMA TypeStep ==
  ASSUME TypeOK, TokensAccounted, FiringAsked, LiveSessionReachable, [Next]_vars
  PROVE  TypeOK'
<1> USE DEF TypeOK, Goto, listenVars, cancelVars, stmtVars
<1>n. sem' \in Nat /\ wg' \in Nat
  BY TokensStep
<1>p. /\ {"startup", "closing", "released", "firing", "idle", "simple", "extended",
          "backlog", "rejected", "done"} \subseteq Phases
      /\ \A k \in Keys : Packed(k) \in PackedKeys
  BY PackedInjective DEF Phases, Counted, Holding, Serving, InLoop, InStmt
<1>1. CASE Signal \/ CloseListener \/ StartDrain \/ DrainDone \/ DrainTimeout \/ Exit
  BY <1>1, <1>n, <1>p DEF Signal, CloseListener, StartDrain, DrainDone, DrainTimeout, Exit
<1>2. ASSUME NEW c \in Conns, Dial(c) \/ Accept(c) \/ Reject(c) \/ StartupFails(c)
                              \/ ReleaseToken(c) \/ WgDone(c) \/ ReadFails(c)
      PROVE  TypeOK'
  BY <1>2, <1>n, <1>p DEF Dial, Accept, Reject, StartupFails, ReleaseToken, WgDone, ReadFails
<1>3. ASSUME NEW c \in Conns, FireInvoke(c) PROVE TypeOK'
  <2>1. target[c] \in Conns
    BY <1>3 DEF FireInvoke, FiringAsked
  <2> QED BY <1>3, <1>n, <1>p, <2>1 DEF FireInvoke
<1>4. ASSUME NEW c \in Conns, NEW k \in Keys,
             CompleteStartup(c, k) \/ CompleteStartupFails(c, k)
      PROVE  TypeOK'
  BY <1>4, <1>n, <1>p DEF CompleteStartup, CompleteStartupFails, registerCancelKey
<1>5. ASSUME NEW c \in Conns, NEW k \in Keys, FireLookup(c, k) PROVE TypeOK'
  BY <1>5, <1>n, <1>p DEF FireLookup
<1>6. ASSUME NEW c \in Conns, NEW kind \in {"simple", "extended"}, NEW watch \in BOOLEAN,
             StartStmt(c, kind, watch)
      PROVE  TypeOK'
  <2>1. nstmts' \in [Conns -> Nat] /\ parked' \in [Conns -> Nat]
    BY <1>6 DEF StartStmt
  <2>2. /\ watched' \in [Conns -> BOOLEAN] /\ cancelled' \in [Conns -> BOOLEAN]
        /\ expired' \in [Conns -> BOOLEAN] /\ struck' \in [Conns -> BOOLEAN]
    BY <1>6 DEF StartStmt
  <2>3. phase' \in [Conns -> Phases]
    BY <1>6, <1>p DEF StartStmt
  <2> QED BY <1>6, <1>n, <2>1, <2>2, <2>3 DEF StartStmt
<1>7. ASSUME NEW c \in Conns, \/ WatcherFires(c) \/ ParkedWatcherEnds(c) \/ Deadline(c)
                              \/ ClientStalls(c) \/ ClientReads(c)
      PROVE  TypeOK'
  <2>1. CASE WatcherFires(c)
    BY <2>1, <1>n DEF WatcherFires
  <2>2. CASE ParkedWatcherEnds(c)
    <3>1. parked' \in [Conns -> Nat]
      BY <2>2 DEF ParkedWatcherEnds
    <3> QED BY <2>2, <3>1, <1>n DEF ParkedWatcherEnds
  <2>3. CASE Deadline(c)
    BY <2>3, <1>n DEF Deadline
  <2>4. CASE ClientStalls(c) \/ ClientReads(c)
    BY <2>4, <1>n DEF ClientStalls, ClientReads
  <2> QED BY <1>7, <2>1, <2>2, <2>3, <2>4
<1>8. ASSUME NEW c \in Conns, EndStmt(c) PROVE TypeOK'
  <2>1. nstmts' \in [Conns -> Nat] /\ parked' \in [Conns -> Nat]
    BY <1>8 DEF EndStmt
  <2>2. /\ watched' \in [Conns -> BOOLEAN] /\ cancelled' \in [Conns -> BOOLEAN]
        /\ expired' \in [Conns -> BOOLEAN] /\ struck' \in [Conns -> BOOLEAN]
    BY <1>8 DEF EndStmt
  <2>3. phase' \in [Conns -> Phases]
    BY <1>8, <1>p DEF EndStmt
  <2> QED BY <1>8, <1>n, <2>1, <2>2, <2>3 DEF EndStmt
<1>9. ASSUME NEW c \in Conns, Terminate(c) PROVE TypeOK'
  <2>1. key[c] \in Keys
    BY <1>9 DEF Terminate, LiveSessionReachable, InLoop
  <2> QED BY <1>9, <1>n, <1>p, <2>1 DEF Terminate
<1>10. CASE UNCHANGED vars
  BY <1>10, <1>n DEF vars
<1> QED BY <1>1, <1>2, <1>3, <1>4, <1>5, <1>6, <1>7, <1>8, <1>9, <1>10
       DEF Next, dispatch, handleExecute, StmtReturns, StmtAborted

-----------------------------------------------------------------------------
(* The cancel-key registry.                                                 *)

\* What an action does to the registry while it moves one connection: nothing, if
\* the connection does not enter the query loop or a pending cancel call.
LEMMA RegistryKeptByMove ==
  ASSUME RegistryInv, TypeOK,
         UNCHANGED cancelVars,
         \A d \in Conns :
           /\ phase'[d] \in {"absent", "backlog", "startup"} =>
                phase[d] \in {"absent", "backlog", "startup"}
           /\ phase'[d] = "firing" => phase[d] = "firing"
           /\ phase'[d] \in InLoop => phase[d] \in InLoop
  PROVE  RegistryInv'
<1> USE DEF cancelVars, TypeOK
<1>1. NoKeyBeforeStartup'
  BY DEF RegistryInv, NoKeyBeforeStartup
<1>2. KeysDistinct' /\ ContextHasKey'
  BY DEF RegistryInv, KeysDistinct, ContextHasKey
<1>3. RegistryOwned'
  BY DEF RegistryInv, RegistryOwned, Packed, cancelKey
<1>4. FiringAsked'
  BY DEF RegistryInv, FiringAsked
<1>5. LiveSessionReachable'
  BY DEF RegistryInv, LiveSessionReachable, Packed, cancelKey
<1>6. CancelOnlyByOwnKey'
  BY DEF RegistryInv, CancelOnlyByOwnKey, Packed, cancelKey
<1> QED BY <1>1, <1>2, <1>3, <1>4, <1>5, <1>6 DEF RegistryInv

\* registerCancelKey with a fresh key: no other session's entry is touched,
\* because packing is injective.
LEMMA RegisterKeepsRegistry ==
  ASSUME RegistryInv, TypeOK, NEW c \in Conns, NEW k \in Keys, FreshKey(k),
         registerCancelKey(c, k), phase[c] = "startup",
         NEW v \in {"idle", "closing"}, phase' = [phase EXCEPT ![c] = v],
         UNCHANGED <<target, requested>>
  PROVE  RegistryInv'
<1> USE DEF TypeOK, registerCancelKey
<1>k. key[c] = None /\ k # None /\ Packed(k) \in PackedKeys
  BY KeysAssumption, PackedInjective DEF RegistryInv, NoKeyBeforeStartup
<1>o. \A d \in Conns : d # c => key'[d] = key[d] /\ key[d] # k /\ phase'[d] = phase[d]
                                /\ sessCtx'[d] = sessCtx[d]
  BY DEF FreshKey
<1>e. \A d \in Conns : d # c /\ key[d] # None => Packed(key[d]) # Packed(k)
  BY <1>o, PackedInjective
<1>f. \A p \in PackedKeys : p # Packed(k) => cancelFns'[p] = cancelFns[p]
  BY <1>k
<1>g. key'[c] = k /\ cancelFns'[Packed(k)] = c /\ sessCtx'[c] = "live" /\ phase'[c] = v
  BY <1>k
<1>h. \A d \in Conns : key[d] # None => key[d] \in Keys /\ Packed(key[d]) \in PackedKeys
  BY PackedInjective
<1> HIDE DEF registerCancelKey
<1>1. NoKeyBeforeStartup'
  BY <1>o, <1>g DEF RegistryInv, NoKeyBeforeStartup
<1>2. KeysDistinct'
  BY <1>o, <1>g DEF RegistryInv, KeysDistinct
<1>3. RegistryOwned'
  <2> SUFFICES ASSUME NEW p \in PackedKeys, cancelFns'[p] # None
               PROVE  key'[cancelFns'[p]] # None /\ Packed(key'[cancelFns'[p]]) = p
    BY DEF RegistryOwned, Packed, cancelKey
  <2>1. CASE p = Packed(k)
    BY <2>1, <1>g, <1>k
  <2>2. CASE p # Packed(k)
    <3>1. cancelFns'[p] = cancelFns[p] /\ cancelFns[p] \in Conns
      BY <2>2, <1>f
    <3>2. key[cancelFns[p]] # None /\ Packed(key[cancelFns[p]]) = p
      BY <3>1 DEF RegistryInv, RegistryOwned
    <3>3. cancelFns[p] # c
      BY <3>2, <1>k
    <3> QED BY <3>1, <3>2, <3>3, <1>o
  <2> QED BY <2>1, <2>2
<1>4. ContextHasKey'
  BY <1>o, <1>g, <1>k DEF RegistryInv, ContextHasKey
<1>5. FiringAsked'
  BY <1>o, <1>g, <1>k, KeysAssumption DEF RegistryInv, FiringAsked
<1>6. LiveSessionReachable'
  <2> SUFFICES ASSUME NEW d \in Conns, phase'[d] \in InLoop
               PROVE  key'[d] # None /\ cancelFns'[Packed(key'[d])] = d
    BY DEF LiveSessionReachable, Packed, cancelKey
  <2>1. CASE d = c
    BY <2>1, <1>g, <1>k
  <2>2. CASE d # c
    <3>1. key[d] # None /\ cancelFns[Packed(key[d])] = d
      BY <2>2, <1>o DEF RegistryInv, LiveSessionReachable
    <3> QED BY <3>1, <2>2, <1>o, <1>e, <1>f, <1>h
  <2> QED BY <2>1, <2>2
<1>7. CancelOnlyByOwnKey'
  <2> SUFFICES ASSUME NEW d \in Conns, sessCtx'[d] = "cancelled"
               PROVE  key'[d] \in requested' \/ cancelFns'[Packed(key'[d])] # d
    BY DEF CancelOnlyByOwnKey, Packed, cancelKey
  <2>1. d # c
    BY <1>g
  <2>2. key[d] # None
    BY <2>1, <1>o DEF RegistryInv, ContextHasKey
  <2>3. key[d] \in requested \/ cancelFns[Packed(key[d])] # d
    BY <2>1, <1>o DEF RegistryInv, CancelOnlyByOwnKey
  <2> QED BY <2>1, <2>2, <2>3, <1>o, <1>e, <1>f, <1>h
<1> QED BY <1>1, <1>2, <1>3, <1>4, <1>5, <1>6, <1>7 DEF RegistryInv

\* Every action keeps the registry invariant.
LEMMA RegistryStep ==
  ASSUME RegistryInv, TypeOK, [Next]_vars
  PROVE  RegistryInv'
<1>h. \A d \in Conns : key[d] # None => key[d] \in Keys /\ Packed(key[d]) \in PackedKeys
  BY PackedInjective DEF TypeOK
<1>1. CASE Signal \/ CloseListener \/ StartDrain \/ DrainDone \/ DrainTimeout \/ Exit
           \/ UNCHANGED vars
  <2>1. UNCHANGED cancelVars
    BY <1>1 DEF Signal, CloseListener, StartDrain, DrainDone, DrainTimeout, Exit, vars
  <2>2. \A d \in Conns : phase'[d] = phase[d] \/ (phase[d] = "backlog" /\ phase'[d] = "rejected")
    BY <1>1 DEF Signal, CloseListener, StartDrain, DrainDone, DrainTimeout, Exit, vars, TypeOK
  <2> QED BY <2>1, <2>2, RegistryKeptByMove DEF InLoop, InStmt
<1>2. ASSUME NEW c \in Conns,
             \/ Dial(c) \/ Accept(c) \/ Reject(c) \/ StartupFails(c)
             \/ ReleaseToken(c) \/ WgDone(c) \/ ReadFails(c)
      PROVE  RegistryInv'
  <2>1. UNCHANGED cancelVars
    BY <1>2 DEF Dial, Accept, Reject, StartupFails, ReleaseToken, WgDone, ReadFails
  <2>2. \E u, v \in Phases :
          /\ phase[c] = u /\ phase' = [phase EXCEPT ![c] = v]
          /\ v \in {"absent", "backlog", "startup"} => u \in {"absent", "backlog", "startup"}
          /\ v # "firing" /\ v \notin InLoop
    BY <1>2 DEF Dial, Accept, Reject, StartupFails, ReleaseToken, WgDone, ReadFails,
       Goto, Phases, Counted, Holding, Serving, InLoop, InStmt
  <2>3. phase \in [Conns -> Phases]
    BY DEF TypeOK
  <2> QED BY <2>1, <2>2, <2>3, RegistryKeptByMove
<1>3. ASSUME NEW c \in Conns,
             \/ dispatch(c) \/ handleExecute(c) \/ StmtReturns(c) \/ StmtAborted(c)
             \/ WatcherFires(c) \/ ParkedWatcherEnds(c) \/ Deadline(c)
             \/ ClientStalls(c) \/ ClientReads(c)
      PROVE  RegistryInv'
  <2>1. UNCHANGED cancelVars
    BY <1>3 DEF dispatch, handleExecute, StartStmt, StmtReturns, StmtAborted, EndStmt,
       WatcherFires, ParkedWatcherEnds, Deadline, ClientStalls, ClientReads
  <2>2. \/ phase' = phase
        \/ \E v \in InLoop : phase[c] \in InLoop /\ phase' = [phase EXCEPT ![c] = v]
    BY <1>3 DEF dispatch, handleExecute, StartStmt, StmtReturns, StmtAborted, EndStmt,
       WatcherFires, ParkedWatcherEnds, Deadline, ClientStalls, ClientReads, Goto, InLoop, InStmt
  <2>3. phase \in [Conns -> Phases]
    BY DEF TypeOK
  <2> QED BY <2>1, <2>2, <2>3, RegistryKeptByMove DEF InLoop, InStmt
<1>4. ASSUME NEW c \in Conns, NEW k \in Keys,
             CompleteStartup(c, k) \/ CompleteStartupFails(c, k)
      PROVE  RegistryInv'
  BY <1>4, RegisterKeepsRegistry DEF CompleteStartup, CompleteStartupFails, Goto
<1>5. ASSUME NEW c \in Conns, NEW k \in Keys, FireLookup(c, k) PROVE RegistryInv'
  <2> USE <1>5 DEF FireLookup, TypeOK
  <2>1. /\ key' = key /\ cancelFns' = cancelFns /\ sessCtx' = sessCtx
        /\ requested \subseteq requested' /\ k \in requested'
        /\ \A d \in Conns : d # c => phase'[d] = phase[d] /\ target'[d] = target[d]
        /\ phase'[c] \in {"firing", "closing"}
        /\ target'[c] = cancelFns[Packed(k)] /\ phase'[c] = "firing" => target'[c] # None
    OBVIOUS
  <2>2. Packed(k) \in PackedKeys
    BY PackedInjective
  <2>3. phase'[c] = "firing" => target'[c] \in Conns /\ key'[target'[c]] \in requested'
    <3> SUFFICES ASSUME phase'[c] = "firing"
                 PROVE  target'[c] \in Conns /\ key'[target'[c]] \in requested'
      OBVIOUS
    <3>1. cancelFns[Packed(k)] \in Conns
      BY <2>1, <2>2
    <3>2. key[cancelFns[Packed(k)]] # None /\ Packed(key[cancelFns[Packed(k)]]) = Packed(k)
      BY <2>2, <3>1, ConnsAssumption DEF RegistryInv, RegistryOwned
    <3>3. key[cancelFns[Packed(k)]] = k
      BY <3>1, <3>2, <1>h, PackedInjective
    <3> QED BY <2>1, <3>1, <3>3
  <2> HIDE DEF FireLookup, TypeOK
  <2>4. FiringAsked'
    BY <2>1, <2>3 DEF RegistryInv, FiringAsked
  <2>5. NoKeyBeforeStartup' /\ KeysDistinct' /\ ContextHasKey'
    BY <2>1 DEF RegistryInv, NoKeyBeforeStartup, KeysDistinct, ContextHasKey
  <2>6. RegistryOwned' /\ CancelOnlyByOwnKey'
    BY <2>1 DEF RegistryInv, RegistryOwned, CancelOnlyByOwnKey, Packed, cancelKey
  <2>7. LiveSessionReachable'
    BY <2>1 DEF RegistryInv, LiveSessionReachable, InLoop, InStmt, Packed, cancelKey
  <2> QED BY <2>4, <2>5, <2>6, <2>7 DEF RegistryInv
<1>6. ASSUME NEW c \in Conns, FireInvoke(c) PROVE RegistryInv'
  <2>1. target[c] \in Conns /\ key[target[c]] \in requested /\ key[target[c]] # None
    BY <1>6, KeysAssumption DEF FireInvoke, Goto, RegistryInv, FiringAsked, TypeOK
  <2>2. /\ key' = key /\ cancelFns' = cancelFns /\ requested' = requested /\ target' = target
        /\ sessCtx' = [sessCtx EXCEPT ![target[c]] = "cancelled"]
        /\ phase' = [phase EXCEPT ![c] = "closing"]
        /\ phase \in [Conns -> Phases] /\ sessCtx \in [Conns -> {"none", "live", "cancelled"}]
    BY <1>6 DEF FireInvoke, Goto, TypeOK
  <2>3. NoKeyBeforeStartup' /\ KeysDistinct' /\ ContextHasKey' /\ FiringAsked'
    BY <2>1, <2>2 DEF RegistryInv, NoKeyBeforeStartup, KeysDistinct, ContextHasKey, FiringAsked
  <2>4. RegistryOwned' /\ CancelOnlyByOwnKey'
    BY <2>1, <2>2 DEF RegistryInv, RegistryOwned, CancelOnlyByOwnKey, Packed, cancelKey
  <2>5. LiveSessionReachable'
    BY <2>2 DEF RegistryInv, LiveSessionReachable, InLoop, InStmt, Packed, cancelKey
  <2> QED BY <2>3, <2>4, <2>5 DEF RegistryInv
<1>7. ASSUME NEW c \in Conns, Terminate(c) PROVE RegistryInv'
  <2>1. key[c] # None /\ cancelFns[Packed(key[c])] = c
    BY <1>7 DEF Terminate, Goto, RegistryInv, LiveSessionReachable, InLoop
  <2>2. key[c] \in Keys /\ Packed(key[c]) \in PackedKeys
    BY <2>1, <1>h
  <2>3. /\ key' = key /\ requested' = requested /\ target' = target
        /\ cancelFns' = [cancelFns EXCEPT ![Packed(key[c])] = None]
        /\ sessCtx' = [sessCtx EXCEPT ![c] = "cancelled"]
        /\ phase' = [phase EXCEPT ![c] = "closing"]
        /\ phase \in [Conns -> Phases] /\ sessCtx \in [Conns -> {"none", "live", "cancelled"}]
        /\ cancelFns \in [PackedKeys -> Conns \cup {None}]
    BY <1>7 DEF Terminate, Goto, TypeOK
  <2>4. \A d \in Conns : d # c /\ key[d] # None => Packed(key[d]) # Packed(key[c])
    BY <2>1, <2>2, <1>h, PackedInjective DEF RegistryInv, KeysDistinct
  <2>5. NoKeyBeforeStartup' /\ KeysDistinct' /\ ContextHasKey' /\ FiringAsked'
    BY <2>1, <2>3 DEF RegistryInv, NoKeyBeforeStartup, KeysDistinct, ContextHasKey, FiringAsked
  <2>6. RegistryOwned'
    BY <2>2, <2>3 DEF RegistryInv, RegistryOwned, Packed, cancelKey
  <2>7. LiveSessionReachable'
    <3> SUFFICES ASSUME NEW d \in Conns, phase'[d] \in InLoop
                 PROVE  key'[d] # None /\ cancelFns'[Packed(key'[d])] = d
      BY DEF LiveSessionReachable, Packed, cancelKey
    <3>1. d # c /\ phase[d] \in InLoop
      BY <2>3 DEF InLoop, InStmt
    <3>2. key[d] # None /\ cancelFns[Packed(key[d])] = d
      BY <3>1 DEF RegistryInv, LiveSessionReachable
    <3> QED BY <3>1, <3>2, <2>3, <2>4, <1>h
  <2>8. CancelOnlyByOwnKey'
    <3> SUFFICES ASSUME NEW d \in Conns, sessCtx'[d] = "cancelled"
                 PROVE  key'[d] \in requested' \/ cancelFns'[Packed(key'[d])] # d
      BY DEF CancelOnlyByOwnKey, Packed, cancelKey
    <3>1. CASE d = c
      BY <3>1, <2>2, <2>3, ConnsAssumption
    <3>2. CASE d # c
      <4>1. key[d] # None /\ (key[d] \in requested \/ cancelFns[Packed(key[d])] # d)
        BY <3>2, <2>3 DEF RegistryInv, CancelOnlyByOwnKey, ContextHasKey
      <4> QED BY <4>1, <3>2, <2>3, <2>4, <1>h
    <3> QED BY <3>1, <3>2
  <2> QED BY <2>5, <2>6, <2>7, <2>8 DEF RegistryInv
<1> QED BY <1>1, <1>2, <1>3, <1>4, <1>5, <1>6, <1>7 DEF Next

-----------------------------------------------------------------------------
(* The drain and the watcher of simple queries.                             *)

\* A complete drain is reported when the counter is zero, and only Accept, which
\* runs while the server is serving, starts a goroutine.
LEMMA CleanDrainStep ==
  ASSUME TypeOK, TokensAccounted, CleanDrain, [Next]_vars
  PROVE  CleanDrain'
<1> USE DEF CleanDrain
<1>t. phase \in [Conns -> Phases]
  BY DEF TypeOK
<1>1. CASE DrainDone
  <2> DEFINE C == {c \in Conns : phase[c] \in Counted}
  <2>1. IsFiniteSet(C) /\ Cardinality(C) = 0
    BY <1>1, ConnsAssumption, FS_Subset DEF DrainDone, TokensAccounted
  <2>2. C = {}
    BY <2>1, FS_EmptySet
  <2>3. phase' = phase
    BY <1>1 DEF DrainDone
  <2> QED BY <2>2, <2>3
<1>2. CASE Signal \/ StartDrain \/ DrainTimeout \/ Exit \/ UNCHANGED vars
  BY <1>2 DEF Signal, StartDrain, DrainTimeout, Exit, vars, listenVars
<1>3. CASE CloseListener
  <2>1. \A c \in Conns : phase'[c] = phase[c] \/ phase'[c] = "rejected"
    BY <1>3, <1>t DEF CloseListener
  <2>2. server' = server /\ "rejected" \notin Counted
    BY <1>3 DEF CloseListener, Counted, Holding, Serving, InLoop, InStmt
  <2> QED BY <2>1, <2>2
<1>4. ASSUME NEW c \in Conns, Accept(c) PROVE CleanDrain'
  BY <1>4 DEF Accept
<1>5. ASSUME NEW c \in Conns, server' = server,
             phase' = phase \/ \E v \in Phases : /\ phase' = [phase EXCEPT ![c] = v]
                                                 /\ v \in Counted => phase[c] \in Counted
      PROVE  CleanDrain'
  BY <1>5, <1>t
<1>6. ASSUME NEW c \in Conns,
             \/ Dial(c) \/ Reject(c) \/ StartupFails(c) \/ FireInvoke(c)
             \/ ReleaseToken(c) \/ WgDone(c) \/ Terminate(c) \/ ReadFails(c)
             \/ dispatch(c) \/ handleExecute(c) \/ StmtReturns(c) \/ StmtAborted(c)
             \/ WatcherFires(c) \/ ParkedWatcherEnds(c) \/ Deadline(c)
             \/ ClientStalls(c) \/ ClientReads(c)
      PROVE  CleanDrain'
  <2>1. server' = server
    BY <1>6 DEF Dial, Reject, StartupFails, FireInvoke, ReleaseToken, WgDone, Terminate,
       ReadFails, dispatch, handleExecute, StartStmt, StmtReturns, StmtAborted, EndStmt,
       WatcherFires, ParkedWatcherEnds, Deadline, ClientStalls, ClientReads, listenVars
  <2>2. phase' = phase \/ \E v \in Phases : /\ phase' = [phase EXCEPT ![c] = v]
                                            /\ v \in Counted => phase[c] \in Counted
    BY <1>6 DEF Dial, Reject, StartupFails, FireInvoke, ReleaseToken, WgDone, Terminate,
       ReadFails, dispatch, handleExecute, StartStmt, StmtReturns, StmtAborted, EndStmt,
       WatcherFires, ParkedWatcherEnds, Deadline, ClientStalls, ClientReads, Goto,
       Phases, Counted, Holding, Serving, InLoop, InStmt
  <2> QED BY <2>1, <2>2, <1>5
<1>7. ASSUME NEW c \in Conns, NEW k \in Keys,
             CompleteStartup(c, k) \/ CompleteStartupFails(c, k) \/ FireLookup(c, k)
      PROVE  CleanDrain'
  <2>1. server' = server
    BY <1>7 DEF CompleteStartup, CompleteStartupFails, FireLookup, listenVars
  <2>2. \E v \in Phases : /\ phase' = [phase EXCEPT ![c] = v]
                          /\ v \in Counted => phase[c] \in Counted
    BY <1>7 DEF CompleteStartup, CompleteStartupFails, FireLookup, Goto,
       Phases, Counted, Holding, Serving, InLoop, InStmt
  <2> QED BY <2>1, <2>2, <1>5
<1> QED BY <1>1, <1>2, <1>3, <1>4, <1>6, <1>7 DEF Next

\* dispatch starts the watcher with the query; the watcher leaves only when the
\* query's context is done, and a context that is done stays done.
LEMMA SimpleWatchedStep ==
  ASSUME TypeOK, SimpleWatched, [Next]_vars
  PROVE  SimpleWatched'
<1> USE DEF SimpleWatched, StmtCtxDone
<1>t. /\ phase \in [Conns -> Phases]
      /\ watched \in [Conns -> BOOLEAN] /\ cancelled \in [Conns -> BOOLEAN]
      /\ expired \in [Conns -> BOOLEAN]
  BY DEF TypeOK
<1>1. ASSUME UNCHANGED <<watched, cancelled, expired>>, ctxDone => ctxDone',
             \A d \in Conns : phase'[d] = "simple" => phase[d] = "simple"
      PROVE  SimpleWatched'
  BY <1>1
<1>2. CASE Signal \/ CloseListener \/ StartDrain \/ DrainDone \/ DrainTimeout \/ Exit
           \/ UNCHANGED vars
  <2>1. UNCHANGED <<watched, cancelled, expired>> /\ (ctxDone => ctxDone')
    BY <1>2 DEF Signal, CloseListener, StartDrain, DrainDone, DrainTimeout, Exit, vars,
       listenVars, stmtVars
  <2>2. \A d \in Conns : phase'[d] = "simple" => phase[d] = "simple"
    BY <1>2, <1>t DEF Signal, CloseListener, StartDrain, DrainDone, DrainTimeout, Exit, vars
  <2> QED BY <2>1, <2>2, <1>1
<1>3. ASSUME NEW c \in Conns,
             \/ Dial(c) \/ Accept(c) \/ Reject(c) \/ StartupFails(c) \/ FireInvoke(c)
             \/ ReleaseToken(c) \/ WgDone(c) \/ Terminate(c) \/ ReadFails(c)
             \/ ParkedWatcherEnds(c) \/ ClientStalls(c) \/ ClientReads(c)
      PROVE  SimpleWatched'
  <2>1. UNCHANGED <<watched, cancelled, expired, ctxDone>>
    BY <1>3 DEF Dial, Accept, Reject, StartupFails, FireInvoke, ReleaseToken, WgDone,
       Terminate, ReadFails, ParkedWatcherEnds, ClientStalls, ClientReads, listenVars, stmtVars
  <2>2. \A d \in Conns : phase'[d] = "simple" => phase[d] = "simple"
    BY <1>3, <1>t DEF Dial, Accept, Reject, StartupFails, FireInvoke, ReleaseToken, WgDone,
       Terminate, ReadFails, ParkedWatcherEnds, ClientStalls, ClientReads, Goto
  <2> QED BY <2>1, <2>2, <1>1
<1>4. ASSUME NEW c \in Conns, NEW k \in Keys,
             CompleteStartup(c, k) \/ CompleteStartupFails(c, k) \/ FireLookup(c, k)
      PROVE  SimpleWatched'
  <2>1. UNCHANGED <<watched, cancelled, expired, ctxDone>>
    BY <1>4 DEF CompleteStartup, CompleteStartupFails, FireLookup, listenVars, stmtVars
  <2>2. \A d \in Conns : phase'[d] = "simple" => phase[d] = "simple"
    BY <1>4, <1>t DEF CompleteStartup, CompleteStartupFails, FireLookup, Goto
  <2> QED BY <2>1, <2>2, <1>1
<1>5. ASSUME NEW c \in Conns, dispatch(c) \/ handleExecute(c) PROVE SimpleWatched'
  <2>1. ctxDone' = ctxDone
    BY <1>5 DEF dispatch, handleExecute, StartStmt, listenVars
  <2>2. \A d \in Conns : d # c =>
          /\ phase'[d] = phase[d] /\ watched'[d] = watched[d]
          /\ cancelled'[d] = cancelled[d] /\ expired'[d] = expired[d]
    BY <1>5, <1>t DEF dispatch, handleExecute, StartStmt, Goto
  <2>3. phase'[c] = "simple" => watched'[c]
    BY <1>5, <1>t DEF dispatch, handleExecute, StartStmt, Goto
  <2> QED BY <2>1, <2>2, <2>3
<1>6. ASSUME NEW c \in Conns, WatcherFires(c) PROVE SimpleWatched'
  BY <1>6, <1>t DEF WatcherFires, listenVars
<1>7. ASSUME NEW c \in Conns, Deadline(c) PROVE SimpleWatched'
  BY <1>7, <1>t DEF Deadline, listenVars
<1>8. ASSUME NEW c \in Conns, EndStmt(c) PROVE SimpleWatched'
  BY <1>8, <1>t DEF EndStmt, listenVars
<1> QED BY <1>2, <1>3, <1>4, <1>5, <1>6, <1>7, <1>8 DEF Next, StmtReturns, StmtAborted

-----------------------------------------------------------------------------
(* The inductive invariant and the theorems.                                *)

\* The invariant holds before the first client dials.
LEMMA InitIInv == Init => IInv
<1> SUFFICES ASSUME Init PROVE IInv
  OBVIOUS
<1> USE DEF Init
<1>1. TypeOK
  BY DEF TypeOK, Phases
<1>2. TokensAccounted
  <2>1. /\ {c \in Conns : phase[c] \in Holding} = {}
        /\ {c \in Conns : phase[c] \in Counted} = {}
    BY DEF Counted, Holding, Serving, InLoop, InStmt
  <2>2. Cardinality({}) = 0
    BY FS_EmptySet
  <2> QED BY <2>1, <2>2, LimitsAssumption DEF TokensAccounted
<1>3. CleanDrain /\ SimpleWatched
  BY DEF CleanDrain, SimpleWatched
<1>4. RegistryInv
  BY DEF RegistryInv, NoKeyBeforeStartup, KeysDistinct, RegistryOwned, ContextHasKey,
     FiringAsked, LiveSessionReachable, CancelOnlyByOwnKey, InLoop, InStmt
<1> QED BY <1>1, <1>2, <1>3, <1>4 DEF IInv

\* Every step of the server keeps the invariant.
LEMMA NextIInv == IInv /\ [Next]_vars => IInv'
<1> SUFFICES ASSUME IInv, [Next]_vars PROVE IInv'
  OBVIOUS
<1>1. TypeOK /\ TokensAccounted /\ CleanDrain /\ RegistryInv /\ SimpleWatched
  BY DEF IInv
<1>2. FiringAsked /\ LiveSessionReachable
  BY <1>1 DEF RegistryInv
<1>3. TypeOK' /\ TokensAccounted'
  BY <1>1, <1>2, TypeStep, TokensStep
<1>4. CleanDrain' /\ SimpleWatched'
  BY <1>1, CleanDrainStep, SimpleWatchedStep
<1>5. RegistryInv'
  BY <1>1, RegistryStep
<1> QED BY <1>3, <1>4, <1>5 DEF IInv

\* The inductive invariant of the server holds in every reachable state.
THEOREM Invariance == SafetySpec => []IInv
BY InitIInv, NextIInv, PTL DEF SafetySpec

\* Every variable keeps its type; the semaphore and the wait group never go
\* below zero.
THEOREM TypeCorrect == SafetySpec => []TypeOK
<1>1. IInv => TypeOK
  BY DEF IInv
<1> QED BY <1>1, Invariance, PTL

\* For any number of connections and any MaxInflight, the semaphore holds one
\* token per connection being served and the wait group counts the goroutines.
THEOREM TokensAlwaysAccounted == SafetySpec => []TokensAccounted
<1>1. IInv => TokensAccounted
  BY DEF IInv
<1> QED BY <1>1, Invariance, PTL

\* A drain that ListenAndServe reports complete has left no goroutine behind.
THEOREM DrainIsClean == SafetySpec => []CleanDrain
<1>1. IInv => CleanDrain
  BY DEF IInv
<1> QED BY <1>1, Invariance, PTL

\* The registry always maps the key of a session in its query loop to this session.
THEOREM SessionsStayReachable == SafetySpec => []LiveSessionReachable
<1>1. IInv => LiveSessionReachable
  BY DEF IInv, RegistryInv
<1> QED BY <1>1, Invariance, PTL

\* A registered session is cancelled only by a request with exactly its key,
\* whatever the number of pids and secrets.
THEOREM NoCrossSessionCancel == SafetySpec => []CancelOnlyByOwnKey
<1>1. IInv => CancelOnlyByOwnKey
  BY DEF IInv, RegistryInv
<1> QED BY <1>1, Invariance, PTL

\* A CancelRequest that arrives during a simple query is not lost.
THEOREM SimpleCancelNotLost == SafetySpec => []CancelNotLost
<1>1. IInv => CancelNotLost
  BY DEF IInv, SimpleWatched, CancelNotLost
<1> QED BY <1>1, Invariance, PTL

=============================================================================
