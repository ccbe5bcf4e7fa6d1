-------------------------------- MODULE Platform --------------------------------
(***************************************************************************)
(* The workspace API as one system: every request passes the limiter and    *)
(* the token check of Admission before a handler of Workspace or Gates sees *)
(* it, and handlers of several statements interleave with the others.       *)
(***************************************************************************)
EXTENDS Gates

vars == <<api, admissionVars, workspaceVars, gateVars>>

Init == ApiInit /\ AdmissionInit /\ WorkspaceInit /\ GatesInit

ConnIds == 0 .. Len(conns)    \* the connections, and an id that is none

Idle == Free({h \in Handlers : work[h].pc \in {"idle", "done"}})

(* handlers that take one statement, and the first one of those that take several *)
Handle(user, bypass) ==
  \/ /\ UNCHANGED <<work, gateVars, tokens>>
     /\ \/ listCustomers
        \/ \E c \in Customers :
             \/ createCustomer(c) \/ createAPIKey(c) \/ createWebhook(c) \/ listWebhooks(c)
             \/ \E kind \in Kinds, name \in Names : createConnection(c, kind, name)
        \/ \E conn \in ConnIds : testConnection(conn) \/ \E t \in Tables : createSyncedTable(conn, t)
        \/ \E k \in 1 .. Len(apiKeys) : revokeAPIKey(k)
        \/ \E slug \in Users, t \in Tables, on \in {"change", "any"} : createLineageWatch(user, slug, t, on)
        \/ \E slug \in Users \cup {None} : listLineageWatches(user, slug)
        \/ \E id \in 1 .. MaxCalls : deleteLineageWatch(user, id) \/ deleteWebhook(id)
        \/ \E body \in Customers \cup {None}, author \in Authors \cup {None} : createAnnotation(user, body, author)
        \/ listAnnotations(user)
  \/ /\ UNCHANGED <<gateVars, tokens>>
     /\ \E h \in Idle :
          \/ \E c \in Customers : syncDAG(h, c) \/ workspaceBackup(h, c)
          \/ \E id \in 1 .. MaxCalls : deleteAnnotation(h, user, bypass, id)
  \/ /\ UNCHANGED <<gateVars, tokens>>
     /\ \E h \in Idle \cup {x \in Handlers : work[x].pc = "paging"}, limit \in 0 .. MaxPage + 1 :
          \/ \E c \in Customers : listAPIKeys(h, c, limit) \/ listConnections(h, c, limit)
          \/ \E conn \in DOMAIN conns : listSyncedTables(h, conn, limit)
  \/ /\ UNCHANGED <<workspaceVars, apiKeys, tokens>>
     /\ \/ \E c \in Customers :
             \/ listQuotas(c)
             \/ \E price \in Costs : budgetCheck(c, price)
             \/ \E u \in Users, cap \in Caps, block \in BOOLEAN : upsertQuota(c, u, cap, block)
        \/ \E body \in Customers \cup {None} : preflightCheck(user, body) \/ \E u \in Users : scheduleSuggest(user, body, u)
  \/ /\ UNCHANGED <<workspaceVars, gateVars>>
     /\ refresh(user) \/ \E k \in 1 .. Len(apiKeys) + 1 : login(k)

(* the later statements of a handler *)
Continue == \E h \in Handlers :
  EraseAnnotation(h) \/ DagEdges(h) \/ BackupConns(h) \/ BackupTables(h) \/ BackupKeys(h) \/ dumpRows(h)

Next ==
  \/ Clock /\ UNCHANGED <<admissionVars, workspaceVars, gateVars>>
  \/ cors /\ UNCHANGED <<workspaceVars, gateVars>>
  \/ \E r \in Requests :
       \/ TurnedAway(r) /\ UNCHANGED <<workspaceVars, gateVars>>
       \/ r.exempt /\ Admit(r) /\ health /\ UNCHANGED <<workspaceVars, gateVars>>
       \/ ~r.exempt /\ Admit(r) /\ Handle(UserID(r), r.bypass)
  \/ Continue /\ UNCHANGED <<admissionVars, gateVars>>
  \/ \E c \in Customers, cost \in Costs \ {0} : Charge(c, cost)

Spec == Init /\ [][Next]_vars
=============================================================================
