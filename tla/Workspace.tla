------------------------------- MODULE Workspace -------------------------------
(***************************************************************************)
(* A customer's workspace behind the API: customers, API keys, connections, *)
(* synced tables, lineage watches, webhooks and annotations, and the three  *)
(* readers that see them in several statements: a client that pages through *)
(* a list, the sync DAG and the workspace backup.  A row is identified by   *)
(* its place in its table or by the number of the request that made it.     *)
(***************************************************************************)
EXTENDS Admission, SequencesExt

CONSTANTS
  Kinds,        \* warehouse types
  Names,        \* names of connections
  Tables,       \* schema-qualified table names, numbered in the order of schema and name
  Edges,        \* external: rows of lineage_edge, pairs of table names
  DefaultPage,  \* rows of a page when the request does not say: 50
  MaxPage,      \* rows of a page at most: 200
  Users,        \* user slugs
  Authors       \* user ids an annotation may name

ASSUME WorkspaceAssumption ==
  /\ Tables \subseteq Nat /\ IsFiniteSet(Tables) /\ Edges \subseteq Tables \X Tables
  /\ Names # {} /\ Tables # {}
  /\ MaxPage \in Nat /\ DefaultPage \in 1 .. MaxPage

VARIABLES
  customers,    \* table customers, newest last
  conns,        \* table connections, newest last
  tables,       \* table synced_tables, unique on connection and name
  watches,      \* table lineage_watch, unique on customer, user and table
  hooks,        \* table webhook_endpoint
  notes,        \* table annotation
  work          \* each reader, and each handler between its statements

rowVars == <<customers, conns, tables, watches, hooks, notes>>
workspaceVars == <<rowVars, work>>

Resting == [pc |-> "idle", op |-> None, of |-> None, todo |-> <<>>, sent |-> 0, must |-> {}, got |-> {}]

WorkspaceInit ==
  /\ \/ customers = <<>> /\ conns = <<>> /\ tables = {}       \* a new installation, or one with a customer
     \/ /\ \E c \in Customers, k \in Kinds :
             customers = <<c>> /\ conns = <<[customer |-> c, kind |-> k, name |-> CHOOSE n \in Names : TRUE]>>
        /\ tables = {[conn |-> 1, name |-> Max(Tables)]}
  /\ watches = {} /\ hooks = {} /\ notes = {}
  /\ work = [h \in Handlers |-> Resting]

-----------------------------------------------------------------------------
(* a finite set of numbers as a sequence in their order, and in the opposite one *)
Ascending(S) == CHOOSE s \in SetToSeqs(S) : \A i, j \in DOMAIN s : i < j => s[i] < s[j]
Descending(S) == CHOOSE s \in SetToSeqs(S) : \A i, j \in DOMAIN s : i < j => s[i] > s[j]

(* lists are ordered by created_at, newest first *)
ListCustomers == Reverse(customers)

NewestFirst(s, c) == Descending({i \in DOMAIN s : s[i].customer = c})

(* mutant: a revoked key is not listed any more *)
ListAPIKeysLive(c) == Descending({i \in DOMAIN apiKeys : apiKeys[i].customer = c /\ ~apiKeys[i].revoked})

ListAPIKeys(c) == NewestFirst(apiKeys, c)

ListConnections(c) == NewestFirst(conns, c)

(* ListSyncedTables: by schema and name *)
ListSyncedTables(conn) == Ascending({t.name : t \in {u \in tables : u.conn = conn}})

(* activeCustomer: the caller's, or the newest one when the request has no identity *)
activeCustomer(user) == IF user # None THEN user ELSE IF customers # <<>> THEN Head(ListCustomers) ELSE None

Exists(c) == c \in ToSet(customers)      \* what a foreign key asks for

(* a statement failed: when activeCustomer's did, the answer is 400 *)
RefuseFor(user, op) == Refuse(op) \/ (user = None /\ Call /\ Fails /\ Answer(op, 400, None))

Row == calls + 1                         \* the id of the row that this request inserts

(* the writes of internal/store/db.go and internal/annotations *)
CreateCustomer(c) == customers' = Append(customers, c)

CreateConnection(row) == conns' = Append(conns, row)

CreateAPIKey(c) == apiKeys' = Append(apiKeys, [customer |-> c, revoked |-> FALSE])

RevokeAPIKey(k) == apiKeys' = [i \in DOMAIN apiKeys |-> IF i = k THEN [apiKeys[i] EXCEPT !.revoked = TRUE] ELSE apiKeys[i]]

UpsertSyncedTable(conn, t) == tables' = tables \cup {[conn |-> conn, name |-> t]}

Create(row) == notes' = notes \cup {row}

Delete(id) == notes' = {n \in notes : n.id # id}

-----------------------------------------------------------------------------
listCustomers == (Serve("listCustomers", 200, ListCustomers) \/ Refuse("listCustomers")) /\ UNCHANGED <<rowVars, apiKeys>>

createCustomer(c) ==                     \* the slug is unique
  /\ \/ ~Exists(c) /\ Serve("createCustomer", 201, c) /\ CreateCustomer(c)
     \/ Exists(c) /\ Serve("createCustomer", 500, None) /\ UNCHANGED customers
     \/ Refuse("createCustomer") /\ UNCHANGED customers
  /\ UNCHANGED <<conns, tables, watches, hooks, notes, apiKeys>>

createConnection(c, kind, name) ==       \* unique on customer and name
  LET row == [customer |-> c, kind |-> kind, name |-> name]
      taken == \E i \in DOMAIN conns : conns[i].customer = c /\ conns[i].name = name
  IN  /\ \/ Exists(c) /\ ~taken /\ Serve("createConnection", 201, row) /\ CreateConnection(row)
         \/ (~Exists(c) \/ taken) /\ Serve("createConnection", 500, None) /\ UNCHANGED conns
         \/ Refuse("createConnection") /\ UNCHANGED conns
      /\ UNCHANGED <<customers, tables, watches, hooks, notes, apiKeys>>

testConnection(conn) ==
  /\ \/ conn \in DOMAIN conns /\ Serve("testConnection", 200, conns[conn].kind)
     \/ conn \notin DOMAIN conns /\ Serve("testConnection", 404, None)
     \/ Call /\ Fails /\ Answer("testConnection", 404, None)
  /\ UNCHANGED <<rowVars, apiKeys>>

createAPIKey(c) ==
  /\ \/ Exists(c) /\ Serve("createAPIKey", 201, Len(apiKeys) + 1) /\ CreateAPIKey(c)
     \/ ~Exists(c) /\ Serve("createAPIKey", 500, None) /\ UNCHANGED apiKeys
     \/ Refuse("createAPIKey") /\ UNCHANGED apiKeys
  /\ UNCHANGED rowVars

revokeAPIKey(k) ==                       \* an unknown key is no error
  /\ \/ Serve("revokeAPIKey", 204, None) /\ RevokeAPIKey(k)
     \/ Refuse("revokeAPIKey") /\ UNCHANGED apiKeys
  /\ UNCHANGED rowVars

createSyncedTable(conn, t) ==
  /\ \/ conn \in DOMAIN conns /\ Serve("createSyncedTable", 201, t) /\ UpsertSyncedTable(conn, t)
     \/ conn \notin DOMAIN conns /\ Serve("createSyncedTable", 500, None) /\ UNCHANGED tables
     \/ Refuse("createSyncedTable") /\ UNCHANGED tables
  /\ UNCHANGED <<customers, conns, watches, hooks, notes, apiKeys>>

-----------------------------------------------------------------------------
createLineageWatch(user, slug, t, on) == \* a second watch of the table changes the first
  LET c == activeCustomer(user)
      old == {w \in watches : w.customer = c /\ w.user = slug /\ w.table = t}
      id == IF old = {} THEN Row ELSE (CHOOSE w \in old : TRUE).id
      row == [id |-> id, customer |-> c, user |-> slug, table |-> t, on |-> on]
  IN  /\ \/ c = None /\ Serve("createLineageWatch", 400, None) /\ UNCHANGED watches
         \/ Exists(c) /\ Serve("createLineageWatch", 201, row) /\ watches' = (watches \ old) \cup {row}
         \/ c # None /\ ~Exists(c) /\ Serve("createLineageWatch", 500, None) /\ UNCHANGED watches
         \/ RefuseFor(user, "createLineageWatch") /\ UNCHANGED watches
      /\ UNCHANGED <<customers, conns, tables, hooks, notes, apiKeys>>

listLineageWatches(user, slug) ==
  /\ \/ Serve("listLineageWatches", 200, {w \in watches : w.customer = activeCustomer(user) /\ slug \in {None, w.user}})
     \/ RefuseFor(user, "listLineageWatches")
  /\ UNCHANGED <<rowVars, apiKeys>>

deleteLineageWatch(user, id) ==
  LET rows == {w \in watches : w.id = id /\ w.customer = activeCustomer(user)}
  IN  /\ \/ rows # {} /\ Serve("deleteLineageWatch", 204, None) /\ watches' = watches \ rows
         \/ rows = {} /\ Serve("deleteLineageWatch", 404, None) /\ UNCHANGED watches
         \/ RefuseFor(user, "deleteLineageWatch") /\ UNCHANGED watches
      /\ UNCHANGED <<customers, conns, tables, hooks, notes, apiKeys>>

createWebhook(c) ==                      \* two endpoints may be alike
  /\ \/ Exists(c) /\ Serve("createWebhook", 201, Row) /\ hooks' = hooks \cup {[id |-> Row, customer |-> c]}
     \/ ~Exists(c) /\ Serve("createWebhook", 500, None) /\ UNCHANGED hooks
     \/ Refuse("createWebhook") /\ UNCHANGED hooks
  /\ UNCHANGED <<customers, conns, tables, watches, notes, apiKeys>>

listWebhooks(c) == (Serve("listWebhooks", 200, {w \in hooks : w.customer = c}) \/ Refuse("listWebhooks")) /\ UNCHANGED <<rowVars, apiKeys>>

deleteWebhook(id) ==
  /\ \/ Serve("deleteWebhook", 204, None) /\ hooks' = {w \in hooks : w.id # id}
     \/ Refuse("deleteWebhook") /\ UNCHANGED hooks
  /\ UNCHANGED <<customers, conns, tables, watches, notes, apiKeys>>

-----------------------------------------------------------------------------
createAnnotation(user, body, author) ==  \* the customer the body names is taken before the caller's
  LET c == IF body # None THEN body ELSE activeCustomer(user)
  IN  /\ \/ activeCustomer(user) = None /\ Serve("createAnnotation", 400, None) /\ UNCHANGED notes
         \/ /\ activeCustomer(user) # None /\ Exists(c)
            /\ Serve("createAnnotation", 201, Row) /\ Create([id |-> Row, customer |-> c, author |-> author])
         \/ activeCustomer(user) # None /\ ~Exists(c) /\ Serve("createAnnotation", 500, None) /\ UNCHANGED notes
         \/ RefuseFor(user, "createAnnotation") /\ UNCHANGED notes
      /\ UNCHANGED <<customers, conns, tables, watches, hooks, apiKeys>>

ForTarget(c) == {n \in notes : n.customer = c}

listAnnotations(user) ==
  /\ \/ Serve("listAnnotations", 200, ForTarget(activeCustomer(user)))
     \/ RefuseFor(user, "listAnnotations")
  /\ UNCHANGED <<rowVars, apiKeys>>

(* a goroutine goes from one statement to the next *)
Goes(h, next) == work' = [work EXCEPT ![h] = next]
Ends(h, op, code, next) == Answer(op, code, next.got) /\ Goes(h, next)
Failed(h, op) == Fails /\ Ends(h, op, 500, Resting)

(* the author or, outside production, whoever sends the bypass header *)
MayErase(user, bypass, n) == (bypass /\ ~Prod) \/ (n.author # None /\ n.author = user)

GetAuthor(id) == {n \in notes : n.id = id}

deleteAnnotation(h, user, bypass, id) ==
  /\ Call
  /\ LET rows == GetAuthor(id)
     IN  \/ Works /\ \E n \in rows : MayErase(user, bypass, n) /\ Silent /\ Goes(h, [Resting EXCEPT !.pc = "erase", !.of = id])
         \/ Works /\ (\E n \in rows : ~MayErase(user, bypass, n)) /\ Ends(h, "deleteAnnotation", 403, Resting)
         \/ Works /\ rows = {} /\ Ends(h, "deleteAnnotation", 404, Resting)
         \/ Failed(h, "deleteAnnotation")
  /\ UNCHANGED <<rowVars, apiKeys>>

EraseAnnotation(h) ==
  /\ work[h].pc = "erase"
  /\ \/ Works /\ Delete(work[h].of) /\ Ends(h, "deleteAnnotation", 204, Resting)
     \/ Failed(h, "deleteAnnotation") /\ UNCHANGED notes
  /\ UNCHANGED <<calls, now, customers, conns, tables, watches, hooks>>

-----------------------------------------------------------------------------
(* A reader keeps the rows that were there when it began (must) and those it was given (got). *)
KeyRows(c) == {<<"key", k>> : k \in ToSet(ListAPIKeys(c))}
ConnRows(c) == {<<"conn", k>> : k \in ToSet(ListConnections(c))}
TableRows(conn) == {<<"table", conn, t>> : t \in ToSet(ListSyncedTables(conn))}
WorkspaceRows(c) == KeyRows(c) \cup ConnRows(c) \cup UNION {TableRows(k) : k \in ToSet(ListConnections(c))}

(* pageParams *)
pageLimit(limit) == Min({MaxPage, IF limit = 0 THEN DefaultPage ELSE limit})

applyPage(rows, limit, offset) == IF offset >= Len(rows) THEN <<>> ELSE SubSeq(rows, offset + 1, Min({offset + limit, Len(rows)}))

(* the list of a customer's keys or connections, or of a connection's tables *)
Listed(op, of) ==
  CASE op = "listAPIKeys" -> [i \in DOMAIN ListAPIKeys(of) |-> <<"key", ListAPIKeys(of)[i]>>]
    [] op = "listConnections" -> [i \in DOMAIN ListConnections(of) |-> <<"conn", ListConnections(of)[i]>>]
    [] op = "listSyncedTables" -> [i \in DOMAIN ListSyncedTables(of) |-> <<"table", of, ListSyncedTables(of)[i]>>]

(* one page.  External: a client that wants the whole list asks again from where the last *)
(* page ended until a page is empty                                                       *)
Page(h, op, of, limit) ==
  LET first == work[h].pc # "paging"
      sent == IF first THEN 0 ELSE work[h].sent
      rows == ToSet(applyPage(Listed(op, of), pageLimit(limit), sent))
      next == [Resting EXCEPT !.op = op, !.of = of,
                 !.pc = IF rows = {} THEN "done" ELSE "paging",
                 !.sent = IF rows = {} THEN 0 ELSE sent + Cardinality(rows),
                 !.must = IF first THEN ToSet(Listed(op, of)) ELSE work[h].must,
                 !.got = rows \cup (IF first THEN {} ELSE work[h].got)]
  IN  /\ work[h].pc = "paging" => work[h].op = op /\ work[h].of = of
      /\ \/ Serve(op, 200, rows) /\ Goes(h, next)
         \/ Refuse(op) /\ UNCHANGED work
      /\ UNCHANGED <<rowVars, apiKeys>>

listAPIKeys(h, c, limit) == Page(h, "listAPIKeys", c, limit)
listConnections(h, c, limit) == Page(h, "listConnections", c, limit)
listSyncedTables(h, conn, limit) == Page(h, "listSyncedTables", conn, limit)

(* the tables synced over any connection of the customer *)
Nodes(c) == {t.name : t \in {u \in tables : conns[u.conn].customer = c}}
NodeRows(c) == {<<"node", t>> : t \in Nodes(c)}
EdgeRows(c) == {<<"edge", e[1], e[2]>> : e \in {d \in Edges : d[1] \in Nodes(c) /\ d[2] \in Nodes(c)}}

syncDAG(h, c) ==                         \* the nodes, then the edges
  /\ \/ /\ Call /\ Works /\ Silent
        /\ Goes(h, [Resting EXCEPT !.pc = "edges", !.of = c, !.must = NodeRows(c) \cup EdgeRows(c), !.got = NodeRows(c)])
     \/ Refuse("syncDAG") /\ UNCHANGED work
  /\ UNCHANGED <<rowVars, apiKeys>>

DagEdges(h) ==
  /\ work[h].pc = "edges"
  /\ \/ Works /\ Ends(h, "syncDAG", 200, [work[h] EXCEPT !.pc = "done", !.op = "syncDAG", !.got = @ \cup EdgeRows(work[h].of)])
     \/ Failed(h, "syncDAG")
  /\ UNCHANGED <<calls, now, rowVars>>

workspaceBackup(h, c) ==                 \* the customer
  /\ \/ /\ Exists(c) /\ Call /\ Works /\ Silent
        /\ Goes(h, [Resting EXCEPT !.pc = "conns", !.of = c, !.must = WorkspaceRows(c)])
     \/ ~Exists(c) /\ Serve("workspaceBackup", 404, None) /\ UNCHANGED work
     \/ Call /\ Fails /\ Answer("workspaceBackup", 404, None) /\ UNCHANGED work
  /\ UNCHANGED <<rowVars, apiKeys>>

(* its connections, the tables of each, the keys, and the dumps of the tables this module *)
(* does not have: each in a statement of its own                                          *)
BackupConns(h) ==
  /\ work[h].pc = "conns"
  /\ \/ /\ Works /\ Silent
        /\ Goes(h, [work[h] EXCEPT !.pc = "tables", !.todo = ListConnections(work[h].of), !.got = ConnRows(work[h].of)])
     \/ Failed(h, "workspaceBackup")
  /\ UNCHANGED <<calls, now, rowVars>>

BackupTables(h) ==
  /\ work[h].pc = "tables" /\ work[h].todo # <<>>
  /\ \/ /\ Works /\ Silent
        /\ Goes(h, [work[h] EXCEPT !.todo = Tail(@), !.got = @ \cup TableRows(Head(work[h].todo))])
     \/ Failed(h, "workspaceBackup")
  /\ UNCHANGED <<calls, now, rowVars>>

BackupKeys(h) ==
  /\ work[h].pc = "tables" /\ work[h].todo = <<>>
  /\ \/ Works /\ Silent /\ Goes(h, [work[h] EXCEPT !.pc = "dump", !.got = @ \cup KeyRows(work[h].of)])
     \/ Failed(h, "workspaceBackup")
  /\ UNCHANGED <<calls, now, rowVars>>

dumpRows(h) ==
  /\ work[h].pc = "dump"
  /\ \/ Works /\ Ends(h, "workspaceBackup", 200, [work[h] EXCEPT !.pc = "done", !.op = "workspaceBackup"])
     \/ Failed(h, "workspaceBackup")
  /\ UNCHANGED <<calls, now, rowVars>>

-----------------------------------------------------------------------------
(* Every row that was there when a reader began is in what it was given, and *)
(* it was given nothing of another customer's: a client that follows the     *)
(* pages of a list, the graph that reads its nodes before its edges and the  *)
(* backup that lists a workspace table by table, while other requests add    *)
(* rows, or revoke keys, between their statements: a row that is added ahead *)
(* of the reader's place makes it meet another twice and none never          *)
(* (server.go, sync_dag.go, workspace_backup.go).                            *)
ReadersMissNothing ==
  \A h \in Handlers : work[h].pc = "done" =>
    /\ work[h].must \subseteq work[h].got
    /\ work[h].got \subseteq
         CASE work[h].op = "syncDAG" -> NodeRows(work[h].of) \cup EdgeRows(work[h].of)
           [] work[h].op = "workspaceBackup" -> WorkspaceRows(work[h].of)
           [] OTHER -> ToSet(Listed(work[h].op, work[h].of))
=============================================================================
