------------------------------ MODULE PgwireSession ------------------------------
(***************************************************************************)
(* One connection of internal/protocols/pgwire: the startup negotiation and *)
(* authentication of serveConn and handleSession, and the frame loop        *)
(* runQueryLoop with its prepared statements, portals and buffered Writer.  *)
(* The client pipelines: it sends frames without waiting for replies.  What *)
(* a statement returns is chosen freely (QueryHandler models it).           *)
(***************************************************************************)
EXTENDS Naturals, Sequences, FiniteSets

CONSTANTS
  Names,       \* names of prepared statements and portals
  SQLs,        \* statement texts
  KeyOwner,    \* the customer each API key that is not revoked belongs to
  Databases,   \* database parameters, as <<customer, warehouse>>
  Server,      \* whether the server has a TLSConfig and an Authenticator
  MaxFrames,   \* bound: frames of one connection
  MaxAhead,    \* bound: frames sent and not yet handled
  None

ASSUME NoneAssumption == None \notin SQLs
ASSUME DatabasesAssumption == \A db \in Databases : db = <<db[1], db[2]>>
ASSUME FramesAssumption == MaxFrames \in Nat /\ MaxAhead \in Nat
ASSUME ServerAssumption == Server \in [tls : BOOLEAN, auth : BOOLEAN]

Keys == DOMAIN KeyOwner
Warehouses == {"bigquery", "snowflake", "databricks"}

Frame(t, name, ref) == [t |-> t, name |-> name, ref |-> ref]
Frames ==
  {Frame("Query", None, x) : x \in SQLs \cup {None}}       \* None: empty after trimming
    \cup {Frame("Parse", n, x) : n \in Names, x \in SQLs \cup {None}}  \* None: a short body
    \cup {Frame("Bind", p, n) : p \in Names, n \in Names \cup {None}}  \* None: a short body
    \cup {Frame("Describe", t, n) : t \in {"S", "P", None}, n \in Names}
    \cup {Frame("Execute", p, None) : p \in Names}
    \cup {Frame(t, None, None) : t \in {"Sync", "Flush", "Close", "Terminate", "Other"}}

VARIABLES
  phase,       \* "startup", "password", "ready" or "closed"
  tls,         \* the connection has been upgraded
  database,    \* what the startup message asks for
  identity,    \* Session.Identity
  asked,       \* the frames the client has sent
  handled,     \* number of frames runQueryLoop has handled
  stmts,       \* Session.preparedStatements: SQL by name
  portals,     \* Session.portals: SQL of the statement bound, by name
  wbuf,        \* messages in the Writer's buffer, each with the frame it answers
  received,    \* messages the client has received
  flushed      \* history: frames handled when the buffer was last empty

session == <<tls, database, identity>>
vars == <<session, phase, asked, handled, stmts, portals, wbuf, received, flushed>>

MessageTypes == {"T", "C", "E", "Z", "I", "1", "2", "3", "t", "n"}
Tagged == [m : MessageTypes, of : 1 .. MaxFrames]

TypeOK ==
  /\ tls \in BOOLEAN
  /\ phase \in {"startup", "password", "ready", "closed"}
  /\ {identity, database} \subseteq Databases \cup {None}
  /\ asked \in Seq(Frames) /\ Len(asked) <= MaxFrames /\ handled \in 0 .. Len(asked)
  /\ stmts \in [Names -> SQLs \cup {None}] /\ portals \in [Names -> SQLs \cup {None}]
  /\ wbuf \in Seq(Tagged) /\ received \in Seq(Tagged) /\ flushed \in 0 .. handled

Init ==
  /\ phase = "startup" /\ tls = FALSE /\ database = None /\ identity = None
  /\ asked = <<>> /\ handled = 0
  /\ stmts = [n \in Names |-> None] /\ portals = [n \in Names |-> None]
  /\ wbuf = <<>> /\ received = <<>> /\ flushed = 0

-----------------------------------------------------------------------------
(* serveConn, handleSession *)

loop == <<asked, handled, stmts, portals, wbuf, received, flushed>>

SSLRequest ==         \* answered S and upgraded, or N; the client may ask again
  /\ phase = "startup"
  /\ tls' = Server.tls
  /\ UNCHANGED <<phase, database, identity, loop>>

Startup(db) ==        \* without an Authenticator anyone is accepted
  /\ phase = "startup"
  /\ phase' = IF Server.auth THEN "password" ELSE "ready"
  /\ database' = db
  /\ identity' = IF Server.auth THEN None ELSE db
  /\ UNCHANGED <<tls, loop>>

\* the customer of a key that is not revoked, None when there is no such key
LookupAPIKey(key) == IF key \in Keys THEN KeyOwner[key] ELSE None

\* mutant: any key that is not revoked opens any database
AuthenticatesAnyKey(key, db) == db[2] \in Warehouses /\ LookupAPIKey(key) # None

\* ParseDatabase and Authenticate: the key must belong to the customer that the
\* part of the database parameter before the last underscore names.
Authenticates(key, db) == db[2] \in Warehouses /\ LookupAPIKey(key) # None /\ LookupAPIKey(key) = db[1]

Password(key) ==      \* a FATAL error and the end of the connection otherwise
  /\ phase = "password"
  /\ IF Authenticates(key, database)
     THEN phase' = "ready" /\ identity' = <<LookupAPIKey(key), database[2]>>
     ELSE phase' = "closed" /\ UNCHANGED identity
  /\ UNCHANGED <<tls, database, loop>>

Disconnect ==         \* a read fails, or the handshake, or the first frame is not a password
  /\ phase # "closed" /\ phase' = "closed"
  /\ UNCHANGED <<session, loop>>

-----------------------------------------------------------------------------
(* runQueryLoop: each handler writes messages and may flush *)

Send(f) ==            \* the client
  /\ phase = "ready" /\ Len(asked) < MaxFrames /\ Len(asked) < handled + MaxAhead
  /\ asked' = Append(asked, f)
  /\ UNCHANGED <<session, phase, handled, stmts, portals, wbuf, received, flushed>>

Tag(ms) == [i \in DOMAIN ms |-> [m |-> ms[i], of |-> handled + 1]]

\* mutant: what is flushed overtakes what was still in the buffer
WriteFlushAhead(ms) ==
  /\ received' = received \o Tag(ms) \o wbuf
  /\ wbuf' = <<>>
  /\ flushed' = handled + 1

\* Write then flush.  The buffer of the Writer may also overflow while a
\* statement returns rows: spill messages then leave it early.
WriteFlush(ms) ==
  /\ received' = received \o wbuf \o Tag(ms)
  /\ wbuf' = <<>>
  /\ flushed' = handled + 1
Write(ms, spill) ==
  LET all == wbuf \o Tag(ms)
  IN /\ received' = received \o SubSeq(all, 1, spill)
     /\ wbuf' = SubSeq(all, spill + 1, Len(all))
     /\ flushed' = flushed

\* What Handler.execute writes (T stands for its rows), and whether it returns an
\* error.  It writes its errors itself and returns nil, but for a session without
\* an identity; the fallback may follow rows of DuckDB with those of the warehouse.
Outcomes == {[ms |-> <<"T", "C">>, err |-> FALSE], [ms |-> <<"T", "T", "C">>, err |-> FALSE],
             [ms |-> <<"E">>, err |-> FALSE], [ms |-> <<"T", "E">>, err |-> FALSE],
             [ms |-> <<"T", "T", "E">>, err |-> FALSE], [ms |-> <<>>, err |-> TRUE]}

Next1 == asked[handled + 1]
Handling(t) == phase = "ready" /\ handled < Len(asked) /\ Next1.t = t /\ handled' = handled + 1
kept == <<session, phase, asked>>

OnQuery ==            \* an error is written, ReadyForQuery always follows
  /\ Handling("Query")
  /\ IF Next1.ref = None THEN WriteFlush(<<"I", "Z">>)
     ELSE \E o \in Outcomes : WriteFlush(o.ms \o (IF o.err THEN <<"E", "Z">> ELSE <<"Z">>))
  /\ UNCHANGED <<kept, stmts, portals>>

handleParse ==        \* ParseComplete stays in the buffer, an error is flushed
  /\ Handling("Parse")
  /\ IF Next1.ref # None
     THEN stmts' = [stmts EXCEPT ![Next1.name] = Next1.ref] /\ Write(<<"1">>, 0)
     ELSE UNCHANGED stmts /\ WriteFlush(<<"E">>)
  /\ UNCHANGED <<kept, portals>>

handleBind ==         \* the portal keeps the statement it was bound to
  /\ Handling("Bind")
  /\ IF Next1.ref # None /\ stmts[Next1.ref] # None
     THEN portals' = [portals EXCEPT ![Next1.name] = stmts[Next1.ref]] /\ Write(<<"2">>, 0)
     ELSE UNCHANGED portals /\ WriteFlush(<<"E">>)
  /\ UNCHANGED <<kept, stmts>>

handleDescribe ==     \* parameters for a statement, known or not; never a row description
  /\ Handling("Describe")
  /\ WriteFlush(CASE Next1.name = "S" -> <<"t", "n">> [] Next1.name = "P" -> <<"n">> [] OTHER -> <<"E">>)
  /\ UNCHANGED <<kept, stmts, portals>>

handleExecute ==
  /\ Handling("Execute")
  /\ IF portals[Next1.name] = None THEN WriteFlush(<<"E">>)
     ELSE \E o \in Outcomes :
            IF o.err THEN WriteFlush(o.ms \o <<"E">>)
            ELSE \E spill \in {0, Len(wbuf) + Len(o.ms) - 1} : Write(o.ms, spill)
  /\ UNCHANGED <<kept, stmts, portals>>

OnSync == Handling("Sync") /\ WriteFlush(<<"Z">>) /\ UNCHANGED <<kept, stmts, portals>>
OnClose == Handling("Close") /\ WriteFlush(<<"3">>) /\ UNCHANGED <<kept, stmts, portals>>
OnFlush == Handling("Flush") /\ WriteFlush(<<>>) /\ UNCHANGED <<kept, stmts, portals>>
Unhandled == Handling("Other") /\ Write(<<>>, 0) /\ UNCHANGED <<kept, stmts, portals>>
Terminate == /\ phase = "ready" /\ handled < Len(asked) /\ Next1.t = "Terminate"
             /\ phase' = "closed" /\ UNCHANGED <<session, loop>>

RunQueryLoop == \/ OnQuery \/ handleParse \/ handleBind \/ handleDescribe \/ handleExecute
                \/ OnSync \/ OnClose \/ OnFlush \/ Unhandled \/ Terminate

Next == \/ SSLRequest
        \/ \E db \in Databases : Startup(db)
        \/ \E key \in Keys \cup {None} : Password(key)
        \/ \E f \in Frames : Send(f)
        \/ RunQueryLoop
        \/ Disconnect

\* The goroutine of the connection runs: a frame that has arrived is handled, unless
\* the client has stopped reading (no connection is given a deadline): here it reads
\* all it is sent, and PgwireServer has the client that does not.
Spec == Init /\ [][Next]_vars /\ WF_vars(RunQueryLoop)

-----------------------------------------------------------------------------
(* Properties *)

\* The messages by which a client knows that the answer to a frame ends
\* ("1 ParseComplete, 2 BindComplete, 3 CloseComplete",
\* docs/architecture/pg-wire-protocol.md), and a reply with one such end: n
\* messages of which the last ends it, and ReadyForQuery behind them for Query
\* and Sync only.  How many row descriptions come first is not its business.
Ends(f) ==
  CASE f.t \in {"Query", "Execute"} -> {"C", "E", "I"}
    [] f.t = "Parse" -> {"1", "E"}
    [] f.t = "Bind" -> {"2", "E"}
    [] f.t = "Describe" -> {"T", "n", "E"}
    [] f.t = "Close" -> {"3", "E"}
    [] OTHER -> {}
Complete(f, ms) ==
  LET n == IF f.t \in {"Query", "Sync"} THEN Len(ms) - 1 ELSE Len(ms)
  IN /\ n >= 0 /\ (n = 0 <=> Ends(f) = {})
     /\ \A i \in DOMAIN ms : ms[i] = "Z" <=> i > n
     /\ \A i \in 1 .. n : ms[i] \in Ends(f) <=> i = n

\* The reply to a frame, as the client puts it together: as many messages as
\* answer the frame, right behind those that answer the frames before it.
ReplyTo(i) ==
  LET upto(k) == Cardinality({j \in DOMAIN received : received[j].of <= k})
  IN  [j \in 1 .. upto(i) - upto(i - 1) |-> received[upto(i - 1) + j].m]

\* The session implements RequestReply: whatever is pipelined and wherever the
\* buffer is flushed or spills, replies arrive whole, with one end each, in order,
\* and a Query or Sync is answered (session.go, runQueryLoop).
Replies == INSTANCE RequestReply WITH
  Messages <- Frames, RoundEnds <- {f \in Frames : f.t \in {"Query", "Sync"}},
  Complete <- Complete, MaxAsked <- MaxFrames,
  replies <- [i \in 1 .. flushed |-> ReplyTo(i)], open <- phase = "ready"
ImplementsRequestReply == Replies!Spec

\* Frames are executed only for the customer the API key belongs to: where an
\* Authenticator is configured, a session that handles frames works for the
\* customer and the warehouse its startup message named, and holds a key of
\* that customer (auth.go, handleSession).
HandledForKeyOwner ==
  (handled > 0 /\ Server.auth) =>
    identity = database /\ database[2] \in Warehouses /\ \E k \in Keys : KeyOwner[k] = database[1]
=============================================================================
