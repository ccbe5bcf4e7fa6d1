------------------------------- MODULE Dashboards -------------------------------
(***************************************************************************)
(* Dashboards: their version history, AI edits and restores, snapshots and  *)
(* share tokens (internal/api/dashboard_*.go, internal/dashboards,          *)
(* internal/sharing).  A payload stands for the name and tiles a version    *)
(* carries.  No handler deletes a dashboard.                                *)
(***************************************************************************)
EXTENDS ApiRequests

CONSTANTS Boards,       \* ids of dashboard rows
          Payloads,
          Tokens        \* share tokens; 24 random bytes, so never the same twice

ASSUME DashboardAssumption == None \notin Payloads \cup Boards \cup Tokens

VARIABLES
  dash,       \* table dashboard: the live payload; None: no row
  versions,   \* table dashboard_version, in the order of the inserts
  snapshots,  \* table dashboard_snapshot: token and dashboard
  tokens,     \* table share_token; None: not minted
  editor      \* each handler: its step and local variables

dashboardVars == <<dash, versions, snapshots, tokens, editor>>

IdleEditor == [pc |-> "idle", op |-> None, dash |-> None, payload |-> None, next |-> 0]

DashboardTypeOK ==
  /\ dash \in [Boards -> Payloads \cup {None}]
  /\ versions \in [Boards -> Seq([version : 1 .. MaxCalls, payload : Payloads])]
  /\ snapshots \subseteq Tokens \X Boards
  /\ tokens \in [Tokens -> {None} \cup [dash : Boards, expires : {None} \cup Nat, revoked : BOOLEAN]]
  /\ editor \in [Handlers -> [pc : {"idle", "llm", "max", "insert", "mirror", "show"}, op : {None, "aiEdit", "restore", "public"},
                              dash : Boards \cup {None}, payload : Payloads \cup {None}, next : Nat]]

DashboardInit ==
  /\ dash = [d \in Boards |-> None] /\ versions = [d \in Boards |-> <<>>]
  /\ snapshots = {} /\ tokens = [t \in Tokens |-> None]
  /\ editor = [h \in Handlers |-> IdleEditor]

createDashboard(d, p) ==          \* the audit record's error is ignored
  /\ dash[d] = None
  /\ \/ Serve("createDashboard", 201, d) /\ dash' = [dash EXCEPT ![d] = p]
     \/ Refuse("createDashboard") /\ UNCHANGED dash
  /\ UNCHANGED <<versions, snapshots, tokens, editor>>

listDashboards ==
  /\ Serve("listDashboards", 200, dash) \/ Refuse("listDashboards")
  /\ UNCHANGED dashboardVars

(* Store.Get: the row, or no rows *)
Found(d) == dash[d] # None

End(h, op, code, body) == Answer(op, code, body) /\ editor' = [editor EXCEPT ![h] = IdleEditor]
Goto(h, pc) == editor' = [editor EXCEPT ![h].pc = pc] /\ Silent

dashboardAIEdit(h, d) ==          \* the dashboard is read, then the model is asked
  /\ editor[h].pc = "idle"
  /\ \/ Found(d) /\ Call /\ Works /\ Silent
        /\ editor' = [editor EXCEPT ![h] = [IdleEditor EXCEPT !.pc = "llm", !.op = "aiEdit", !.dash = d]]
     \/ ~Found(d) /\ Serve("dashboardAIEdit", 404, None) /\ UNCHANGED editor
     \/ Call /\ Fails /\ Answer("dashboardAIEdit", 404, None) /\ UNCHANGED editor
  /\ UNCHANGED <<dash, versions, snapshots, tokens>>

CompleteEdit(h) ==                \* an unusable answer (parseDashboardEdit) or no answer ends it
  /\ editor[h].pc = "llm"
  /\ \/ /\ Works /\ Silent
        /\ \E p \in Payloads : editor' = [editor EXCEPT ![h].pc = "max", ![h].payload = p]
     \/ Fails /\ End(h, "dashboardAIEdit", 502, None)
  /\ UNCHANGED <<calls, now, dash, versions, snapshots, tokens>>

HasVersion(d, v) == \E i \in DOMAIN versions[d] : versions[d][i].version = v
Payload(d, v) == versions[d][CHOOSE i \in DOMAIN versions[d] : versions[d][i].version = v].payload

restoreDashboardVersion(h, d, v) ==
  /\ editor[h].pc = "idle"
  /\ \/ HasVersion(d, v) /\ Call /\ Works /\ Silent
        /\ editor' = [editor EXCEPT ![h] = [IdleEditor EXCEPT !.pc = "max", !.op = "restore", !.dash = d, !.payload = Payload(d, v)]]
     \/ ~HasVersion(d, v) /\ Serve("restoreDashboardVersion", 404, None) /\ UNCHANGED editor
     \/ Refuse("restoreDashboardVersion") /\ UNCHANGED editor
  /\ UNCHANGED <<dash, versions, snapshots, tokens>>

(* insertDashboardVersion: the transaction reads MAX(version)+1 ... *)
ReadMax(h) ==
  /\ editor[h].pc = "max"
  /\ LET taken == {versions[editor[h].dash][i].version : i \in DOMAIN versions[editor[h].dash]}
         next == 1 + (IF taken = {} THEN 0 ELSE CHOOSE v \in taken : \A w \in taken : w <= v)
     IN  \/ Works /\ Silent /\ editor' = [editor EXCEPT ![h].pc = "insert", ![h].next = next]
         \/ Fails /\ End(h, editor[h].op, 500, None)
  /\ UNCHANGED <<calls, now, dash, versions, snapshots, tokens>>

(* mutant: no unique key on dashboard_id and version *)
InsertVersionUnchecked(h) ==
  /\ editor[h].pc = "insert"
  /\ Works
  /\ versions' = [versions EXCEPT ![editor[h].dash] = Append(@, [version |-> editor[h].next, payload |-> editor[h].payload])]
  /\ Goto(h, "mirror")
  /\ UNCHANGED <<calls, now, dash, snapshots, tokens>>

(* ... and inserts and commits it, unless UNIQUE (dashboard_id, version) refuses it *)
InsertVersion(h) ==
  /\ editor[h].pc = "insert"
  /\ LET d == editor[h].dash
         row == [version |-> editor[h].next, payload |-> editor[h].payload]
     IN  \/ /\ Works /\ ~HasVersion(d, row.version)
            /\ versions' = [versions EXCEPT ![d] = Append(@, row)]
            /\ Goto(h, "mirror")
         \/ Works /\ HasVersion(d, row.version) /\ End(h, editor[h].op, 500, None) /\ UNCHANGED versions
         \/ Fails /\ End(h, editor[h].op, 500, None) /\ UNCHANGED versions
  /\ UNCHANGED <<calls, now, dash, snapshots, tokens>>

Mirror(h) ==                      \* onto the live row, outside the transaction
  /\ editor[h].pc = "mirror"
  /\ \/ /\ Works /\ dash' = [dash EXCEPT ![editor[h].dash] = editor[h].payload]
        /\ End(h, editor[h].op, 200, editor[h].next)
     \/ Fails /\ End(h, editor[h].op, 500, None) /\ UNCHANGED dash
  /\ UNCHANGED <<calls, now, versions, snapshots, tokens>>

listDashboardVersions(d) ==
  /\ \/ Serve("listDashboardVersions", 200, {versions[d][i].version : i \in DOMAIN versions[d]})
     \/ Refuse("listDashboardVersions")
  /\ UNCHANGED dashboardVars

getDashboardVersion(d, v) ==
  /\ \/ HasVersion(d, v) /\ Serve("getDashboardVersion", 200, Payload(d, v))
     \/ ~HasVersion(d, v) /\ Serve("getDashboardVersion", 404, None)
     \/ Refuse("getDashboardVersion")
  /\ UNCHANGED dashboardVars

Unminted(t) == tokens[t] = None /\ \A d \in Boards : <<t, d>> \notin snapshots

createDashboardSnapshot(t, d) ==
  /\ Unminted(t)
  /\ \/ Found(d) /\ Serve("createDashboardSnapshot", 201, t) /\ snapshots' = snapshots \cup {<<t, d>>}
     \/ ~Found(d) /\ Serve("createDashboardSnapshot", 404, None) /\ UNCHANGED snapshots
     \/ Refuse("createDashboardSnapshot") /\ UNCHANGED snapshots
  /\ UNCHANGED <<dash, versions, tokens, editor>>

getDashboardSnapshot(t) ==        \* the token's dashboard as it is now
  /\ \/ \E d \in Boards : <<t, d>> \in snapshots /\ Serve("getDashboardSnapshot", 200, dash[d])
     \/ (\A d \in Boards : <<t, d>> \notin snapshots) /\ Serve("getDashboardSnapshot", 404, None)
     \/ Refuse("getDashboardSnapshot")
  /\ UNCHANGED dashboardVars

(* sharing.Mint: a token without a ttl has no expiry; every token is for a dashboard, the *)
(* only route that mints one being createDashboardShare                                   *)
Mint(t, d, ttl) ==
  tokens' = [tokens EXCEPT ![t] = [dash |-> d, revoked |-> FALSE, expires |-> IF ttl > 0 THEN now + ttl ELSE None]]

createDashboardShare(t, d, ttl) ==
  /\ Unminted(t)
  /\ \/ Found(d) /\ Serve("createDashboardShare", 201, t) /\ Mint(t, d, ttl)
     \/ ~Found(d) /\ Serve("createDashboardShare", 404, None) /\ UNCHANGED tokens
     \/ Refuse("createDashboardShare") /\ UNCHANGED tokens
  /\ UNCHANGED <<dash, versions, snapshots, editor>>

(* revokeDashboardShare: an unknown token is no error *)
Revoke(t) ==
  /\ \/ /\ Serve("revokeDashboardShare", 204, None)
        /\ tokens' = [tokens EXCEPT ![t] = IF @ = None THEN None ELSE [@ EXCEPT !.revoked = TRUE]]
     \/ Refuse("revokeDashboardShare") /\ UNCHANGED tokens
  /\ UNCHANGED <<dash, versions, snapshots, editor>>

Resolves(t) == tokens[t] # None /\ ~tokens[t].revoked /\ (tokens[t].expires # None => tokens[t].expires > now)

(* the token, then the dashboard *)
publicDashboard(h, t) ==
  /\ editor[h].pc = "idle"
  /\ \/ Resolves(t) /\ Call /\ Works /\ Silent
        /\ editor' = [editor EXCEPT ![h] = [IdleEditor EXCEPT !.pc = "show", !.op = "public", !.dash = tokens[t].dash]]
     \/ ~Resolves(t) /\ Serve("publicDashboard", 404, None) /\ UNCHANGED editor
     \/ Call /\ Fails /\ Answer("publicDashboard", 404, None) /\ UNCHANGED editor
  /\ UNCHANGED <<dash, versions, snapshots, tokens>>

ShowDashboard(h) ==
  /\ editor[h].pc = "show"
  /\ \/ Works /\ Found(editor[h].dash) /\ End(h, "publicDashboard", 200, dash[editor[h].dash])
     \/ Works /\ ~Found(editor[h].dash) /\ End(h, "publicDashboard", 404, None)
     \/ Fails /\ End(h, "publicDashboard", 404, None)
  /\ UNCHANGED <<calls, now, dash, versions, snapshots, tokens>>

DashboardNext ==
  \/ \E d \in Boards, p \in Payloads : createDashboard(d, p)
  \/ listDashboards
  \/ \E h \in Handlers : CompleteEdit(h) \/ ReadMax(h) \/ InsertVersion(h) \/ Mirror(h) \/ ShowDashboard(h)
  \/ \E h \in Free({x \in Handlers : editor[x].pc = "idle"}) :
       \/ \E d \in Boards : dashboardAIEdit(h, d) \/ \E v \in 1 .. MaxCalls : restoreDashboardVersion(h, d, v)
       \/ \E t \in Tokens : publicDashboard(h, t)
  \/ \E d \in Boards : listDashboardVersions(d) \/ \E v \in 1 .. MaxCalls : getDashboardVersion(d, v)
  \/ \E t \in Tokens, d \in Boards :
       \/ createDashboardSnapshot(t, d)
       \/ \E ttl \in 0 .. 1 : createDashboardShare(t, d, ttl)
  \/ \E t \in Tokens : getDashboardSnapshot(t) \/ Revoke(t)

(* The history has no gap and no double number: each version inserted is    *)
(* one above the one before it, however edits and restores of the same      *)
(* dashboard run into each other between MAX(version) and the insert.       *)
VersionsDense == \A d \in Boards : \A i \in DOMAIN versions[d] : versions[d][i].version = i
=============================================================================
