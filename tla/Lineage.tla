-------------------------------- MODULE Lineage --------------------------------
(***************************************************************************)
(* Lineage: what a statement reads and writes (internal/router's table      *)
(* extraction, internal/lineage), the edges the proxy's consumer records,   *)
(* the graph and impact walks over them, and the verdict on a pull request. *)
(*                                                                          *)
(* SQL is a syntax tree.  A query is [is |-> "select", with, from, targets, *)
(* where] or [is |-> "union", l, r]; a from item is a relation, a subselect *)
(* or a join; a target is a name (None without an alias) and an expression: *)
(* a column reference, an operator over expressions or a subquery used as a *)
(* value; where is <<>> or one expression.                                  *)
(* Names are lower case.  A table is <<t>>, a column <<t, c>>.  The nesting *)
(* limit (maxColDepth) and the size limit of a statement are not reached.   *)
(***************************************************************************)
EXTENDS Naturals, Sequences, FiniteSets, FiniteSetsExt, SequencesExt

CONSTANTS
  Statements,   \* what sessions run: [kind, target, query]
  Queries,      \* queries the extraction is checked on
  Schema,       \* the columns each base table has, which the extractor does not know
  Diffs,        \* diffs of pull requests: sequences of lines
  QueueCap,     \* jobs lineageCh holds (256 in the code)
  Depths,       \* depths the walks are asked for
  None

VARIABLES edges, queue, job     \* table lineage_edge; lineageCh; what the consumer has left to write

vars == <<edges, queue, job>>

-----------------------------------------------------------------------------
(* internal/router: the tables of a query.                                   *)
(* The walk of the tree: a select's FROM and WITH, set operands, joins and    *)
(* subselects.  It enters neither the target list nor a subquery in an       *)
(* expression: in WHERE there is nothing it knows.                           *)
RECURSIVE walkProto(_)
walkProto(n) ==
  CASE n.is = "select" -> UNION {walkProto(n.from[i]) : i \in DOMAIN n.from}
                            \cup UNION {walkProto(n.with[i].query) : i \in DOMAIN n.with}
    [] n.is = "rel" -> {n.name}
    [] n.is = "sub" -> walkProto(n.query)
    [] n.is \in {"union", "join"} -> walkProto(n.l) \cup walkProto(n.r)

(* The parts a node is made of. *)
Children(n) ==
  CASE n.is = "select" -> {n.from[i] : i \in DOMAIN n.from} \cup {n.with[i].query : i \in DOMAIN n.with}
                            \cup {n.targets[i].expr : i \in DOMAIN n.targets} \cup {n.where[i] : i \in DOMAIN n.where}
    [] n.is = "op" -> n.args
    [] n.is \in {"sub", "value"} -> {n.query}
    [] n.is \in {"union", "join"} -> {n.l, n.r}
    [] OTHER -> {}
RECURSIVE Parts(_)
Parts(n) == {n} \cup UNION {Parts(m) : m \in Children(n)}

(* The scrape takes the word after each FROM and JOIN that stands between     *)
(* blanks (spaced: the keywords that do), wherever in the text: of a list    *)
(* with commas the first item only, and of a subselect its own SELECT.       *)
FirstWord(n) ==
  CASE n.is = "rel" -> n.name
    [] n.is = "sub" -> IF n.query.is = "select" /\ n.query.with # <<>> THEN "WITH" ELSE "SELECT"
RECURSIVE Leftmost(_)
Leftmost(n) == IF n.is = "join" THEN Leftmost(n.l) ELSE n
extractViaScrape(q, spaced) ==
  {FirstWord(Leftmost(n.from[1])) : n \in {m \in Parts(q) : m.is = "select" /\ m.from # <<>> /\ "FROM" \in spaced}}
    \cup {FirstWord(Leftmost(n.r)) : n \in {m \in Parts(q) : m.is = "join" /\ "JOIN" \in spaced}}

(* the tree is walked only when the scrape finds nothing *)
ExtractTables(q, spaced) ==
  LET found == extractViaScrape(q, spaced)
  IN  IF found # {} THEN found ELSE walkProto(q)

OneLine == {"FROM", "JOIN"}     \* the layout of a statement on one line

Classify(s) == CASE s.kind = "select" -> "select" [] s.kind \in {"insert", "update", "merge"} -> "dml" [] OTHER -> "ddl"

(* Router.Decide; fresh: the tables that are live and synced within the threshold *)
Decide(s, spaced, fresh) ==
  IF /\ Classify(s) = "select"
     /\ ExtractTables(s.query, spaced) # {}
     /\ ExtractTables(s.query, spaced) \subseteq fresh
  THEN "duckdb" ELSE "warehouse"

-----------------------------------------------------------------------------
(* internal/lineage/columns.go: which columns feed an output column.         *)
NoMap == [x \in {} |-> {}]
Get(f, k) == IF k \in DOMAIN f THEN f[k] ELSE {}
Merge(f, g) == [k \in DOMAIN f \cup DOMAIN g |-> Get(f, k) \cup Get(g, k)]
Bind(f, k, v) == [x \in DOMAIN f \cup {k} |-> IF x = k THEN v ELSE f[x]]

(* the leaves of a from clause, joins opened *)
RECURSIVE Leaves(_)
Leaves(n) == IF n.is = "join" THEN Leaves(n.l) \o Leaves(n.r) ELSE <<n>>

(* mutant: a name without a qualifier is taken for a column of the first table *)
resolveColumnFirst(sc, ref) ==
  IF ref.qual \in DOMAIN sc.tables THEN {[fqn |-> <<sc.tables[ref.qual], ref.col>>, conf |-> "exact"]}
  ELSE IF ref.qual \in DOMAIN sc.derived THEN Get(sc.derived[ref.qual], ref.col)
  ELSE IF sc.bases # <<>> THEN {[fqn |-> <<sc.bases[1], ref.col>>, conf |-> "exact"]}
  ELSE UNION {Get(sc.derived[a], ref.col) : a \in DOMAIN sc.derived}

resolveColumn(sc, ref) ==
  LET base(t, conf) == [fqn |-> <<t, ref.col>>, conf |-> conf]
      through == {Get(sc.derived[a], ref.col) : a \in DOMAIN sc.derived}
  IN  CASE ref.col = "*" -> {}
        [] ref.qual # None /\ ref.qual \in DOMAIN sc.tables -> {base(sc.tables[ref.qual], "exact")}
        [] ref.qual # None /\ ref.qual \notin DOMAIN sc.tables ->
             IF ref.qual \in DOMAIN sc.derived THEN Get(sc.derived[ref.qual], ref.col) ELSE {}
        [] ref.qual = None /\ Len(sc.bases) = 1 /\ DOMAIN sc.derived = {} -> {base(sc.bases[1], "exact")}
        [] ref.qual = None /\ Len(sc.bases) = 0 /\ Cardinality(DOMAIN sc.derived) = 1 -> UNION through
        [] OTHER -> {base(sc.bases[i], "ambiguous") : i \in DOMAIN sc.bases}
                      \cup {[r EXCEPT !.conf = "ambiguous"] : r \in UNION through}

(* every reference below an expression: those of a scalar subquery's targets too *)
RECURSIVE columnRefsIn(_)
columnRefsIn(x) ==
  CASE x.is = "ref" -> {x}
    [] x.is = "op" -> UNION {columnRefsIn(a) : a \in x.args}
    [] x.is = "value" -> UNION {columnRefsIn(x.query.targets[i].expr) : i \in DOMAIN x.query.targets}

targetName(t) == IF t.name # None THEN t.name ELSE IF t.expr.is = "ref" THEN t.expr.col ELSE "*"

RECURSIVE projection(_, _)

(* a FROM entry that names a CTE binds to what the CTE projects *)
addFrom(sc, n, ctes) ==
  CASE n.is = "sub" -> [sc EXCEPT !.derived = Bind(@, n.alias, projection(n.query, ctes))]
    [] n.is = "rel" /\ n.name \in DOMAIN ctes -> [sc EXCEPT !.derived = Bind(@, n.alias, ctes[n.name])]
    [] OTHER -> [sc EXCEPT !.tables = Bind(@, n.alias, n.name), !.bases = Append(@, n.name)]

(* a CTE sees those defined before it *)
buildScope(q, outerCTEs) ==
  LET ctes == FoldLeft(LAMBDA m, c : Bind(m, c.name, projection(c.query, m)), outerCTEs, q.with)
      leaves == FlattenSeq([i \in DOMAIN q.from |-> Leaves(q.from[i])])
  IN  FoldLeft(LAMBDA sc, n : addFrom(sc, n, ctes), [tables |-> NoMap, derived |-> NoMap, bases |-> <<>>], leaves)

NamedTargets(q) == {i \in DOMAIN q.targets : targetName(q.targets[i]) # "*"}
Outputs(q) == {targetName(q.targets[i]) : i \in NamedTargets(q)}
RefsOf(q, n) == UNION {columnRefsIn(q.targets[i].expr) : i \in {j \in NamedTargets(q) : targetName(q.targets[j]) = n}}

(* output columns, each with the columns that feed it; a set operation merges its arms by name *)
projection(q, outerCTEs) ==
  IF q.is = "union" THEN Merge(projection(q.l, outerCTEs), projection(q.r, outerCTEs))
  ELSE [n \in Outputs(q) |-> UNION {resolveColumn(buildScope(q, outerCTEs), r) : r \in RefsOf(q, n)}]

Edge(up, down, type, conf) == [up |-> up, down |-> down, type |-> type, conf |-> conf]

resolveColumns(s) ==
  LET proj == projection(s.query, NoMap)
  IN  UNION {{Edge(r.fqn, <<s.target, c>>, "column", r.conf) : r \in proj[c]} : c \in DOMAIN proj}

(* Extractor.Extract.  A SELECT writes nothing.  The sources of UPDATE and    *)
(* MERGE are passed on as text, and the deparser has no text for a node that  *)
(* is no statement: they yield no edge.                                       *)
Extract(s) ==
  IF s.kind \notin {"insert", "ctas", "view"} THEN {}
  ELSE {Edge(<<t>>, <<s.target>>, "table", "exact") : t \in ExtractTables(s.query, OneLine)}
         \cup resolveColumns(s)

-----------------------------------------------------------------------------
(* Recording.  The proxy queues a statement that succeeded, or drops it when  *)
(* the queue is full; one consumer extracts and upserts edge by edge, and     *)
(* stops at the first error.                                                  *)
SameRow(e, f) == e.up = f.up /\ e.down = f.down /\ e.type = f.type    \* the origin is always runtime

Write(e) == edges' = {f \in edges : ~SameRow(e, f)} \cup {e}

Init == edges = {} /\ queue = <<>> /\ job = {}

captureLineage(s) ==
  /\ queue' = IF Len(queue) < QueueCap THEN Append(queue, s) ELSE queue
  /\ UNCHANGED <<edges, job>>

lineageConsumer ==
  /\ job = {} /\ queue # <<>>
  /\ job' = Extract(Head(queue))
  /\ queue' = Tail(queue)
  /\ UNCHANGED edges

recordEdge(e) == e \in job /\ Write(e) /\ job' = job \ {e} /\ UNCHANGED queue

recordFails == job # {} /\ job' = {} /\ UNCHANGED <<edges, queue>>     \* an error, or the 30 s are over

lineageQuit == queue # <<>> /\ queue' = <<>> /\ UNCHANGED <<edges, job>>   \* Close: what is queued is lost

Next ==
  \/ \E s \in Statements : captureLineage(s)
  \/ lineageConsumer
  \/ \E e \in job : recordEdge(e)
  \/ recordFails
  \/ lineageQuit

Spec == Init /\ [][Next]_vars

-----------------------------------------------------------------------------
(* Walks.                                                                     *)
Downstream(n) == {e \in edges : e.up = n}
Upstream(n) == {e \in edges : e.down = n}
Far(e, down) == IF down THEN e.down ELSE e.up
From(n, down) == IF down THEN Downstream(n) ELSE Upstream(n)

(* the recursive query: rows [edge, depth, path], the path being what a cycle may not revisit *)
RECURSIVE walkSQL(_, _, _, _)
walkSQL(rows, down, type, depth) ==
  LET more == UNION {{[edge |-> e, depth |-> w.depth + 1, path |-> w.path \cup {Far(e, down)}] :
                        e \in {x \in From(Far(w.edge, down), down) : x.type = type /\ Far(x, down) \notin w.path}} :
                     w \in {x \in rows : x.depth < depth}}
  IN  IF more = {} THEN rows ELSE rows \cup walkSQL(more, down, type, depth)

(* Writer.Graph: a column graph rooted at a table starts from its columns *)
Graph(root, down, type, asked) ==
  LET depth == IF asked = 0 THEN 5 ELSE IF asked > 10 THEN 10 ELSE asked
      anchored(e) == LET n == IF down THEN e.up ELSE e.down
                     IN  n = root \/ (type = "column" /\ Len(n) = 2 /\ <<n[1]>> = root)
      start == {[edge |-> e, depth |-> 1, path |-> {e.up, e.down}] : e \in {x \in edges : x.type = type /\ anchored(x)}}
      rows == walkSQL(start, down, type, depth)
      seen == {[node |-> n, depth |-> w.depth] : <<n, w>> \in {<<w.edge.up, w>> : w \in rows} \cup {<<w.edge.down, w>> : w \in rows}}
                \cup (IF type = "table" THEN {[node |-> root, depth |-> 0]} ELSE {})
  IN  [edges |-> {w.edge : w \in rows}, truncated |-> \E w \in rows : w.depth >= depth,
       depth |-> [n \in {x.node : x \in seen} |-> Min({x.depth : x \in {y \in seen : y.node = n}})]]

granularityForKind(kind) == IF kind \in {"drop_column", "rename_column", "type_change"} THEN "column" ELSE "table"

severityForKind(kind) ==
  IF kind \in {"drop_column", "drop_table", "rename_column", "rename_table", "type_change"} THEN "breaking" ELSE "warning"

(* mutant: edges of either granularity are followed *)
StepAny(kind, seen, level) == {e.down : e \in {x \in edges : x.up \in level}} \ seen

(* one level of the breadth-first walk of Preview *)
Step(kind, seen, level) ==
  {e.down : e \in {x \in edges : x.up \in level /\ x.type = granularityForKind(kind)}} \ seen

(* Preview: the hits of a change, each with its hops *)
RECURSIVE previewFrom(_, _, _, _, _)
previewFrom(kind, seen, level, hops, maxDepth) ==
  LET next == Step(kind, seen, level)
  IN  IF hops > maxDepth \/ level = {} THEN {}
      ELSE {[fqn |-> n, hops |-> hops, severity |-> severityForKind(kind)] : n \in next}
             \cup previewFrom(kind, seen \cup next, next, hops + 1, maxDepth)

Preview(change, maxDepth) ==
  previewFrom(change.kind, {change.fqn}, {change.fqn}, 1, IF maxDepth = 0 THEN 5 ELSE maxDepth)

-----------------------------------------------------------------------------
(* A pull request.  A line of a diff is [k, arg]: "diff" starts a file (arg   *)
(* its path), then "new", "deleted", "rename" (arg the old path), "drop" (an  *)
(* added line that drops column arg), or any other line.  A path is           *)
(* [name, sql, model].                                                        *)
ParseDiff(diff) ==
  LET last(fs) == fs[Len(fs)]
      put(fs, f) == [fs EXCEPT ![Len(fs)] = f]
      read(fs, line) ==
        CASE line.k = "diff" -> Append(fs, [path |-> line.arg, old |-> line.arg, status |-> "modified", drops |-> {}])
          [] line.k # "diff" /\ fs = <<>> -> fs
          [] line.k = "new" /\ fs # <<>> -> put(fs, [last(fs) EXCEPT !.status = "added"])
          [] line.k = "deleted" /\ fs # <<>> -> put(fs, [last(fs) EXCEPT !.status = "removed"])
          [] line.k = "rename" /\ fs # <<>> -> put(fs, [last(fs) EXCEPT !.status = "renamed", !.old = line.arg])
          [] line.k = "drop" /\ fs # <<>> -> put(fs, [last(fs) EXCEPT !.drops = @ \cup {line.arg}])
          [] OTHER -> fs
  IN  FoldLeft(read, <<>>, diff)

DetectChanges(files) ==
  LET of(f) == {[kind |-> "drop_column", fqn |-> c] : c \in f.drops}
                 \cup (IF f.status = "removed" /\ f.path.model THEN {[kind |-> "drop_table", fqn |-> <<f.path.name>>]} ELSE {})
                 \cup (IF f.status = "renamed" /\ f.old.model THEN {[kind |-> "rename_table", fqn |-> <<f.old.name>>]} ELSE {})
  IN  UNION {of(files[i]) : i \in {j \in DOMAIN files : files[j].path.sql \/ files[j].old.sql}}

(* AnalyzePR: the hits of all changes, each node once, with the fewest hops *)
Hits(changes) ==
  LET all == UNION {Preview(c, 5) : c \in changes}
  IN  {[fqn |-> n, hops |-> Min({h.hops : h \in {x \in all : x.fqn = n}}),
        severity |-> IF \E h \in all : h.fqn = n /\ h.severity = "breaking" THEN "breaking" ELSE "warning"] :
       n \in {h.fqn : h \in all}}

(* failing: the tables whose latest data-quality run failed *)
Conclusion(changes, failing) ==
  LET hits == Hits(changes)
      tables == {<<h.fqn[1]>> : h \in hits} \cup {<<c.fqn[1]>> : c \in changes}
  IN  IF tables \cap failing # {} THEN "action_required"
      ELSE IF hits = {} THEN "success"
      ELSE IF Cardinality(hits) >= 3 \/ \E h \in hits : h.severity = "breaking" THEN "action_required" ELSE "neutral"

-----------------------------------------------------------------------------
(* What the walks and the extraction are to compute.                          *)
Nodes == {e.up : e \in edges} \cup {e.down : e \in edges}

Kinds == {"type_change", "drop_table"}      \* one of each granularity

(* Hops are distances: the hits of a change are what its edges reach within   *)
(* the depth, each at one hop more than its nearest predecessor, and nothing  *)
(* on a cycle twice.                                                          *)
PreviewExact ==
  \A kind \in Kinds, root \in Nodes, d \in Depths \ {0} :
    LET hits == Preview([kind |-> kind, fqn |-> root], d)
        at == [n \in {h.fqn : h \in hits} |-> Min({h.hops : h \in {x \in hits : x.fqn = n}})]
        hops(n) == IF n = root THEN 0 ELSE at[n]
        before(n) == {e.up : e \in {x \in edges : x.down = n /\ x.type = granularityForKind(kind)}}
                       \cap (DOMAIN at \cup {root})
    IN  /\ Cardinality(hits) = Cardinality(DOMAIN at) /\ root \notin DOMAIN at
        /\ \A n \in DOMAIN at : before(n) # {} /\ at[n] = 1 + Min({hops(m) : m \in before(n)}) /\ at[n] <= d
        /\ \A n \in Nodes \ {root} : (\E m \in before(n) : hops(m) < d) => n \in DOMAIN at

(* The graph and the preview agree on what is downstream and how far, and a   *)
(* graph that does not call itself truncated has every edge that can be       *)
(* reached without coming back to a node of its own path.                     *)
GraphComplete ==
  \A root \in {n \in Nodes : Len(n) = 1}, d \in Depths :
    LET g == Graph(root, TRUE, "table", d)
        up == Graph(root, FALSE, "table", d)
        hits == Preview([kind |-> "drop_table", fqn |-> root], d)
    IN  /\ DOMAIN g.depth = {root} \cup {h.fqn : h \in hits}
        /\ \A h \in hits : g.depth[h.fqn] = h.hops
        /\ \A e \in edges : e.type = "table" /\ e.up \in DOMAIN g.depth /\ ~g.truncated => e.down \in DOMAIN g.depth
        /\ \A e \in edges : e.type = "table" /\ e.down \in DOMAIN up.depth /\ ~up.truncated => e.up \in DOMAIN up.depth

(* A pull request is called safe only when nothing recorded depends on what   *)
(* it drops or renames.                                                       *)
VerdictSound ==
  \A diff \in Diffs :
    LET changes == DetectChanges(ParseDiff(diff))
    IN  Conclusion(changes, {}) = "success" =>
          \A c \in changes, e \in edges : e.up = c.fqn /\ e.down # c.fqn => e.type # granularityForKind(c.kind)

(* The three walks over the recorded edges, whatever the consumer recorded,   *)
(* dropped or lost: the preview is exact, the graph agrees with it and says   *)
(* when it is cut, and a safe verdict has nothing recorded against it         *)
(* (internal/impact/impact.go, internal/lineage/graph.go,                     *)
(* internal/githubapp/analysis.go, report.go).                                *)
WalksExact == PreviewExact /\ GraphComplete /\ VerdictSound

(* SQL's own rules, with the schema at hand.  A query's columns in order,     *)
(* each with its name (None if it has none) and the base columns its value   *)
(* is computed from: the arms of a UNION match by position and the left one  *)
(* names them; a name is looked for in the query's own FROM, then in those   *)
(* of the queries around it (levels, innermost first).                       *)
RECURSIVE Meaning(_, _, _)
RECURSIVE Feeds(_, _, _)
Feeds(x, ctes, levels) ==
  CASE x.is = "ref" -> LET named(l) == {c \in l : c.col = x.col /\ x.qual \in {None, c.of}}
                           hits == {i \in DOMAIN levels : named(levels[i]) # {}}
                       IN  IF hits = {} THEN {} ELSE UNION {c.feeds : c \in named(levels[Min(hits)])}
    [] x.is = "op" -> UNION {Feeds(a, ctes, levels) : a \in x.args}
    [] x.is = "value" -> UNION {c.feeds : c \in ToSet(Meaning(x.query, ctes, levels))}

Meaning(q, ctes, levels) ==
  IF q.is = "union"
  THEN LET l == Meaning(q.l, ctes, levels)
           r == Meaning(q.r, ctes, levels)
       IN  [i \in DOMAIN l |-> [l[i] EXCEPT !.feeds = @ \cup r[i].feeds]]
  ELSE LET known == FoldLeft(LAMBDA m, c : Bind(m, c.name, Meaning(c.query, m, levels)), ctes, q.with)
           columns(n) == CASE n.is = "sub" -> ToSet(Meaning(n.query, known, levels))
                           [] n.is = "rel" /\ n.name \in DOMAIN known -> ToSet(known[n.name])
                           [] OTHER -> {[name |-> c, feeds |-> {<<n.name, c>>}] : c \in Schema[n.name]}
           items == UNION {ToSet(Leaves(f)) : f \in ToSet(q.from)}
           own == UNION {{[of |-> n.alias, col |-> c.name, feeds |-> c.feeds] : c \in columns(n)} : n \in items}
           name(t) == IF t.name = None /\ t.expr.is = "ref" THEN t.expr.col ELSE t.name
       IN  [i \in DOMAIN q.targets |-> [name |-> name(q.targets[i]), feeds |-> Feeds(q.targets[i].expr, known, <<own>> \o levels)]]

(* The base tables a query reads; a name that a WITH in scope defines is none. *)
RECURSIVE Reads(_, _)
Reads(n, ctes) ==
  IF n.is = "rel" THEN {n.name} \ ctes
  ELSE IF n.is # "select" THEN UNION {Reads(m, ctes) : m \in Children(n)}
  ELSE LET before(k) == ctes \cup {n.with[i].name : i \in 1 .. k - 1}
           bodies == {n.with[i].query : i \in DOMAIN n.with}
       IN  UNION {Reads(n.with[k].query, before(k)) : k \in DOMAIN n.with}
             \cup UNION {Reads(m, before(Len(n.with) + 1)) : m \in Children(n) \ bodies}

(* What the extraction does not see right: a list with a comma, a subquery in *)
(* an expression, and arms of a UNION that name their columns differently.   *)
Listed(q) == \E n \in Parts(q) : n.is = "select" /\ Len(n.from) > 1
Nested(q) == \E n \in Parts(q) : n.is = "value"
Names(q) == LET m == Meaning(q, NoMap, <<>>) IN [i \in DOMAIN m |-> m[i].name]
Misaligned(q) == \E n \in Parts(q) : n.is = "union" /\ Names(n.l) # Names(n.r)

(* What the extraction says of each query: of the columns that feed an output *)
(* none is missed and one that is called exact is right; a query that is sent *)
(* to DuckDB reads synced, fresh tables only.                                 *)
ShapesSound ==
  \A q \in Queries :
    /\ ~Nested(q) /\ ~Misaligned(q) =>
         LET proj == projection(q, NoMap)
             true == Meaning(q, NoMap, <<>>)
             feeds(n) == UNION {true[i].feeds : i \in {j \in DOMAIN true : true[j].name = n}}
         IN  /\ DOMAIN proj = {true[i].name : i \in DOMAIN true} \ {None}
             /\ \A n \in DOMAIN proj : /\ feeds(n) \subseteq {r.fqn : r \in proj[n]}
                                       /\ {r.fqn : r \in {x \in proj[n] : x.conf = "exact"}} \subseteq feeds(n)
    /\ \A fresh \in SUBSET DOMAIN Schema, spaced \in {{}, OneLine} :
         /\ Decide([kind |-> "select", query |-> q], spaced, fresh) = "duckdb"
         /\ ~(IF spaced = OneLine THEN Listed(q) ELSE Nested(q))
         => Reads(q, {}) \subseteq fresh

(* The statements, each with its output columns by SQL's rules.               *)
Written == {[by |-> s, columns |-> ToSet(Meaning(s.query, NoMap, <<>>))] : s \in Statements}

(* What is recorded and what is routed is right: an exact column edge in      *)
(* lineage_edge, after any queueing, loss and overwriting of rows, is what a  *)
(* statement that writes its target computes; and the extraction agrees with  *)
(* SQL for every query, except for what it does not see right, and for a text *)
(* with some of its keywords at the start of a line, of which the scrape     *)
(* finds the others only (internal/lineage/columns.go,                        *)
(* internal/router/table_extractor.go).                                       *)
QueriesSound ==
  /\ ShapesSound
  /\ \A e \in edges : e.type = "column" /\ e.conf = "exact" =>
       \E w \in Written : /\ w.by.target = e.down[1]
                          /\ Nested(w.by.query) \/ \E c \in w.columns : c.name = e.down[2] /\ e.up \in c.feeds
=============================================================================
