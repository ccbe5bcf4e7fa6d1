--------------------------- MODULE GithubApp_proofs ---------------------------
(***************************************************************************)
(* Proofs about GithubApp for every set of repositories, installations,     *)
(* customers and requests, and every number of events, deliveries, calls of *)
(* the settings endpoints and crashes.  The inductive invariant follows an  *)
(* event from GitHub through the request that handles it: which customer    *)
(* the tables and the request may name, and what FindComment still knows of *)
(* the pull request, and how many requests are about to post on it.         *)
(***************************************************************************)
EXTENDS GithubApp, FiniteSetTheorems, WellFoundedInduction, TLAPS

Req == [pc : Steps, job : Ids \cup {None}, cid : Customers \cup {None},
        diff : Commits \cup {None}, found : Nat, todo : SUBSET (Repos \X Names)]
InstRow == [customer : Customers \cup {None}, suspended : BOOLEAN]
RepoRow == [inst : Installs, name : Names, customer : Customers \cup {None}, connected : BOOLEAN]

-----------------------------------------------------------------------------
(* The inductive invariant.                                                 *)

\* A pull request has no more commits than GitHub has sent events.
HeadsCounted == \A r \in Repos : head[r] <= Len(events)

\* A request works on an event that was sent; the analysis runs for "opened" only,
\* with a customer from ResolveCustomer, and persists a diff it has fetched.
Resolving == {"repoRow", "instRow"}
Analysing == {"suppressed", "diff", "persist", "find", "comment", "check"}
RequestInv(q) ==
  /\ ~ At(q, "idle") => req[q].job \in 1 .. Len(events)
  /\ req[q].pc \in Resolving \cup {"record"} => Event(q).kind \in {"opened", "comment"}
  /\ req[q].pc \in Analysing => Event(q).kind = "opened"
  /\ req[q].pc \in Analysing \cup {"record"} => req[q].cid \in Customers
  /\ At(q, "persist") => req[q].diff \in Commits

\* The history of deliveries and dispatches agrees with the table.
SeenCounted == \A d \in Ids \ Unlabelled : runs[d] = IF d \in seen THEN 1 ELSE 0

\* Customer c has claimed an installation that repository r is or was in.
Backed(c, r) == \E i \in Installs : <<c, i>> \in claims /\ <<r, i>> \in places

\* What a payload says of repositories and installations was so when it was sent.
Located == {"opened", "comment", "push", "closed", "added", "removed", "renamed", "transferred"}
Listing == {"created", "added", "renamed", "transferred"}
Honest(e, there) ==
  /\ e.sha[1] = e.repo
  /\ e.kind \in Located => <<e.repo, e.inst>> \in there
  /\ e.kind \in Listing => \A x \in e.listed : <<x[1], e.inst>> \in there

\* The customers in the tables and in the requests are backed by claims.
Placed == \A r \in Repos : <<r, inst[r]>> \in places
TablesBacked ==
  /\ \A i \in Installs : instRow[i] # None /\ instRow[i].customer # None =>
       <<instRow[i].customer, i>> \in claims
  /\ \A r \in Repos : repoRow[r] # None =>
       /\ <<r, repoRow[r].inst>> \in places
       /\ repoRow[r].customer # None => Backed(repoRow[r].customer, r)
RequestBacked(q) ==
  /\ At(q, "repos") => \A x \in req[q].todo : <<x[1], Event(q).inst>> \in places
  /\ req[q].pc \in Analysing => Backed(req[q].cid, Event(q).repo)
AnalysesBacked ==
  \A k \in Names \X Commits : analysis[k] # None => Backed(analysis[k].customer, k[2][1])

\* What FindComment found stays on the page.  The requests about to post are no more
\* than the largest crowd, and once the page has a marked comment, which later searches
\* find, no more than that crowd less the comments posted.
PostsBounded(r) ==
  /\ Cardinality(Posting(r)) <= crowd[r]
  /\ Listed(r) # {} => Cardinality(Marked(r)) + Cardinality(Posting(r)) <= crowd[r]
CommentInv ==
  /\ \A q \in Requests : At(q, "comment") /\ req[q].found # 0 => req[q].found \in Listed(Event(q).repo)
  /\ \A r \in Repos : PostsBounded(r)

TenantInv ==
  /\ \A d \in DOMAIN events : Honest(events[d], places)
  /\ Placed /\ TablesBacked /\ AnalysesBacked
  /\ \A q \in Requests : RequestBacked(q)

WorkInv == HeadsCounted /\ \A q \in Requests : RequestInv(q)

IInv == TypeOK /\ WorkInv /\ SeenCounted /\ TenantInv /\ CommentInv
-----------------------------------------------------------------------------
(* Requests as records.                                                     *)

\* Setting fields of a request keeps it one.
LEMMA ReqFields ==
  ASSUME NEW r \in Req
  PROVE  /\ Idle \in Req
         /\ \A p \in Steps : [r EXCEPT !.pc = p] \in Req
         /\ \A p \in Steps, d \in Ids : [r EXCEPT !.pc = p, !.job = d] \in Req
         /\ \A p \in Steps, c \in Customers : [r EXCEPT !.cid = c, !.pc = p] \in Req
         /\ \A p \in Steps, d \in Commits : [r EXCEPT !.pc = p, !.diff = d] \in Req
         /\ \A p \in Steps, k \in Nat : [r EXCEPT !.pc = p, !.found = k] \in Req
         /\ \A p \in Steps, t \in SUBSET (Repos \X Names) : [r EXCEPT !.pc = p, !.todo = t] \in Req
         /\ \A t \in SUBSET (Repos \X Names) : [r EXCEPT !.todo = t] \in Req
<1>1. Idle \in Req
  BY DEF Req, Idle, Steps
<1>2. \A p \in Steps : [r EXCEPT !.pc = p] \in Req
  BY DEF Req
<1>3. \A p \in Steps, d \in Ids : [r EXCEPT !.pc = p, !.job = d] \in Req
  BY DEF Req
<1>4. \A p \in Steps, c \in Customers : [r EXCEPT !.cid = c, !.pc = p] \in Req
  BY DEF Req
<1>5. \A p \in Steps, d \in Commits : [r EXCEPT !.pc = p, !.diff = d] \in Req
  BY DEF Req
<1>6. \A p \in Steps, k \in Nat : [r EXCEPT !.pc = p, !.found = k] \in Req
  BY DEF Req
<1>7. \A p \in Steps, t \in SUBSET (Repos \X Names) : [r EXCEPT !.pc = p, !.todo = t] \in Req
  BY DEF Req
<1>8. \A t \in SUBSET (Repos \X Names) : [r EXCEPT !.todo = t] \in Req
  BY DEF Req
<1> QED BY <1>1, <1>2, <1>3, <1>4, <1>5, <1>6, <1>7, <1>8

\* A step of one request leaves the others alone.
LEMMA OneRequest ==
  ASSUME NEW q \in Requests, NEW x \in Req, req \in [Requests -> Req],
         req' = [req EXCEPT ![q] = x]
  PROVE  /\ req' \in [Requests -> Req] /\ req'[q] = x
         /\ \A p \in Requests : p # q => req'[p] = req[p]
OBVIOUS

\* The event of a request that is at work was sent and is one.
LEMMA EventSent ==
  ASSUME TypeOK, NEW q \in Requests, RequestInv(q), ~ At(q, "idle")
  PROVE  /\ req[q] \in Req /\ req[q].job \in DOMAIN events /\ Event(q) \in Events
         /\ Event(q).kind \in Kinds /\ Event(q).repo \in Repos /\ Event(q).inst \in Installs
         /\ Event(q).name \in Names /\ Event(q).sha \in Commits
         /\ Event(q).listed \in SUBSET (Repos \X Names)
<1>1. req[q] \in Req
  BY DEF TypeOK, Req
<1>2. req[q].job \in 1 .. Len(events) /\ events \in Seq(Events)
  BY DEF RequestInv, TypeOK
<1>3. req[q].job \in DOMAIN events /\ events[req[q].job] \in Events
  BY <1>2
<1> QED BY <1>1, <1>3 DEF Event, Events

-----------------------------------------------------------------------------
(* Comments on a pull request.                                              *)

\* A set of natural numbers has a least one.
LEMMA LeastNat ==
  ASSUME NEW T \in SUBSET Nat, T # {}
  PROVE  \E k \in T : \A j \in T : k <= j
<1> DEFINE R == OpToRel(<, Nat)
<1>1. IsWellFoundedOn(R, Nat)
  BY NatLessThanWellFounded
<1>2. \A x, y \in Nat : x < y => <<x, y>> \in R
  BY DEF OpToRel
<1> HIDE DEF R
<1>3. PICK x \in T : \A y \in T : ~ (<<y, x>> \in R)
  BY <1>1, WFMin, Zenon
<1>4. ASSUME NEW y \in T PROVE x <= y
  <2>1. ~ (y < x)
    BY <1>2, <1>3
  <2> QED BY <2>1
<1> QED BY <1>4

\* The marked comments are finitely many; FindComment returns one of the page, or 0
\* when the page has none.
LEMMA CommentSets ==
  ASSUME TypeOK, NEW r \in Repos
  PROVE  /\ comments[r] \in Seq(Commits \cup {None}) /\ Len(comments[r]) \in Nat
         /\ Marked(r) = {k \in 1 .. Len(comments[r]) : comments[r][k] # None}
         /\ IsFiniteSet(Marked(r)) /\ Cardinality(Marked(r)) \in Nat
         /\ IsFiniteSet(Posting(r)) /\ Cardinality(Posting(r)) \in Nat
         /\ FindComment(r) \in Nat /\ (FindComment(r) = 0 <=> Listed(r) = {})
         /\ FindComment(r) # 0 => FindComment(r) \in Listed(r)
<1>1. comments[r] \in Seq(Commits \cup {None}) /\ Len(comments[r]) \in Nat
  BY DEF TypeOK
<1>2. Marked(r) = {k \in 1 .. Len(comments[r]) : comments[r][k] # None}
  BY <1>1 DEF Marked
<1>3. IsFiniteSet(1 .. Len(comments[r])) /\ Marked(r) \in SUBSET (1 .. Len(comments[r]))
  BY <1>1, <1>2, FS_Interval
<1>4. IsFiniteSet(Marked(r)) /\ Cardinality(Marked(r)) \in Nat
  BY <1>3, FS_Subset, FS_CardinalityType
<1>5. Posting(r) \in SUBSET Requests
  BY DEF Posting
<1>6. IsFiniteSet(Posting(r)) /\ Cardinality(Posting(r)) \in Nat
  BY <1>5, RequestsAssumption, FS_Subset, FS_CardinalityType
<1>7. Listed(r) \in SUBSET Nat /\ 0 \notin Listed(r)
  BY <1>1, <1>2 DEF Listed
<1>8. CASE Listed(r) = {}
  BY <1>1, <1>2, <1>4, <1>6, <1>8 DEF FindComment
<1>9. CASE Listed(r) # {}
  <2>1. \E k \in Listed(r) : \A j \in Listed(r) : k <= j
    BY <1>7, <1>9, LeastNat
  <2>2. FindComment(r) \in Listed(r)
    BY <1>9, <2>1 DEF FindComment
  <2> QED BY <1>1, <1>2, <1>4, <1>6, <1>7, <1>9, <2>2
<1> QED BY <1>8, <1>9

-----------------------------------------------------------------------------
(* What a step of a request does.                                           *)

\* The record a step of request q puts in its place.
Moves(q, x) ==
  LET r == req[q]
  IN \/ x = Idle
     \/ At(q, "dispatch") /\ Event(q).kind \in Listing /\ x = [r EXCEPT !.pc = "repos", !.todo = Event(q).listed]
     \/ At(q, "repos") /\ \E y \in r.todo : x = [r EXCEPT !.todo = r.todo \ {y}]
     \/ At(q, "dispatch") /\ Event(q).kind \in {"opened", "comment"} /\ x = [r EXCEPT !.pc = "repoRow"]
     \/ At(q, "repoRow") /\ x = [r EXCEPT !.pc = "instRow"]
     \/ \E c \in Customers :
          /\ (At(q, "repoRow") /\ c = RepoOverride(q)) \/ (At(q, "instRow") /\ c = InstallDefault(q))
          /\ x = [r EXCEPT !.cid = c, !.pc = IF Event(q).kind = "opened" THEN "suppressed" ELSE "record"]
     \/ At(q, "suppressed") /\ x = [r EXCEPT !.pc = "diff"]
     \/ At(q, "diff") /\ x = [r EXCEPT !.pc = "persist", !.diff = <<Event(q).repo, head[Event(q).repo]>>]
     \/ At(q, "persist") /\ x = [r EXCEPT !.pc = "find"]
     \/ At(q, "find") /\ x = [r EXCEPT !.pc = "comment", !.found = FindComment(Event(q).repo)]
     \/ req[q].pc \in {"find", "comment"} /\ x = [r EXCEPT !.pc = "check"]

\* The two places ResolveCustomer looks at hold customers.
LEMMA ResolvedTyped ==
  ASSUME TypeOK, NEW q \in Requests, RequestInv(q), ~ At(q, "idle")
  PROVE  RepoOverride(q) \in Customers \cup {None} /\ InstallDefault(q) \in Customers \cup {None}
<1>1. Event(q).repo \in Repos /\ Event(q).inst \in Installs
  BY EventSent
<1>2. repoRow[Event(q).repo] \in {None} \cup RepoRow /\ instRow[Event(q).inst] \in {None} \cup InstRow
  BY <1>1 DEF TypeOK, RepoRow, InstRow
<1> QED BY <1>2 DEF RepoOverride, InstallDefault, RepoRow, InstRow

\* A step of a request in flight moves that request along one of its edges, and leaves GitHub, the
\* deliveries and the record of deliveries seen alone.
LEMMA StepMoves ==
  ASSUME TypeOK, NEW q \in Requests, RequestInv(q), Step(q)
  PROVE  /\ ~ At(q, "idle") /\ UNCHANGED <<github, events, tries, seen, runs, bounded>>
         /\ \E x \in Req : Moves(q, x) /\ req' = [req EXCEPT ![q] = x]
<1>0. req[q] \in Req
  BY DEF TypeOK, Req
<1> USE DEF rest, At
<1>i. ASSUME Answer(q) PROVE \E x \in Req : Moves(q, x) /\ req' = [req EXCEPT ![q] = x]
  BY <1>0, <1>i, ReqFields DEF Answer, Moves
<1>1. CASE onInstallation(q)
  <2>1. At(q, "dispatch") /\ ~ At(q, "idle") /\ UNCHANGED <<rest, runs>>
    BY <1>1 DEF onInstallation, Answer
  <2>2. Event(q).listed \in SUBSET (Repos \X Names)
    BY <2>1, EventSent
  <2>3. [req[q] EXCEPT !.pc = "repos", !.todo = Event(q).listed] \in Req
    BY <1>0, <2>2, ReqFields DEF Steps
  <2>4. Answer(q) \/ (Event(q).kind \in Listing
                       /\ req' = [req EXCEPT ![q] = [req[q] EXCEPT !.pc = "repos", !.todo = Event(q).listed]])
    BY <1>1 DEF onInstallation, Listing
  <2> QED BY <1>i, <2>1, <2>3, <2>4 DEF Moves
<1>2. CASE onInstallationRepos(q)
  <2>1. At(q, "dispatch") /\ ~ At(q, "idle") /\ UNCHANGED <<rest, runs>>
    BY <1>2 DEF onInstallationRepos, Answer
  <2>2. Event(q).listed \in SUBSET (Repos \X Names)
    BY <2>1, EventSent
  <2>3. [req[q] EXCEPT !.pc = "repos", !.todo = Event(q).listed] \in Req
    BY <1>0, <2>2, ReqFields DEF Steps
  <2>4. Answer(q) \/ (Event(q).kind \in Listing
                       /\ req' = [req EXCEPT ![q] = [req[q] EXCEPT !.pc = "repos", !.todo = Event(q).listed]])
    BY <1>2 DEF onInstallationRepos, Listing
  <2> QED BY <1>i, <2>1, <2>3, <2>4 DEF Moves
<1>3. CASE onRepository(q)
  <2>1. At(q, "dispatch") /\ ~ At(q, "idle") /\ UNCHANGED <<rest, runs>>
    BY <1>3 DEF onRepository, Answer
  <2>2. Event(q).listed \in SUBSET (Repos \X Names)
    BY <2>1, EventSent
  <2>3. [req[q] EXCEPT !.pc = "repos", !.todo = Event(q).listed] \in Req
    BY <1>0, <2>2, ReqFields DEF Steps
  <2>4. Answer(q) \/ (Event(q).kind \in Listing
                       /\ req' = [req EXCEPT ![q] = [req[q] EXCEPT !.pc = "repos", !.todo = Event(q).listed]])
    BY <1>3 DEF onRepository, Listing
  <2> QED BY <1>i, <2>1, <2>3, <2>4 DEF Moves
<1>4. CASE UpsertNext(q)
  <2>1. At(q, "repos") /\ ~ At(q, "idle") /\ UNCHANGED <<rest, runs>>
    BY <1>4 DEF UpsertNext, Answer
  <2>2. CASE Answer(q)
    BY <1>i, <2>1, <2>2
  <2>3. ASSUME NEW y \in req[q].todo, req' = [req EXCEPT ![q] = [req[q] EXCEPT !.todo = req[q].todo \ {y}]]
        PROVE  \E x \in Req : Moves(q, x) /\ req' = [req EXCEPT ![q] = x]
    <3>1. req[q].todo \ {y} \in SUBSET (Repos \X Names)
      BY <1>0 DEF Req
    <3>2. [req[q] EXCEPT !.todo = req[q].todo \ {y}] \in Req
      BY <1>0, <3>1, ReqFields
    <3> QED BY <2>1, <2>3, <3>2 DEF Moves
  <2> QED BY <1>4, <2>1, <2>2, <2>3 DEF UpsertNext
<1>5. CASE OnPush(q)
  BY <1>5, <1>i DEF OnPush, Answer
<1>6. CASE Ignored(q)
  BY <1>6, <1>i DEF Ignored, Answer
<1>7. CASE dispatch(q)
  <2>1. At(q, "dispatch") /\ Event(q).kind \in {"opened", "comment"} /\ UNCHANGED <<rest, runs>>
        /\ req' = [req EXCEPT ![q] = [req[q] EXCEPT !.pc = "repoRow"]]
    BY <1>7 DEF dispatch, Goto
  <2>2. [req[q] EXCEPT !.pc = "repoRow"] \in Req
    BY <1>0, ReqFields DEF Steps
  <2> QED BY <2>1, <2>2 DEF Moves
<1>8. CASE ResolveRepo(q)
  <2>1. At(q, "repoRow") /\ ~ At(q, "idle") /\ UNCHANGED <<rest, runs>>
    BY <1>8 DEF ResolveRepo, Answer, Goto, Resolved
  <2>2. CASE RepoOverride(q) # None
    <3> DEFINE p == IF Event(q).kind = "opened" THEN "suppressed" ELSE "record"
               x == [req[q] EXCEPT !.cid = RepoOverride(q), !.pc = p]
    <3>1. RepoOverride(q) \in Customers /\ p \in Steps
      BY <2>1, <2>2, ResolvedTyped DEF Steps
    <3>2. x \in Req
      BY <1>0, <3>1, ReqFields
    <3>3. req' = [req EXCEPT ![q] = x]
      BY <1>8, <2>2 DEF ResolveRepo, Resolved
    <3>4. Moves(q, x)
      BY <2>1, <3>1 DEF Moves
    <3> QED BY <2>1, <3>2, <3>3, <3>4
  <2>3. CASE RepoOverride(q) = None
    <3>1. [req[q] EXCEPT !.pc = "instRow"] \in Req
      BY <1>0, ReqFields DEF Steps
    <3>2. req' = [req EXCEPT ![q] = [req[q] EXCEPT !.pc = "instRow"]]
      BY <1>8, <2>3 DEF ResolveRepo, Goto
    <3> QED BY <2>1, <3>1, <3>2 DEF Moves
  <2> QED BY <2>2, <2>3
<1>9. CASE ResolveInstall(q)
  <2>1. At(q, "instRow") /\ ~ At(q, "idle") /\ UNCHANGED <<rest, runs>>
    BY <1>9 DEF ResolveInstall, Answer, Goto, Resolved
  <2>2. CASE InstallDefault(q) # None
    <3> DEFINE p == IF Event(q).kind = "opened" THEN "suppressed" ELSE "record"
               x == [req[q] EXCEPT !.cid = InstallDefault(q), !.pc = p]
    <3>1. InstallDefault(q) \in Customers /\ p \in Steps
      BY <2>1, <2>2, ResolvedTyped DEF Steps
    <3>2. x \in Req
      BY <1>0, <3>1, ReqFields
    <3>3. req' = [req EXCEPT ![q] = x]
      BY <1>9, <2>2 DEF ResolveInstall, Resolved
    <3>4. Moves(q, x)
      BY <2>1, <3>1 DEF Moves
    <3> QED BY <2>1, <3>2, <3>3, <3>4
  <2>3. CASE InstallDefault(q) = None
    BY <1>9, <1>i, <2>1, <2>3 DEF ResolveInstall
  <2> QED BY <2>2, <2>3
<1>10. CASE RecordSuppression(q)
  BY <1>10, <1>i DEF RecordSuppression, Answer
<1>11. CASE IsSuppressed(q)
  <2>1. At(q, "suppressed") /\ UNCHANGED <<rest, runs>>
        /\ (Answer(q) \/ req' = [req EXCEPT ![q] = [req[q] EXCEPT !.pc = "diff"]])
    BY <1>11 DEF IsSuppressed, Answer, Goto
  <2>2. [req[q] EXCEPT !.pc = "diff"] \in Req
    BY <1>0, ReqFields DEF Steps
  <2> QED BY <1>11, <1>i, <2>1, <2>2 DEF Moves
<1>12. CASE PRDiff(q)
  <2> DEFINE r == Event(q).repo
             x == [req[q] EXCEPT !.pc = "persist", !.diff = <<r, head[r]>>]
  <2>1. At(q, "diff") /\ ~ At(q, "idle") /\ UNCHANGED <<rest, runs>> /\ req' = [req EXCEPT ![q] = x]
    BY <1>12 DEF PRDiff
  <2>2. <<r, head[r]>> \in Commits
    BY <2>1, EventSent DEF Commits, TypeOK
  <2>3. x \in Req
    BY <1>0, <2>2, ReqFields DEF Steps
  <2> QED BY <2>1, <2>3 DEF Moves
<1>13. CASE UpsertPRAnalysis(q)
  <2>1. At(q, "persist") /\ UNCHANGED <<rest, runs>>
        /\ (Answer(q) \/ req' = [req EXCEPT ![q] = [req[q] EXCEPT !.pc = "find"]])
    BY <1>13 DEF UpsertPRAnalysis, Answer, Goto
  <2>2. [req[q] EXCEPT !.pc = "find"] \in Req
    BY <1>0, ReqFields DEF Steps
  <2> QED BY <1>13, <1>i, <2>1, <2>2 DEF Moves
<1>14. CASE FindStep(q)
  <2> DEFINE k == FindComment(Event(q).repo)
             x == [req[q] EXCEPT !.pc = "comment", !.found = k]
             y == [req[q] EXCEPT !.pc = "check"]
  <2>1. At(q, "find") /\ ~ At(q, "idle") /\ UNCHANGED <<rest, runs>>
        /\ (req' = [req EXCEPT ![q] = x] \/ req' = [req EXCEPT ![q] = y])
    BY <1>14 DEF FindStep, Goto
  <2>2. k \in Nat
    BY <2>1, EventSent, CommentSets
  <2>3. x \in Req /\ y \in Req
    BY <1>0, <2>2, ReqFields DEF Steps
  <2>4. Moves(q, x) /\ Moves(q, y)
    BY <2>1 DEF Moves
  <2> QED BY <2>1, <2>3, <2>4
<1>15. CASE WriteComment(q)
  <2>1. At(q, "comment") /\ ~ At(q, "idle") /\ UNCHANGED <<rest, runs>>
        /\ req' = [req EXCEPT ![q] = [req[q] EXCEPT !.pc = "check"]]
    BY <1>15 DEF WriteComment, Goto
  <2>2. [req[q] EXCEPT !.pc = "check"] \in Req
    BY <1>0, ReqFields DEF Steps
  <2> QED BY <2>1, <2>2 DEF Moves
<1>16. CASE CreateCheckRun(q)
  BY <1>16, <1>i DEF CreateCheckRun, Answer
<1>17. CASE Fails(q)
  BY <1>17, <1>i DEF Fails, Answer, Failing
<1> QED
  BY <1>1, <1>2, <1>3, <1>4, <1>5, <1>6, <1>7, <1>8, <1>9, <1>10, <1>11, <1>12, <1>13, <1>14, <1>15, <1>16, <1>17 DEF Step

-----------------------------------------------------------------------------
(* What GitHub sends.                                                       *)

\* The payload of Emit is an event that says what is so.
LEMMA EmitHonest ==
  ASSUME TypeOK, Placed, NEW k \in Kinds, NEW r \in Repos, NEW i \in Installs, NEW n \in Names,
         head'[r] \in 0 .. MaxEvents, places \subseteq places', Emit(k, r, i, n),
         k \in Located => <<r, i>> \in places'
  PROVE  \E e \in Events : events' = Append(events, e) /\ Honest(e, places')
<1> DEFINE l == IF k = "created" THEN {<<x, name[x]>> : x \in {y \in Repos : inst[y] = i}} ELSE {<<r, n>>}
           e == [kind |-> k, repo |-> r, inst |-> i, name |-> n, sha |-> <<r, head'[r]>>, listed |-> l]
<1>1. l \subseteq Repos \X Names
  BY DEF TypeOK
<1>2. <<r, head'[r]>> \in Commits
  BY DEF Commits
<1>3. k \in Listing => \A x \in l : <<x[1], i>> \in places'
  BY DEF Placed, Listing, Located
<1> HIDE DEF l
<1>4. e \in Events
  BY <1>1, <1>2 DEF Events
<1>5. Honest(e, places')
  BY <1>3 DEF Honest
<1>6. events' = Append(events, e)
  BY DEF Emit, l
<1> QED BY <1>4, <1>5, <1>6

\* Other people add comments, and take none away.
Spoken ==
  /\ comments' \in [Repos -> Seq(Commits \cup {None})]
  /\ \A r \in Repos : comments'[r] = comments[r] \/ comments'[r] = Append(comments[r], None)

\* An event of GitHub is appended; repositories keep a place, heads stay counted.
GitHubSent ==
  /\ \E e \in Events : events' = Append(events, e) /\ Honest(e, places')
  /\ Len(events) < MaxEvents
  /\ name' \in [Repos -> Names] /\ inst' \in [Repos -> Installs] /\ installed' \subseteq Installs
  /\ head' \in [Repos -> 0 .. MaxEvents] /\ \A r \in Repos : head'[r] <= Len(events) + 1
  /\ places \subseteq places' /\ places' \subseteq Repos \X Installs /\ Placed'
  /\ Spoken
  /\ UNCHANGED <<checks, crowd, tries, tables, seen, analysis, req, runs, claims, admin, crashes>>

\* An event that is emitted where the repository is, or was, is what GitHubSent says.
LEMMA SentByEmit ==
  ASSUME TypeOK, Placed, NEW k \in Kinds, NEW r \in Repos, NEW i \in Installs, NEW n \in Names,
         Emit(k, r, i, n), Spoken,
         head' \in [Repos -> 0 .. MaxEvents], \A x \in Repos : head'[x] <= Len(events) + 1,
         name' \in [Repos -> Names], inst' \in [Repos -> Installs], installed' \subseteq Installs,
         places \subseteq places', places' \subseteq Repos \X Installs,
         \A x \in Repos : <<x, inst'[x]>> \in places',
         k \in Located => <<r, i>> \in places'
  PROVE  GitHubSent
<1>1. \E e \in Events : events' = Append(events, e) /\ Honest(e, places')
  BY EmitHonest
<1>2. Len(events) < MaxEvents
      /\ UNCHANGED <<checks, crowd, tries, tables, seen, analysis, req, runs, claims, admin, crashes>>
  BY DEF Emit
<1> QED BY <1>1, <1>2 DEF GitHubSent, Placed

\* Whatever happens at GitHub, the event it sends is true of the places repositories have been in.
LEMMA GitHubSends ==
  ASSUME TypeOK, HeadsCounted, Placed, GitHubEvent
  PROVE  GitHubSent
<1> USE LimitAssumption
<1>1. PICK r \in Repos :
        \/ PushCommit(r)
        \/ \E k \in {"comment", "push", "closed"} : Speak(r, k)
        \/ \E n \in Names : Rename(r, n)
        \/ \E i \in Installs : \/ Transfer(r, i) \/ Install(r, i) \/ Uninstall(r, i)
                               \/ \E k \in {"suspend", "unsuspend", "added", "removed"} : Administer(r, i, k)
  BY DEF GitHubEvent
<1>2. /\ name \in [Repos -> Names] /\ inst \in [Repos -> Installs] /\ installed \subseteq Installs
      /\ head \in [Repos -> 0 .. MaxEvents] /\ places \subseteq Repos \X Installs
      /\ MaxEvents \in Nat /\ Len(events) \in Nat
      /\ \A x \in Repos : head[x] <= Len(events) + 1 /\ head[x] <= Len(events)
      /\ \A x \in Repos : <<x, inst[x]>> \in places
  <2>1. /\ head \in [Repos -> 0 .. MaxEvents] /\ events \in Seq(Events) /\ MaxEvents \in Nat
    BY DEF TypeOK
  <2>2. Len(events) \in Nat /\ \A x \in Repos : head[x] \in Nat /\ head[x] <= Len(events)
    BY <2>1 DEF HeadsCounted
  <2>3. \A x \in Repos : head[x] <= Len(events) + 1
    BY <2>2
  <2> QED BY <2>1, <2>2, <2>3 DEF TypeOK, Placed
<1>s. ASSUME comments' = comments PROVE Spoken
  BY <1>s DEF Spoken, TypeOK
<1>3. CASE PushCommit(r)
  <2>1. /\ Len(events) < MaxEvents /\ head' = [head EXCEPT ![r] = head[r] + 1]
        /\ UNCHANGED <<name, inst, installed, places>> /\ Spoken /\ Emit("opened", r, inst[r], name[r])
    BY <1>3, <1>s DEF PushCommit, Emit
  <2>2. head[r] + 1 \in 0 .. MaxEvents /\ head[r] + 1 <= Len(events) + 1
    BY <1>2, <2>1
  <2>3. head' \in [Repos -> 0 .. MaxEvents] /\ \A x \in Repos : head'[x] <= Len(events) + 1
    BY <1>2, <2>1, <2>2
  <2> QED BY <1>2, <2>1, <2>3, SentByEmit DEF Kinds
<1>4. ASSUME NEW k \in {"comment", "push", "closed"}, Speak(r, k) PROVE GitHubSent
  <2>1. UNCHANGED <<name, inst, head, installed, places>> /\ Emit(k, r, inst[r], name[r])
    BY <1>4 DEF Speak, github
  <2>2. Spoken
    <3>1. comments' = comments \/ comments' = [comments EXCEPT ![r] = Append(comments[r], None)]
      BY <1>4 DEF Speak
    <3>2. comments \in [Repos -> Seq(Commits \cup {None})]
      BY DEF TypeOK
    <3>3. Append(comments[r], None) \in Seq(Commits \cup {None})
      BY <3>2
    <3> QED BY <3>1, <3>2, <3>3 DEF Spoken
  <2> QED BY <1>2, <2>1, <2>2, SentByEmit DEF Kinds
<1>5. ASSUME NEW n \in Names, Rename(r, n) PROVE GitHubSent
  <2>1. /\ name' = [name EXCEPT ![r] = n] /\ Emit("renamed", r, inst[r], n)
        /\ UNCHANGED <<inst, head, installed, places>> /\ Spoken
    BY <1>5, <1>s DEF Rename
  <2>2. name' \in [Repos -> Names]
    BY <1>2, <2>1
  <2> QED BY <1>2, <2>1, <2>2, SentByEmit DEF Kinds
<1>6. ASSUME NEW i \in Installs, Transfer(r, i) PROVE GitHubSent
  <2>1. /\ inst' = [inst EXCEPT ![r] = i] /\ places' = places \cup {<<r, i>>}
        /\ UNCHANGED <<name, head, installed>> /\ Spoken /\ Emit("transferred", r, i, name[r])
    BY <1>6, <1>s DEF Transfer
  <2>2. inst' \in [Repos -> Installs] /\ \A x \in Repos : <<x, inst'[x]>> \in places'
    BY <1>2, <2>1
  <2>3. places \subseteq places' /\ places' \subseteq Repos \X Installs /\ <<r, i>> \in places'
    BY <1>2, <2>1
  <2> QED BY <1>2, <2>1, <2>2, <2>3, SentByEmit DEF Kinds
<1>7. ASSUME NEW i \in Installs, Install(r, i) \/ Uninstall(r, i) PROVE GitHubSent
  <2>1. /\ installed' \in {installed \cup {i}, installed \ {i}} /\ UNCHANGED <<name, inst, head, places>>
        /\ Spoken /\ (Emit("created", r, i, name[r]) \/ Emit("deleted", r, i, name[r]))
    BY <1>7, <1>s DEF Install, Uninstall
  <2>2. installed' \subseteq Installs
    BY <1>2, <2>1
  <2> QED BY <1>2, <2>1, <2>2, SentByEmit DEF Kinds, Located
<1>8. ASSUME NEW i \in Installs, NEW k \in {"suspend", "unsuspend", "added", "removed"}, Administer(r, i, k)
      PROVE  GitHubSent
  <2>1. /\ UNCHANGED <<name, inst, head, installed, places>> /\ Emit(k, r, i, name[r])
        /\ Spoken /\ (k \in {"added", "removed"} => inst[r] = i)
    BY <1>8, <1>s DEF Administer, github
  <2> QED BY <1>2, <2>1, SentByEmit DEF Kinds, Located
<1> QED BY <1>1, <1>3, <1>4, <1>5, <1>6, <1>7, <1>8

-----------------------------------------------------------------------------
(* The requests.                                                            *)

\* The fields of a request after a step: it keeps its event until it is answered, the
\* customer comes from ResolveCustomer and stays, the steps follow each other.
LEMMA MoveFields ==
  ASSUME TypeOK, NEW q \in Requests, RequestInv(q), ~ At(q, "idle"), NEW x \in Req, Moves(q, x)
  PROVE  /\ x.pc # "idle" => x.job = req[q].job
         /\ x.pc \in Resolving \cup {"record"} => Event(q).kind \in {"opened", "comment"}
         /\ x.pc \in Analysing => Event(q).kind = "opened"
         /\ x.pc \in Analysing \cup {"record"} => x.cid \in Customers
         /\ x.pc \in Analysing => \/ req[q].pc \in Analysing /\ x.cid = req[q].cid
                                  \/ At(q, "repoRow") /\ x.cid = RepoOverride(q)
                                  \/ At(q, "instRow") /\ x.cid = InstallDefault(q)
         /\ x.pc = "persist" => x.diff \in Commits
         /\ x.pc = "repos" => \/ At(q, "repos") /\ x.todo \subseteq req[q].todo
                              \/ Event(q).kind \in Listing /\ x.todo = Event(q).listed
         /\ x.pc = "comment" => At(q, "find") /\ x.found = FindComment(Event(q).repo)
<1>0. req[q] \in Req /\ <<Event(q).repo, head[Event(q).repo]>> \in Commits
  BY EventSent DEF Commits, TypeOK
<1> USE DEF Resolving, Analysing, At
<1>1. CASE x = Idle
  BY <1>1, <1>0 DEF Req, RequestInv, Idle
<1>2. CASE At(q, "dispatch") /\ Event(q).kind \in Listing /\ x = [req[q] EXCEPT !.pc = "repos", !.todo = Event(q).listed]
  BY <1>2, <1>0 DEF Req, RequestInv, Idle
<1>3. CASE At(q, "repos") /\ \E y \in req[q].todo : x = [req[q] EXCEPT !.todo = req[q].todo \ {y}]
  BY <1>3, <1>0 DEF Req, RequestInv, Idle
<1>4. CASE At(q, "dispatch") /\ Event(q).kind \in {"opened", "comment"} /\ x = [req[q] EXCEPT !.pc = "repoRow"]
  BY <1>4, <1>0 DEF Req, RequestInv, Idle
<1>5. CASE At(q, "repoRow") /\ x = [req[q] EXCEPT !.pc = "instRow"]
  BY <1>5, <1>0 DEF Req, RequestInv, Idle
<1>6. CASE \E c \in Customers :
            /\ (At(q, "repoRow") /\ c = RepoOverride(q)) \/ (At(q, "instRow") /\ c = InstallDefault(q))
            /\ x = [req[q] EXCEPT !.cid = c, !.pc = IF Event(q).kind = "opened" THEN "suppressed" ELSE "record"]
  BY <1>6, <1>0 DEF Req, RequestInv, Idle
<1>7. CASE At(q, "suppressed") /\ x = [req[q] EXCEPT !.pc = "diff"]
  BY <1>7, <1>0 DEF Req, RequestInv, Idle
<1>8. CASE At(q, "diff") /\ x = [req[q] EXCEPT !.pc = "persist", !.diff = <<Event(q).repo, head[Event(q).repo]>>]
  BY <1>8, <1>0 DEF Req, RequestInv, Idle
<1>9. CASE At(q, "persist") /\ x = [req[q] EXCEPT !.pc = "find"]
  BY <1>9, <1>0 DEF Req, RequestInv, Idle
<1>10. CASE At(q, "find") /\ x = [req[q] EXCEPT !.pc = "comment", !.found = FindComment(Event(q).repo)]
  BY <1>10, <1>0 DEF Req, RequestInv, Idle
<1>11. CASE req[q].pc \in {"find", "comment"} /\ x = [req[q] EXCEPT !.pc = "check"]
  BY <1>11, <1>0 DEF Req, RequestInv, Idle
<1> QED
  BY <1>1, <1>2, <1>3, <1>4, <1>5, <1>6, <1>7, <1>8, <1>9, <1>10, <1>11 DEF Moves

\* RequestInv holds for the request that made a step and for the others.
LEMMA RequestStep ==
  ASSUME TypeOK, \A p \in Requests : RequestInv(p), NEW q \in Requests, Step(q)
  PROVE  \A p \in Requests : RequestInv(p)'
<1>1. PICK x \in Req : Moves(q, x) /\ req' = [req EXCEPT ![q] = x]
  BY StepMoves
<1>2. events' = events /\ ~ At(q, "idle")
  BY StepMoves
<1>3. req'[q] = x /\ \A p \in Requests : p # q => req'[p] = req[p]
  BY <1>1, OneRequest DEF TypeOK, Req
<1>4. RequestInv(q) /\ req[q].job \in 1 .. Len(events)
  BY <1>2 DEF RequestInv
<1>5. RequestInv(q)'
  BY <1>1, <1>2, <1>3, <1>4, MoveFields DEF RequestInv, Event, At, Resolving, Analysing
<1> QED BY <1>2, <1>3, <1>5 DEF RequestInv, Event, At

-----------------------------------------------------------------------------
(* Type correctness.                                                        *)

\* The app starts well typed.
LEMMA TypeInit == Init => TypeOK
<1> SUFFICES ASSUME Init PROVE TypeOK
  OBVIOUS
<1> USE FirstAssumption, NoneAssumption, LimitAssumption
<1>1. MaxEvents \in Nat /\ MaxTries \in Nat /\ MaxAdmin \in Nat /\ MaxCrashes \in Nat
  OBVIOUS
<1>2. installed \subseteq Installs /\ \A i \in installed : FirstClaim[i] \in Customers
  BY DEF Init
<1>3. instRow \in [Installs -> {None} \cup InstRow]
  BY DEF Init, InstRow
<1>4. repoRow \in [Repos -> {None} \cup RepoRow]
  BY DEF Init, RepoRow
<1>5. head \in [Repos -> 0 .. MaxEvents]
  BY <1>1 DEF Init
<1>6. tries \in [Ids -> 0 .. MaxTries]
  BY <1>1 DEF Init
<1>7. comments \in [Repos -> Seq(Commits \cup {None})] /\ crowd \in [Repos -> Nat]
  <2>1. PICK others \in 0 .. PageSize : comments = [r \in Repos |-> [k \in 1 .. others |-> None]]
    BY DEF Init
  <2>2. [k \in 1 .. others |-> None] \in Seq(Commits \cup {None})
    OBVIOUS
  <2> QED BY <2>1, <2>2 DEF Init
<1>8. req \in [Requests -> Req]
  BY DEF Init, Idle, Req, Steps
<1>9. claims \subseteq Customers \X Installs
  BY <1>2 DEF Init
<1>10. places \subseteq Repos \X Installs
  BY DEF Init
<1>11. events \in Seq(Events) /\ Len(events) <= MaxEvents
  BY <1>1 DEF Init
<1>12. name \in [Repos -> Names] /\ inst \in [Repos -> Installs]
  BY DEF Init
<1>13. analysis \in [Names \X Commits -> {None} \cup [customer : Customers, diff : Commits]]
  BY DEF Init
<1>14. runs \in [Ids -> Nat] /\ admin \in 0 .. MaxAdmin /\ crashes \in 0 .. MaxCrashes
  BY <1>1 DEF Init
<1>15. /\ checks \subseteq Commits /\ seen \subseteq Ids
       /\ suppressed \subseteq Customers \X Names /\ boards \in Nat
  BY DEF Init
<1> QED BY <1>2, <1>3, <1>4, <1>5, <1>6, <1>7, <1>8, <1>9, <1>10, <1>11, <1>12, <1>13, <1>14, <1>15
        DEF TypeOK, InstRow, RepoRow, Req

\* UpsertRepo writes one row, which keeps its customer.
LEMMA UpsertTyped ==
  ASSUME NEW r \in Repos, NEW i \in Installs, NEW n \in Names, repoRow \in [Repos -> {None} \cup RepoRow]
  PROVE  /\ UpsertRepo(r, i, n) \in [Repos -> {None} \cup RepoRow]
         /\ UpsertRepo(r, i, n)[r].inst = i
         /\ UpsertRepo(r, i, n)[r].customer = IF repoRow[r] = None THEN None ELSE repoRow[r].customer
         /\ \A x \in Repos : x # r => UpsertRepo(r, i, n)[x] = repoRow[x]
<1> DEFINE v == [inst |-> i, name |-> n,
                 customer |-> IF repoRow[r] = None THEN None ELSE repoRow[r].customer,
                 connected |-> IF repoRow[r] = None THEN FALSE ELSE repoRow[r].connected]
<1>1. v \in RepoRow
  BY DEF RepoRow
<1>2. UpsertRepo(r, i, n) = [repoRow EXCEPT ![r] = v]
  BY DEF UpsertRepo
<1>3. v.inst = i /\ v.customer = IF repoRow[r] = None THEN None ELSE repoRow[r].customer
  OBVIOUS
<1> HIDE DEF v
<1> QED BY <1>1, <1>2, <1>3

\* A step of a request keeps the types of the tables, the analyses and the requests.
LEMMA TypeStepOfRequest ==
  ASSUME TypeOK, WorkInv, CommentInv, NEW q \in Requests, Step(q)
  PROVE  TypeOK'
<1> USE LimitAssumption
<1>r. RequestInv(q)
  BY DEF WorkInv
<1>0. /\ req' \in [Requests -> [pc : Steps, job : Ids \cup {None}, cid : Customers \cup {None},
                           diff : Commits \cup {None}, found : Nat, todo : SUBSET (Repos \X Names)]]
      /\ UNCHANGED <<name, inst, head, installed, events, tries, seen, runs, claims, places, admin, crashes>>
  BY <1>r, StepMoves, OneRequest DEF TypeOK, Req, github, bounded
<1>f. \A r \in Repos : Cardinality(Posting(r)) + 1 \in Nat
  <2>1. ASSUME NEW r \in Repos PROVE Cardinality(Posting(r)) \in Nat
    BY CommentSets
  <2> QED BY <2>1
<1> USE <1>r DEF TypeOK, posted, tables
<1>1. CASE onInstallation(q)
  <2> DEFINE e == Event(q)
  <2>1. At(q, "dispatch") /\ e.inst \in Installs
    BY <1>1, EventSent DEF onInstallation, At
  <2>2. instRow \in [Installs -> {None} \cup InstRow] /\ repoRow \in [Repos -> {None} \cup RepoRow]
    BY DEF InstRow, RepoRow
  <2> HIDE DEF TypeOK
  <2>3. instRow[e.inst] \in {None} \cup InstRow
    BY <2>1, <2>2
  <2>4. [customer |-> IF instRow[e.inst] = None THEN None ELSE instRow[e.inst].customer, suspended |-> FALSE] \in InstRow
    BY <2>3 DEF InstRow
  <2>5. instRow[e.inst] # None => [instRow[e.inst] EXCEPT !.suspended = (e.kind = "suspend")] \in InstRow
    BY <2>3 DEF InstRow
  <2>6. instRow' \in {instRow} \cup {[instRow EXCEPT ![e.inst] = v] : v \in {None} \cup InstRow}
    BY <1>1, <2>1, <2>2, <2>4, <2>5 DEF onInstallation
  <2>7. instRow' \in [Installs -> {None} \cup InstRow]
    BY <2>1, <2>2, <2>6
  <2>8. repoRow' \in [Repos -> {None} \cup RepoRow]
    <3>1. repoRow' = repoRow \/ repoRow' = [r \in Repos |-> IF repoRow[r] # None /\ repoRow[r].inst = e.inst THEN None ELSE repoRow[r]]
      BY <1>1 DEF onInstallation
    <3> QED BY <2>2, <3>1
  <2> QED BY <1>1, <1>0, <2>7, <2>8 DEF onInstallation, TypeOK, InstRow, RepoRow
<1>2. CASE onInstallationRepos(q)
  <2>1. At(q, "dispatch") /\ Event(q).repo \in Repos
    BY <1>2, EventSent DEF onInstallationRepos, At
  <2>2. repoRow' = repoRow \/ repoRow' = [repoRow EXCEPT ![Event(q).repo] = None]
    BY <1>2 DEF onInstallationRepos
  <2>3. repoRow' \in [Repos -> {None} \cup RepoRow]
    BY <2>1, <2>2 DEF RepoRow
  <2> QED BY <1>2, <1>0, <2>3 DEF onInstallationRepos, RepoRow
<1>3. CASE onRepository(q)
  BY <1>3, <1>0 DEF onRepository
<1>4. CASE UpsertNext(q)
  <2>1. At(q, "repos") /\ Event(q).inst \in Installs /\ req[q] \in Req
    BY <1>4, EventSent DEF UpsertNext, At
  <2>2. repoRow' = repoRow \/ \E x \in req[q].todo : repoRow' = UpsertRepo(x[1], Event(q).inst, x[2])
    BY <1>4 DEF UpsertNext
  <2>3. ASSUME NEW x \in req[q].todo PROVE UpsertRepo(x[1], Event(q).inst, x[2]) \in [Repos -> {None} \cup RepoRow]
    <3>1. x[1] \in Repos /\ x[2] \in Names
      BY <2>1 DEF Req
    <3>2. repoRow \in [Repos -> {None} \cup RepoRow]
      BY DEF RepoRow
    <3> QED BY <2>1, <3>1, <3>2, UpsertTyped
  <2>4. repoRow' \in [Repos -> {None} \cup RepoRow]
    BY <2>2, <2>3 DEF RepoRow
  <2> QED BY <1>4, <1>0, <2>4 DEF UpsertNext, RepoRow
<1>5. CASE OnPush(q)
  <2>1. boards' \in Nat
    BY <1>5 DEF OnPush
  <2> QED BY <1>5, <1>0, <2>1 DEF OnPush
<1>6. CASE Ignored(q)
  BY <1>6, <1>0 DEF Ignored
<1>7. CASE dispatch(q)
  BY <1>7, <1>0 DEF dispatch
<1>8. CASE ResolveRepo(q)
  BY <1>8, <1>0 DEF ResolveRepo
<1>9. CASE ResolveInstall(q)
  BY <1>9, <1>0 DEF ResolveInstall
<1>10. CASE RecordSuppression(q)
  <2>1. At(q, "record") /\ Event(q).name \in Names
    BY <1>10, EventSent DEF RecordSuppression, At
  <2>2. req[q].cid \in Customers
    BY <2>1 DEF RequestInv, At
  <2>3. suppressed' = suppressed \cup {<<req[q].cid, Event(q).name>>}
    BY <1>10 DEF RecordSuppression
  <2>4. suppressed' \subseteq Customers \X Names
    BY <2>1, <2>2, <2>3
  <2> QED BY <1>10, <1>0, <2>4 DEF RecordSuppression
<1>11. CASE IsSuppressed(q)
  BY <1>11, <1>0 DEF IsSuppressed
<1>12. CASE PRDiff(q)
  BY <1>12, <1>0 DEF PRDiff
<1>13. CASE UpsertPRAnalysis(q)
  <2> DEFINE e == Event(q)
             v == [customer |-> req[q].cid, diff |-> req[q].diff]
  <2>1. At(q, "persist") /\ e.name \in Names /\ e.sha \in Commits
    BY <1>13, EventSent DEF UpsertPRAnalysis, At
  <2>2. v \in [customer : Customers, diff : Commits]
    BY <2>1 DEF RequestInv, At, Analysing
  <2>3. analysis' = [analysis EXCEPT ![<<e.name, e.sha>>] = v]
    BY <1>13 DEF UpsertPRAnalysis
  <2>4. analysis \in [Names \X Commits -> {None} \cup [customer : Customers, diff : Commits]]
    OBVIOUS
  <2> HIDE DEF TypeOK, e, v
  <2>5. <<e.name, e.sha>> \in Names \X Commits
    BY <2>1
  <2>6. analysis' \in [Names \X Commits -> {None} \cup [customer : Customers, diff : Commits]]
    BY <2>2, <2>3, <2>4, <2>5
  <2> QED BY <1>13, <1>0, <2>6 DEF UpsertPRAnalysis, TypeOK
<1>14. CASE FindStep(q)
  <2>1. At(q, "find") /\ Event(q).repo \in Repos
    BY <1>14, EventSent DEF FindStep, At
  <2> DEFINE n == Cardinality(Posting(Event(q).repo)) + 1
  <2>2. n \in Nat
    BY <2>1, <1>f
  <2>3. crowd' = crowd \/ crowd' = [crowd EXCEPT ![Event(q).repo] = n]
    BY <1>14 DEF FindStep
  <2> HIDE DEF n
  <2>4. crowd' \in [Repos -> Nat]
    BY <2>1, <2>2, <2>3
  <2> QED BY <1>14, <1>0, <2>4 DEF FindStep
<1>15. CASE WriteComment(q)
  <2> DEFINE r == Event(q).repo
             old == comments[r]
             sha == Event(q).sha
             k == req[q].found
  <2>1. At(q, "comment") /\ r \in Repos /\ sha \in Commits /\ req[q] \in Req
    BY <1>15, EventSent DEF WriteComment, At
  <2>2. k \in Nat /\ old \in Seq(Commits \cup {None}) /\ (k # 0 => k \in 1 .. Len(old))
    <3>1. k # 0 => k \in Listed(r)
      BY <2>1 DEF CommentInv
    <3> QED BY <2>1, <3>1, CommentSets DEF Req, Listed
  <2>3. comments' = comments \/ comments' = [comments EXCEPT ![r] = IF k # 0 THEN [old EXCEPT ![k] = sha] ELSE Append(old, sha)]
    BY <1>15 DEF WriteComment
  <2>4. comments \in [Repos -> Seq(Commits \cup {None})]
    OBVIOUS
  <2> HIDE DEF TypeOK, r, old, sha, k
  <2>5. (IF k # 0 THEN [old EXCEPT ![k] = sha] ELSE Append(old, sha)) \in Seq(Commits \cup {None})
    BY <2>1, <2>2
  <2>6. comments' \in [Repos -> Seq(Commits \cup {None})]
    BY <2>1, <2>3, <2>4, <2>5
  <2> QED BY <1>15, <1>0, <2>6 DEF WriteComment, TypeOK
<1>16. CASE CreateCheckRun(q)
  <2>1. At(q, "check") /\ Event(q).sha \in Commits
    BY <1>16, EventSent DEF CreateCheckRun, At
  <2>2. checks' \subseteq Commits
    BY <1>16, <2>1 DEF CreateCheckRun
  <2> QED BY <1>16, <1>0, <2>2 DEF CreateCheckRun
<1>17. CASE Fails(q)
  BY <1>17, <1>0 DEF Fails
<1> QED
  BY <1>1, <1>2, <1>3, <1>4, <1>5, <1>6, <1>7, <1>8, <1>9, <1>10, <1>11, <1>12, <1>13, <1>14, <1>15, <1>16, <1>17 DEF Step

\* A new event leaves the ones before it, and so what the requests work on.
LEMMA EventsKept ==
  ASSUME TypeOK, NEW e \in Events, events' = Append(events, e)
  PROVE  /\ events' \in Seq(Events) /\ Len(events') = Len(events) + 1 /\ events'[Len(events) + 1] = e
         /\ \A d \in 1 .. Len(events) : d \in DOMAIN events /\ events'[d] = events[d]
         /\ \A d \in DOMAIN events' : d \in DOMAIN events \/ d = Len(events) + 1
BY DEF TypeOK

\* The first delivery of an event is recorded and dispatched in one statement; one without
\* an id is dispatched and not recorded.
LEMMA DeliverFacts ==
  ASSUME TypeOK, NEW q \in Requests, NEW d \in Ids, Deliver(q, d)
  PROVE  /\ At(q, "idle") /\ d \in 1 .. Len(events)
         /\ tries' \in [Ids -> 0 .. MaxTries]
         /\ UNCHANGED <<github, posted, events, tables, analysis, bounded>>
         /\ \/ UNCHANGED <<req, runs>> /\ (seen' = seen \/ (d \in seen /\ seen' = seen \cup {d}))
            \/ /\ (d \notin seen /\ seen' = seen \cup {d}) \/ (d \in Unlabelled /\ seen' = seen)
               /\ req' = [req EXCEPT ![q] = [req[q] EXCEPT !.pc = "dispatch", !.job = d]]
               /\ runs' = [runs EXCEPT ![d] = runs[d] + 1]
<1> USE LimitAssumption
<1>1. /\ At(q, "idle") /\ d <= Len(events) /\ tries[d] < MaxTries
      /\ tries' = [tries EXCEPT ![d] = tries[d] + 1]
      /\ UNCHANGED <<github, posted, events, tables, analysis, bounded>>
  BY DEF Deliver
<1>2. d \in 1 .. Len(events)
  BY <1>1 DEF Ids, TypeOK
<1>3. tries' \in [Ids -> 0 .. MaxTries]
  <2>1. tries \in [Ids -> 0 .. MaxTries] /\ MaxTries \in Nat
    BY DEF TypeOK
  <2>2. tries[d] + 1 \in 0 .. MaxTries
    BY <1>1, <2>1
  <2> QED BY <1>1, <2>1, <2>2
<1>4. \/ UNCHANGED <<req, runs>> /\ (seen' = seen \/ (d \in seen /\ seen' = seen \cup {d}))
      \/ /\ (d \notin seen /\ seen' = seen \cup {d}) \/ (d \in Unlabelled /\ seen' = seen)
         /\ req' = [req EXCEPT ![q] = [req[q] EXCEPT !.pc = "dispatch", !.job = d]]
         /\ runs' = [runs EXCEPT ![d] = runs[d] + 1]
  BY DEF Deliver, WebhookSeen
<1> QED BY <1>1, <1>2, <1>3, <1>4

\* setGitHubRepoConnected gives rows of the customer's own installations to it.
LEMMA ConnectedRows ==
  ASSUME NEW c \in Customers, NEW n \in Names, NEW on \in BOOLEAN, setGitHubRepoConnected(c, n, on),
         repoRow \in [Repos -> {None} \cup RepoRow]
  PROVE  /\ repoRow' \in [Repos -> {None} \cup RepoRow]
         /\ \A r \in Repos :
              \/ repoRow'[r] = repoRow[r]
              \/ /\ repoRow[r] # None /\ repoRow'[r].inst = repoRow[r].inst /\ repoRow'[r].customer = c
                 /\ instRow[repoRow[r].inst] # None /\ instRow[repoRow[r].inst].customer = c
<1> DEFINE mine == {r \in listGitHubRepos(c) : repoRow[r].name = n}
           v(r) == [repoRow[r] EXCEPT !.connected = on, !.customer = c]
<1>1. repoRow' = [r \in Repos |-> IF r \in mine THEN v(r) ELSE repoRow[r]]
  BY DEF setGitHubRepoConnected
<1>2. ASSUME NEW r \in Repos, r \in mine
      PROVE  /\ v(r) \in RepoRow /\ v(r).inst = repoRow[r].inst /\ v(r).customer = c
             /\ repoRow[r] # None
             /\ instRow[repoRow[r].inst] # None /\ instRow[repoRow[r].inst].customer = c
  BY <1>2 DEF listGitHubRepos, listGitHubInstallations, RepoRow
<1> HIDE DEF mine, v
<1> QED BY <1>1, <1>2

\* Every step keeps the types.
LEMMA TypeStep == TypeOK /\ WorkInv /\ CommentInv /\ Placed /\ [Next]_vars => TypeOK'
<1> SUFFICES ASSUME TypeOK, WorkInv, CommentInv, Placed, [Next]_vars PROVE TypeOK'
  OBVIOUS
<1> USE LimitAssumption
<1>1. CASE GitHubEvent
  <2>1. GitHubSent
    BY <1>1, GitHubSends DEF WorkInv
  <2>2. PICK e \in Events : events' = Append(events, e)
    BY <2>1 DEF GitHubSent
  <2>3. events' \in Seq(Events) /\ Len(events') = Len(events) + 1
    BY <2>2, EventsKept
  <2>4. Len(events') <= MaxEvents
    BY <2>1, <2>3 DEF GitHubSent, TypeOK
  <2> QED BY <2>1, <2>3, <2>4 DEF GitHubSent, Spoken, TypeOK, tables
<1>2. ASSUME NEW q \in Requests, Step(q) PROVE TypeOK'
  BY <1>2, TypeStepOfRequest
<1>3. ASSUME NEW q \in Requests, NEW d \in Ids, Deliver(q, d) PROVE TypeOK'
  <2>1. req \in [Requests -> Req] /\ req[q] \in Req /\ runs \in [Ids -> Nat]
    BY DEF TypeOK, Req
  <2>2. [req[q] EXCEPT !.pc = "dispatch", !.job = d] \in Req
    BY <2>1, ReqFields DEF Steps
  <2>3. req' \in [Requests -> Req]
    <3>1. req' = req \/ req' = [req EXCEPT ![q] = [req[q] EXCEPT !.pc = "dispatch", !.job = d]]
      BY <1>3, DeliverFacts
    <3> QED BY <2>1, <2>2, <3>1
  <2>4. runs' \in [Ids -> Nat]
    <3>1. runs' = runs \/ runs' = [runs EXCEPT ![d] = runs[d] + 1]
      BY <1>3, DeliverFacts
    <3>2. runs[d] + 1 \in Nat
      BY <2>1
    <3> QED BY <2>1, <3>1, <3>2
  <2>5. seen' \subseteq Ids
    <3>1. seen' = seen \/ seen' = seen \cup {d}
      BY <1>3, DeliverFacts
    <3> QED BY <3>1 DEF TypeOK
  <2>6. tries' \in [Ids -> 0 .. MaxTries] /\ UNCHANGED <<github, posted, events, tables, analysis, bounded>>
    BY <1>3, DeliverFacts
  <2> QED BY <2>3, <2>4, <2>5, <2>6 DEF TypeOK, Req, github, posted, tables, bounded
<1>4. CASE Crash
  <2>1. req' \in [Requests -> Req]
    BY <1>4 DEF Crash, Req, Idle, Steps
  <2>2. crashes' \in 0 .. MaxCrashes
    BY <1>4 DEF Crash, TypeOK
  <2> QED BY <1>4, <2>1, <2>2 DEF Crash, TypeOK, Req, github, posted, tables
<1>5. ASSUME NEW c \in Customers, NEW i \in Installs, githubSetupCallback(c, i) PROVE TypeOK'
  <2> DEFINE v == [customer |-> c, suspended |-> IF instRow[i] = None THEN FALSE ELSE instRow[i].suspended]
  <2>1. instRow \in [Installs -> {None} \cup InstRow]
    BY DEF TypeOK, InstRow
  <2>2. v \in InstRow
    BY <2>1 DEF InstRow
  <2>3. instRow' = [instRow EXCEPT ![i] = v]
    BY <1>5 DEF githubSetupCallback
  <2> HIDE DEF v
  <2>4. instRow' \in [Installs -> {None} \cup InstRow]
    BY <2>1, <2>2, <2>3
  <2>5. admin' \in 0 .. MaxAdmin
    BY <1>5 DEF githubSetupCallback, TypeOK
  <2>6. claims' \subseteq Customers \X Installs
    BY <1>5 DEF githubSetupCallback, TypeOK
  <2> QED BY <1>5, <2>4, <2>5, <2>6 DEF githubSetupCallback, TypeOK, InstRow, github, posted
<1>6. ASSUME NEW c \in Customers, NEW n \in Names, NEW on \in BOOLEAN, setGitHubRepoConnected(c, n, on) PROVE TypeOK'
  <2>1. repoRow \in [Repos -> {None} \cup RepoRow]
    BY DEF TypeOK, RepoRow
  <2>2. repoRow' \in [Repos -> {None} \cup RepoRow]
    BY <1>6, <2>1, ConnectedRows
  <2>3. admin' \in 0 .. MaxAdmin
    <3>1. admin < MaxAdmin /\ admin' = admin + 1
      BY <1>6 DEF setGitHubRepoConnected
    <3> QED BY <3>1 DEF TypeOK
  <2> QED BY <1>6, <2>2, <2>3 DEF setGitHubRepoConnected, TypeOK, RepoRow, github, posted
<1>7. CASE UNCHANGED vars
  BY <1>7 DEF TypeOK, vars, github, posted, tables, bounded
<1> QED BY <1>1, <1>2, <1>3, <1>4, <1>5, <1>6, <1>7 DEF Next, Requesting, Settings

-----------------------------------------------------------------------------
(* Heads, requests and dispatches.                                          *)

\* Only GitHub moves heads and sends events, and only it and the setup callback add to
\* the histories.
LEMMA Quiet ==
  ASSUME TypeOK, WorkInv, [Next]_vars, ~ GitHubEvent
  PROVE  UNCHANGED <<name, inst, head, installed, events, places>> /\ claims \subseteq claims'
<1>1. ASSUME NEW q \in Requests, Step(q) PROVE UNCHANGED <<github, events, places, claims>>
  BY <1>1, StepMoves DEF WorkInv, bounded
<1>2. ASSUME NEW q \in Requests, NEW d \in Ids, Deliver(q, d) PROVE UNCHANGED <<github, events, places, claims>>
  BY <1>2 DEF Deliver, bounded
<1>3. CASE Crash
  BY <1>3 DEF Crash, github
<1>4. ASSUME NEW c \in Customers, NEW i \in Installs, githubSetupCallback(c, i)
      PROVE  UNCHANGED <<github, events, places>> /\ claims \subseteq claims'
  BY <1>4 DEF githubSetupCallback
<1>5. ASSUME NEW c \in Customers, NEW n \in Names, NEW on \in BOOLEAN, setGitHubRepoConnected(c, n, on)
      PROVE  UNCHANGED <<github, events, places, claims>>
  BY <1>5 DEF setGitHubRepoConnected
<1>6. CASE UNCHANGED vars
  BY <1>6 DEF vars, github, bounded
<1> QED BY <1>1, <1>2, <1>3, <1>4, <1>5, <1>6 DEF Next, Requesting, Settings, github

\* Every request is idle, no delivery has been seen and no head has moved at the start.
LEMMA WorkInit == Init => WorkInv /\ SeenCounted
<1> SUFFICES ASSUME Init PROVE WorkInv /\ SeenCounted
  OBVIOUS
<1>1. HeadsCounted /\ SeenCounted
  BY DEF Init, HeadsCounted, SeenCounted
<1>2. \A q \in Requests : RequestInv(q)
  BY DEF Init, RequestInv, Idle, At, Resolving, Analysing
<1> QED BY <1>1, <1>2 DEF WorkInv

\* Every step keeps what a request may hold at its control point, and heads within the events sent.
LEMMA WorkStep == TypeOK /\ WorkInv /\ Placed /\ [Next]_vars => WorkInv'
<1> SUFFICES ASSUME TypeOK, WorkInv, Placed, [Next]_vars PROVE WorkInv'
  OBVIOUS
<1>1. CASE GitHubEvent
  <2>1. GitHubSent /\ req' = req
    BY <1>1, GitHubSends DEF WorkInv, GitHubSent
  <2>2. PICK e \in Events : events' = Append(events, e)
    BY <2>1 DEF GitHubSent
  <2>3. /\ Len(events') = Len(events) + 1 /\ Len(events) \in Nat
        /\ \A d \in 1 .. Len(events) : events'[d] = events[d]
    BY <2>2, EventsKept DEF TypeOK
  <2>4. HeadsCounted'
    BY <2>1, <2>3 DEF GitHubSent, HeadsCounted
  <2>5. ASSUME NEW q \in Requests PROVE RequestInv(q)'
    <3>1. RequestInv(q)
      BY DEF WorkInv
    <3>2. CASE At(q, "idle")
      BY <2>1, <3>2 DEF RequestInv, At, Resolving, Analysing
    <3>3. CASE ~ At(q, "idle")
      <4>1. req[q].job \in 1 .. Len(events) /\ Event(q)' = Event(q)
        BY <2>1, <2>3, <3>1, <3>3 DEF RequestInv, Event
      <4>2. req[q].job \in 1 .. Len(events')
        BY <2>3, <4>1
      <4> QED BY <2>1, <3>1, <4>1, <4>2 DEF RequestInv, At
    <3> QED BY <3>2, <3>3
  <2> QED BY <2>4, <2>5 DEF WorkInv
<1>2. CASE ~ GitHubEvent
  <2>1. UNCHANGED <<head, events>>
    BY <1>2, Quiet
  <2>2. HeadsCounted'
    BY <2>1 DEF WorkInv, HeadsCounted
  <2>3. ASSUME NEW q \in Requests, Step(q) PROVE \A p \in Requests : RequestInv(p)'
    BY <2>3, RequestStep DEF WorkInv
  <2>4. ASSUME NEW q \in Requests, NEW d \in Ids, Deliver(q, d) PROVE \A p \in Requests : RequestInv(p)'
    <3>1. req \in [Requests -> Req] /\ req[q] \in Req
      BY DEF TypeOK, Req
    <3>2. d \in 1 .. Len(events) /\ (req' = req \/ req' = [req EXCEPT ![q] = [req[q] EXCEPT !.pc = "dispatch", !.job = d]])
      BY <2>4, DeliverFacts
    <3>3. CASE req' = req
      BY <2>1, <3>3 DEF WorkInv, RequestInv, Event, At
    <3>4. CASE req' = [req EXCEPT ![q] = [req[q] EXCEPT !.pc = "dispatch", !.job = d]]
      <4>1. req'[q].pc = "dispatch" /\ req'[q].job = d /\ \A p \in Requests : p # q => req'[p] = req[p]
        BY <3>1, <3>4 DEF Req
      <4>2. RequestInv(q)'
        BY <2>1, <3>2, <4>1 DEF RequestInv, At, Resolving, Analysing
      <4> QED BY <2>1, <4>1, <4>2 DEF WorkInv, RequestInv, Event, At
    <3> QED BY <3>2, <3>3, <3>4
  <2>5. ASSUME Crash PROVE \A p \in Requests : RequestInv(p)'
    BY <2>1, <2>5 DEF Crash, RequestInv, Idle, At, Resolving, Analysing
  <2>6. ASSUME req' = req PROVE \A p \in Requests : RequestInv(p)'
    BY <2>1, <2>6 DEF WorkInv, RequestInv, Event, At
  <2>7. ASSUME Settings \/ UNCHANGED vars PROVE req' = req
    BY <2>7 DEF Settings, githubSetupCallback, setGitHubRepoConnected, vars
  <2> QED BY <1>2, <2>2, <2>3, <2>4, <2>5, <2>6, <2>7 DEF WorkInv, Next, Requesting
<1> QED BY <1>1, <1>2

\* WebhookSeen lets the first delivery through and no other.
LEMMA SeenStep == TypeOK /\ WorkInv /\ Placed /\ SeenCounted /\ [Next]_vars => SeenCounted'
<1> SUFFICES ASSUME TypeOK, WorkInv, Placed, SeenCounted, [Next]_vars PROVE SeenCounted'
  OBVIOUS
<1>1. ASSUME NEW q \in Requests, NEW d \in Ids, Deliver(q, d) PROVE SeenCounted'
  <2>1. \/ runs' = runs /\ seen' = seen
        \/ runs' = runs /\ d \in seen /\ seen' = seen \cup {d}
        \/ d \notin seen /\ seen' = seen \cup {d} /\ runs' = [runs EXCEPT ![d] = runs[d] + 1]
        \/ d \in Unlabelled /\ seen' = seen /\ runs' = [runs EXCEPT ![d] = runs[d] + 1]
    BY <1>1, DeliverFacts
  <2>2. runs \in [Ids -> Nat]
    BY DEF TypeOK
  <2> QED BY <2>1, <2>2 DEF SeenCounted
<1>2. ASSUME NEW q \in Requests, Step(q) PROVE UNCHANGED <<runs, seen>>
  BY <1>2, StepMoves DEF WorkInv
<1>3. ASSUME GitHubEvent PROVE UNCHANGED <<runs, seen>>
  BY <1>3, GitHubSends DEF WorkInv, GitHubSent
<1>4. ASSUME Crash PROVE UNCHANGED <<runs, seen>>
  BY <1>4 DEF Crash
<1>5. ASSUME Settings PROVE UNCHANGED <<runs, seen>>
  BY <1>5 DEF Settings, githubSetupCallback, setGitHubRepoConnected
<1>6. ASSUME UNCHANGED vars PROVE UNCHANGED <<runs, seen>>
  BY <1>6 DEF vars
<1>7. CASE UNCHANGED <<runs, seen>>
  BY <1>7 DEF SeenCounted
<1> QED BY <1>1, <1>2, <1>3, <1>4, <1>5, <1>6, <1>7 DEF Next, Requesting

-----------------------------------------------------------------------------
(* Tenancy.                                                                 *)

\* Claims and places are only added to.
LEMMA BackedKept ==
  ASSUME claims \subseteq claims', places \subseteq places', NEW c, NEW r, Backed(c, r)
  PROVE  Backed(c, r)'
BY DEF Backed

\* A request never gives an installation another customer; it writes rows of
\* repositories only from its payload, and an analysis only for its own event.
LEMMA RowsStep ==
  ASSUME TypeOK, WorkInv, NEW q \in Requests, Step(q)
  PROVE  /\ \A i \in Installs : instRow'[i] # None /\ instRow'[i].customer # None =>
              instRow[i] # None /\ instRow[i].customer = instRow'[i].customer
         /\ \A r \in Repos : repoRow'[r] # None =>
              \/ repoRow'[r] = repoRow[r]
              \/ /\ At(q, "repos") /\ repoRow'[r].inst = Event(q).inst
                 /\ \E x \in req[q].todo : x[1] = r
                 /\ repoRow'[r].customer = IF repoRow[r] = None THEN None ELSE repoRow[r].customer
         /\ \A k \in Names \X Commits : analysis'[k] # None =>
              \/ analysis'[k] = analysis[k]
              \/ /\ At(q, "persist") /\ k = <<Event(q).name, Event(q).sha>>
                 /\ analysis'[k].customer = req[q].cid
<1>r. RequestInv(q)
  BY DEF WorkInv
<1>0. /\ instRow \in [Installs -> {None} \cup InstRow] /\ repoRow \in [Repos -> {None} \cup RepoRow]
      /\ analysis \in [Names \X Commits -> {None} \cup [customer : Customers, diff : Commits]]
  BY DEF TypeOK, InstRow, RepoRow
<1>1. CASE onInstallation(q)
  <2> DEFINE e == Event(q)
             row == instRow[e.inst]
             kept == [customer |-> IF row = None THEN None ELSE row.customer, suspended |-> FALSE]
             paused == [row EXCEPT !.suspended = (e.kind = "suspend")]
  <2>1. At(q, "dispatch") /\ e.inst \in Installs /\ analysis' = analysis
    BY <1>1, <1>r, EventSent DEF onInstallation, At
  <2>2. \/ instRow' = instRow
        \/ instRow' = [instRow EXCEPT ![e.inst] = None]
        \/ instRow' = [instRow EXCEPT ![e.inst] = kept]
        \/ row # None /\ instRow' = [instRow EXCEPT ![e.inst] = paused]
    BY <1>1 DEF onInstallation
  <2>3. row \in {None} \cup InstRow
    BY <1>0, <2>1
  <2>4. /\ kept.customer = IF row = None THEN None ELSE row.customer
        /\ row # None => paused.customer = row.customer
    BY <2>3 DEF InstRow
  <2> HIDE DEF kept, paused
  <2>5. \A i \in Installs : i # e.inst => instRow'[i] = instRow[i]
    BY <1>0, <2>1, <2>2
  <2>6. \/ instRow'[e.inst] = row
        \/ instRow'[e.inst] = None
        \/ instRow'[e.inst] = kept
        \/ row # None /\ instRow'[e.inst] = paused
    BY <1>0, <2>1, <2>2
  <2>7. \A r \in Repos : repoRow'[r] # None => repoRow'[r] = repoRow[r]
    <3>1. repoRow' = repoRow \/ repoRow' = [r \in Repos |-> IF repoRow[r] # None /\ repoRow[r].inst = e.inst THEN None ELSE repoRow[r]]
      BY <1>1 DEF onInstallation
    <3> QED BY <3>1
  <2> HIDE DEF e, row
  <2>8. \A i \in Installs : instRow'[i] # None /\ instRow'[i].customer # None =>
              instRow[i] # None /\ instRow[i].customer = instRow'[i].customer
    BY <2>4, <2>5, <2>6 DEF row
  <2> QED BY <2>1, <2>7, <2>8
<1>2. CASE onInstallationRepos(q)
  <2>1. At(q, "dispatch") /\ Event(q).repo \in Repos /\ instRow' = instRow /\ analysis' = analysis
    BY <1>2, <1>r, EventSent DEF onInstallationRepos, At
  <2>2. repoRow' = repoRow \/ repoRow' = [repoRow EXCEPT ![Event(q).repo] = None]
    BY <1>2 DEF onInstallationRepos
  <2>3. \A r \in Repos : repoRow'[r] # None => repoRow'[r] = repoRow[r]
    BY <1>0, <2>1, <2>2
  <2> QED BY <2>1, <2>3
<1>3. CASE UpsertNext(q)
  <2>1. At(q, "repos") /\ Event(q).inst \in Installs /\ req[q] \in Req /\ instRow' = instRow /\ analysis' = analysis
    BY <1>3, <1>r, EventSent DEF UpsertNext, At
  <2>2. repoRow' = repoRow \/ \E x \in req[q].todo : repoRow' = UpsertRepo(x[1], Event(q).inst, x[2])
    BY <1>3 DEF UpsertNext
  <2>3. CASE repoRow' = repoRow
    BY <2>1, <2>3
  <2>4. ASSUME NEW x \in req[q].todo, repoRow' = UpsertRepo(x[1], Event(q).inst, x[2])
        PROVE  \A r \in Repos : repoRow'[r] # None =>
                 \/ repoRow'[r] = repoRow[r]
                 \/ /\ At(q, "repos") /\ repoRow'[r].inst = Event(q).inst
                    /\ \E y \in req[q].todo : y[1] = r
                    /\ repoRow'[r].customer = IF repoRow[r] = None THEN None ELSE repoRow[r].customer
    <3>1. x[1] \in Repos /\ x[2] \in Names
      BY <2>1 DEF Req
    <3>2. /\ repoRow'[x[1]].inst = Event(q).inst
          /\ repoRow'[x[1]].customer = IF repoRow[x[1]] = None THEN None ELSE repoRow[x[1]].customer
          /\ \A y \in Repos : y # x[1] => repoRow'[y] = repoRow[y]
      BY <1>0, <2>1, <2>4, <3>1, UpsertTyped
    <3> QED BY <2>1, <3>1, <3>2
  <2> QED BY <2>1, <2>2, <2>3, <2>4
<1>4. CASE UpsertPRAnalysis(q)
  <2> DEFINE e == Event(q)
             v == [customer |-> req[q].cid, diff |-> req[q].diff]
  <2>1. At(q, "persist") /\ e.name \in Names /\ e.sha \in Commits /\ instRow' = instRow /\ repoRow' = repoRow
    BY <1>4, <1>r, EventSent DEF UpsertPRAnalysis, At, tables
  <2>2. analysis' = [analysis EXCEPT ![<<e.name, e.sha>>] = v] /\ v.customer = req[q].cid
    BY <1>4 DEF UpsertPRAnalysis
  <2> HIDE DEF v
  <2>3. \A k \in Names \X Commits : analysis'[k] = analysis[k] \/ (k = <<e.name, e.sha>> /\ analysis'[k] = v)
    BY <1>0, <2>2
  <2> QED BY <2>1, <2>2, <2>3
<1>5. CASE ~ (onInstallation(q) \/ onInstallationRepos(q) \/ UpsertNext(q) \/ UpsertPRAnalysis(q))
  <2>1. UNCHANGED <<instRow, repoRow, analysis>>
    <3>1. CASE onRepository(q) \/ OnPush(q) \/ Ignored(q) \/ dispatch(q)
      BY <3>1 DEF onRepository, OnPush, Ignored, dispatch, tables
    <3>2. CASE ResolveRepo(q) \/ ResolveInstall(q) \/ RecordSuppression(q) \/ IsSuppressed(q) \/ PRDiff(q)
      BY <3>2 DEF ResolveRepo, ResolveInstall, RecordSuppression, IsSuppressed, PRDiff, tables
    <3>3. CASE FindStep(q) \/ WriteComment(q) \/ CreateCheckRun(q) \/ Fails(q)
      BY <3>3 DEF FindStep, WriteComment, CreateCheckRun, Fails, tables
    <3> QED BY <1>5, <3>1, <3>2, <3>3 DEF Step
  <2> QED BY <2>1
<1> QED BY <1>1, <1>2, <1>3, <1>4, <1>5

\* A request resolves a customer that has claimed an installation of the repository, and
\* keeps the customer and the event it works on.
LEMMA TenantOfRequest ==
  ASSUME TypeOK, WorkInv, TenantInv, NEW q \in Requests, Step(q)
  PROVE  TablesBacked' /\ AnalysesBacked' /\ \A p \in Requests : RequestBacked(p)'
<1>0. RequestInv(q) /\ ~ At(q, "idle") /\ UNCHANGED <<events, claims, places>>
  BY StepMoves DEF WorkInv, bounded
<1>1. /\ req[q].job \in DOMAIN events /\ Event(q).repo \in Repos /\ Event(q).inst \in Installs
      /\ Event(q).sha \in Commits
  BY <1>0, EventSent
<1>2. Honest(Event(q), places) /\ RequestBacked(q) /\ TablesBacked /\ AnalysesBacked
  BY <1>1 DEF TenantInv, Event
<1>3. \A c, r : Backed(c, r)' <=> Backed(c, r)
  BY <1>0 DEF Backed
<1>4. TablesBacked'
  <2>1. ASSUME NEW i \in Installs, instRow'[i] # None, instRow'[i].customer # None
        PROVE  <<instRow'[i].customer, i>> \in claims'
    <3>1. instRow[i] # None /\ instRow[i].customer = instRow'[i].customer
      BY <2>1, RowsStep
    <3> QED BY <1>0, <1>2, <2>1, <3>1 DEF TablesBacked
  <2>2. ASSUME NEW r \in Repos, repoRow'[r] # None
        PROVE  /\ <<r, repoRow'[r].inst>> \in places'
               /\ repoRow'[r].customer # None => Backed(repoRow[r].customer, r)'
    <3>1. \/ repoRow'[r] = repoRow[r]
          \/ /\ At(q, "repos") /\ repoRow'[r].inst = Event(q).inst
             /\ \E x \in req[q].todo : x[1] = r
             /\ repoRow'[r].customer = IF repoRow[r] = None THEN None ELSE repoRow[r].customer
      BY <2>2, RowsStep
    <3>2. CASE repoRow'[r] = repoRow[r]
      BY <1>0, <1>2, <2>2, <3>2 DEF TablesBacked, Backed
    <3>3. CASE /\ At(q, "repos") /\ repoRow'[r].inst = Event(q).inst
               /\ \E x \in req[q].todo : x[1] = r
               /\ repoRow'[r].customer = IF repoRow[r] = None THEN None ELSE repoRow[r].customer
      <4>1. <<r, Event(q).inst>> \in places
        BY <1>2, <3>3 DEF RequestBacked
      <4>2. repoRow'[r].customer # None => Backed(repoRow'[r].customer, r)
        BY <1>2, <3>3 DEF TablesBacked
      <4> QED BY <1>0, <3>3, <4>1, <4>2 DEF Backed
    <3> QED BY <3>1, <3>2, <3>3
  <2> QED BY <2>1, <2>2 DEF TablesBacked
<1>5. AnalysesBacked'
  <2>1. ASSUME NEW k \in Names \X Commits, analysis'[k] # None PROVE Backed(analysis[k].customer, k[2][1])'
    <3>1. \/ analysis'[k] = analysis[k]
          \/ /\ At(q, "persist") /\ k = <<Event(q).name, Event(q).sha>>
             /\ analysis'[k].customer = req[q].cid
      BY <2>1, RowsStep
    <3>2. CASE analysis'[k] = analysis[k]
      BY <1>0, <1>2, <2>1, <3>2 DEF AnalysesBacked, Backed
    <3>3. CASE /\ At(q, "persist") /\ k = <<Event(q).name, Event(q).sha>>
               /\ analysis'[k].customer = req[q].cid
      <4>1. k[2][1] = Event(q).repo
        BY <1>2, <3>3 DEF Honest
      <4>2. Backed(req[q].cid, Event(q).repo)
        BY <1>2, <3>3 DEF RequestBacked, At, Analysing
      <4> QED BY <1>0, <3>3, <4>1, <4>2 DEF Backed
    <3> QED BY <3>1, <3>2, <3>3
  <2> QED BY <2>1 DEF AnalysesBacked
<1>6. ASSUME NEW p \in Requests PROVE RequestBacked(p)'
  <2>1. PICK x \in Req : Moves(q, x) /\ req' = [req EXCEPT ![q] = x]
    BY <1>0, StepMoves
  <2>2. req'[q] = x /\ \A y \in Requests : y # q => req'[y] = req[y]
    BY <2>1, OneRequest DEF TypeOK, Req
  <2>3. CASE p # q
    <3>1. RequestBacked(p)
      BY DEF TenantInv
    <3> QED BY <1>0, <1>3, <2>2, <2>3, <3>1 DEF RequestBacked, At, Event
  <2>4. CASE p = q
    <3>1. /\ x.pc # "idle" => x.job = req[q].job
          /\ x.pc \in Analysing => Event(q).kind = "opened"
          /\ x.pc \in Analysing \cup {"record"} => x.cid \in Customers
          /\ x.pc \in Analysing => \/ req[q].pc \in Analysing /\ x.cid = req[q].cid
                                   \/ At(q, "repoRow") /\ x.cid = RepoOverride(q)
                                   \/ At(q, "instRow") /\ x.cid = InstallDefault(q)
          /\ x.pc = "repos" => \/ At(q, "repos") /\ x.todo \subseteq req[q].todo
                               \/ Event(q).kind \in Listing /\ x.todo = Event(q).listed
      BY <1>0, <2>1, MoveFields
    <3>2. x.pc # "idle" => Event(q)' = Event(q)
      BY <1>0, <2>2, <3>1 DEF Event
    <3>3. x.pc = "repos" => \A y \in x.todo : <<y[1], Event(q).inst>> \in places
      BY <1>2, <3>1 DEF RequestBacked, Honest
    <3>4. ASSUME x.pc \in Analysing PROVE Backed(x.cid, Event(q).repo)
      <4>0. x.cid \in Customers /\ x.cid # None /\ Event(q).kind = "opened"
        BY <3>1, <3>4, NoneAssumption
      <4>1. CASE req[q].pc \in Analysing /\ x.cid = req[q].cid
        BY <1>2, <4>1 DEF RequestBacked
      <4>2. CASE x.cid = RepoOverride(q)
        BY <1>1, <1>2, <4>0, <4>2 DEF RepoOverride, TablesBacked
      <4>3. CASE x.cid = InstallDefault(q)
        <5>1. <<x.cid, Event(q).inst>> \in claims
          BY <1>1, <1>2, <4>0, <4>3 DEF InstallDefault, TablesBacked
        <5>2. <<Event(q).repo, Event(q).inst>> \in places
          BY <1>2, <4>0 DEF Honest, Located
        <5> QED BY <1>1, <5>1, <5>2 DEF Backed
      <4> QED BY <3>1, <3>4, <4>1, <4>2, <4>3
    <3> QED BY <1>0, <1>3, <2>2, <2>4, <3>2, <3>3, <3>4 DEF RequestBacked, At, Analysing
  <2> QED BY <2>3, <2>4
<1> QED BY <1>4, <1>5, <1>6

\* Requests that stay as they are keep their customers when GitHub or a customer acts.
LEMMA BackedFrame ==
  ASSUME WorkInv, TenantInv, claims \subseteq claims', places \subseteq places', req' = req,
         \A d \in 1 .. Len(events) : events'[d] = events[d]
  PROVE  \A p \in Requests : RequestBacked(p)'
<1> TAKE p \in Requests
<1>1. RequestBacked(p) /\ RequestInv(p)
  BY DEF TenantInv, WorkInv
<1>2. ~ At(p, "idle") => Event(p)' = Event(p)
  BY <1>1 DEF RequestInv, Event
<1>3. ASSUME NEW c, NEW r, Backed(c, r) PROVE Backed(c, r)'
  BY <1>3, BackedKept
<1> QED BY <1>1, <1>2, <1>3 DEF RequestBacked, At, Analysing

\* The first claims and places back the rows the tables start with.
LEMMA TenantInit == Init => TenantInv
<1> SUFFICES ASSUME Init PROVE TenantInv
  OBVIOUS
<1> USE FirstAssumption, NoneAssumption
<1>1. /\ \A i \in Installs : instRow[i] = IF FirstClaim[i] = None THEN None
                                          ELSE [customer |-> FirstClaim[i], suspended |-> FALSE]
      /\ \A r \in Repos : repoRow[r] = None
           \/ repoRow[r] = [inst |-> inst[r], name |-> name[r], customer |-> None, connected |-> FALSE]
      /\ \A i \in Installs : FirstClaim[i] # None => <<FirstClaim[i], i>> \in claims
      /\ \A r \in Repos : <<r, inst[r]>> \in places
  BY DEF Init
<1>2. Placed /\ TablesBacked
  <2>1. ASSUME NEW i \in Installs, instRow[i] # None PROVE <<instRow[i].customer, i>> \in claims
    <3>1. FirstClaim[i] # None /\ instRow[i] = [customer |-> FirstClaim[i], suspended |-> FALSE]
      BY <1>1, <2>1
    <3>2. instRow[i].customer = FirstClaim[i]
      BY <3>1
    <3> QED BY <1>1, <3>1, <3>2
  <2>2. ASSUME NEW r \in Repos, repoRow[r] # None
        PROVE  <<r, repoRow[r].inst>> \in places /\ repoRow[r].customer = None
    <3>1. repoRow[r] = [inst |-> inst[r], name |-> name[r], customer |-> None, connected |-> FALSE]
      BY <1>1, <2>2
    <3>2. repoRow[r].inst = inst[r] /\ repoRow[r].customer = None
      BY <3>1
    <3> QED BY <1>1, <3>2
  <2> QED BY <1>1, <2>1, <2>2 DEF Placed, TablesBacked
<1>3. AnalysesBacked
  BY DEF Init, AnalysesBacked
<1>4. \A q \in Requests : RequestBacked(q)
  BY DEF Init, RequestBacked, Idle, At, Analysing
<1>5. \A d \in DOMAIN events : Honest(events[d], places)
  BY DEF Init
<1> QED BY <1>2, <1>3, <1>4, <1>5 DEF TenantInv

\* Every step keeps rows, analyses and requests backed by a claim of their tenant.
LEMMA TenantStep == TypeOK /\ WorkInv /\ TenantInv /\ [Next]_vars => TenantInv'
<1> SUFFICES ASSUME TypeOK, WorkInv, TenantInv, [Next]_vars PROVE TenantInv'
  OBVIOUS
<1>0. Placed /\ TablesBacked /\ AnalysesBacked
  BY DEF TenantInv
<1>1. CASE GitHubEvent
  <2>1. GitHubSent /\ UNCHANGED <<instRow, repoRow, analysis, req, claims>> /\ places \subseteq places' /\ Placed'
    BY <1>0, <1>1, GitHubSends DEF WorkInv, GitHubSent, tables
  <2>2. PICK e \in Events : events' = Append(events, e) /\ Honest(e, places')
    BY <2>1 DEF GitHubSent
  <2>3. /\ events'[Len(events) + 1] = e
        /\ \A d \in 1 .. Len(events) : d \in DOMAIN events /\ events'[d] = events[d]
        /\ \A d \in DOMAIN events' : d \in 1 .. Len(events) \/ d = Len(events) + 1
    BY <2>2, EventsKept DEF TypeOK
  <2>4. \A d \in DOMAIN events' : Honest(events'[d], places')
    BY <2>1, <2>2, <2>3 DEF TenantInv, Honest
  <2>5. \A p \in Requests : RequestBacked(p)'
    BY <2>1, <2>3, BackedFrame
  <2>6. TablesBacked' /\ AnalysesBacked'
    BY <1>0, <2>1 DEF TablesBacked, AnalysesBacked, Backed
  <2> QED BY <2>1, <2>4, <2>5, <2>6 DEF TenantInv
<1>2. CASE ~ GitHubEvent
  <2>1. UNCHANGED <<inst, events, places>> /\ claims \subseteq claims'
    BY <1>2, Quiet
  <2>2. Placed' /\ (\A d \in DOMAIN events : Honest(events[d], places))'
    BY <1>0, <2>1 DEF Placed, Honest, TenantInv
  <2>3. ASSUME NEW q \in Requests, Step(q)
        PROVE  TablesBacked' /\ AnalysesBacked' /\ \A p \in Requests : RequestBacked(p)'
    BY <2>3, TenantOfRequest
  <2>4. ASSUME NEW q \in Requests, NEW d \in Ids, Deliver(q, d)
        PROVE  TablesBacked' /\ AnalysesBacked' /\ \A p \in Requests : RequestBacked(p)'
    <3>1. UNCHANGED <<instRow, repoRow, analysis, claims>>
          /\ (req' = req \/ req' = [req EXCEPT ![q] = [req[q] EXCEPT !.pc = "dispatch", !.job = d]])
      BY <2>4, DeliverFacts DEF tables, bounded
    <3>2. TablesBacked' /\ AnalysesBacked'
      BY <1>0, <2>1, <3>1 DEF TablesBacked, AnalysesBacked, Backed
    <3>3. CASE req' = req
      BY <2>1, <3>2, <3>3, BackedFrame
    <3>4. CASE req' = [req EXCEPT ![q] = [req[q] EXCEPT !.pc = "dispatch", !.job = d]]
      <4>1. req'[q].pc = "dispatch" /\ \A p \in Requests : p # q => req'[p] = req[p]
        BY <3>4 DEF TypeOK
      <4>2. RequestBacked(q)'
        BY <4>1 DEF RequestBacked, At, Analysing
      <4>3. ASSUME NEW p \in Requests, p # q PROVE RequestBacked(p)'
        <5>1. RequestBacked(p)
          BY DEF TenantInv
        <5> QED BY <2>1, <3>1, <4>1, <4>3, <5>1 DEF RequestBacked, At, Event, Backed
      <4> QED BY <3>2, <4>2, <4>3
    <3> QED BY <3>1, <3>3, <3>4
  <2>5. ASSUME Crash
        PROVE  TablesBacked' /\ AnalysesBacked' /\ \A p \in Requests : RequestBacked(p)'
    <3>1. UNCHANGED <<instRow, repoRow, analysis, claims, places>> /\ req' = [q \in Requests |-> Idle]
      BY <2>5 DEF Crash, tables
    <3>2. TablesBacked' /\ AnalysesBacked'
      BY <1>0, <3>1 DEF TablesBacked, AnalysesBacked, Backed
    <3> QED BY <3>1, <3>2 DEF RequestBacked, Idle, At, Analysing
  <2>6. ASSUME NEW c \in Customers, NEW i \in Installs, githubSetupCallback(c, i)
        PROVE  TablesBacked' /\ AnalysesBacked' /\ \A p \in Requests : RequestBacked(p)'
    <3> DEFINE v == [customer |-> c, suspended |-> IF instRow[i] = None THEN FALSE ELSE instRow[i].suspended]
    <3>1. instRow' = [instRow EXCEPT ![i] = v] /\ claims' = claims \cup {<<c, i>>} /\ v.customer = c
          /\ UNCHANGED <<repoRow, analysis, req, places>>
      BY <2>6 DEF githubSetupCallback
    <3> HIDE DEF v
    <3>2. \A j \in Installs : instRow'[j] = IF j = i THEN v ELSE instRow[j]
      BY <3>1 DEF TypeOK
    <3>3. TablesBacked'
      BY <1>0, <3>1, <3>2 DEF TablesBacked, Backed
    <3>4. AnalysesBacked'
      BY <1>0, <3>1 DEF AnalysesBacked, Backed
    <3> QED BY <2>1, <3>1, <3>3, <3>4, BackedFrame
  <2>7. ASSUME NEW c \in Customers, NEW n \in Names, NEW on \in BOOLEAN, setGitHubRepoConnected(c, n, on)
        PROVE  TablesBacked' /\ AnalysesBacked' /\ \A p \in Requests : RequestBacked(p)'
    <3>1. UNCHANGED <<instRow, analysis, req, claims, places>>
      BY <2>7 DEF setGitHubRepoConnected
    <3>2. repoRow \in [Repos -> {None} \cup RepoRow]
      BY DEF TypeOK, RepoRow
    <3>3. \A r \in Repos :
              \/ repoRow'[r] = repoRow[r]
              \/ /\ repoRow[r] # None /\ repoRow'[r].inst = repoRow[r].inst /\ repoRow'[r].customer = c
                 /\ instRow[repoRow[r].inst] # None /\ instRow[repoRow[r].inst].customer = c
      BY <2>7, <3>2, ConnectedRows
    <3>4. ASSUME NEW r \in Repos, repoRow'[r] # None
          PROVE  /\ <<r, repoRow'[r].inst>> \in places'
                 /\ repoRow'[r].customer # None => Backed(repoRow[r].customer, r)'
      <4>1. CASE repoRow'[r] = repoRow[r]
        BY <1>0, <3>1, <3>4, <4>1 DEF TablesBacked, Backed
      <4>2. CASE /\ repoRow[r] # None /\ repoRow'[r].inst = repoRow[r].inst /\ repoRow'[r].customer = c
                 /\ instRow[repoRow[r].inst] # None /\ instRow[repoRow[r].inst].customer = c
        <5>1. repoRow[r].inst \in Installs /\ c # None
          BY <3>2, <4>2, NoneAssumption DEF RepoRow
        <5>2. <<c, repoRow[r].inst>> \in claims /\ <<r, repoRow[r].inst>> \in places
          BY <1>0, <4>2, <5>1 DEF TablesBacked
        <5> QED BY <3>1, <4>2, <5>1, <5>2 DEF Backed
      <4> QED BY <3>3, <4>1, <4>2
    <3>5. TablesBacked'
      BY <1>0, <3>1, <3>4 DEF TablesBacked
    <3>6. AnalysesBacked'
      BY <1>0, <3>1 DEF AnalysesBacked, Backed
    <3> QED BY <2>1, <3>1, <3>5, <3>6, BackedFrame
  <2>8. ASSUME UNCHANGED vars
        PROVE  TablesBacked' /\ AnalysesBacked' /\ \A p \in Requests : RequestBacked(p)'
    <3>1. UNCHANGED <<instRow, repoRow, analysis, req, claims, places>>
      BY <2>8 DEF vars, tables, bounded
    <3>2. TablesBacked' /\ AnalysesBacked'
      BY <1>0, <3>1 DEF TablesBacked, AnalysesBacked, Backed
    <3> QED BY <2>1, <3>1, <3>2, BackedFrame
  <2> QED BY <1>2, <2>2, <2>3, <2>4, <2>5, <2>6, <2>7, <2>8 DEF TenantInv, Next, Requesting, Settings
<1> QED BY <1>1, <1>2

-----------------------------------------------------------------------------
(* The comment of a pull request.                                           *)

\* CommentInv needs no more than that no request comes to the write, the ones that are
\* there stay as they are, and the marked comments too.
LEMMA CommentFrame ==
  ASSUME TypeOK, TypeOK', CommentInv, crowd' = crowd, \A r \in Repos : Marked(r)' = Marked(r),
         \A p \in Requests : req'[p].pc = "comment" =>
           At(p, "comment") /\ req'[p].found = req[p].found /\ Event(p)' = Event(p) /\ Event(p).repo \in Repos
  PROVE  CommentInv'
<1>1. \A r \in Repos : Posting(r)' \subseteq Posting(r) /\ Listed(r)' = Listed(r)
  BY DEF Posting, Listed, At
<1>2. ASSUME NEW p \in Requests, At(p, "comment")', req'[p].found # 0
      PROVE  req'[p].found \in Listed(Event(p).repo)'
  BY <1>1, <1>2 DEF At, CommentInv
<1>3. ASSUME NEW r \in Repos PROVE PostsBounded(r)'
  <2>1. /\ IsFiniteSet(Posting(r)) /\ Cardinality(Posting(r)) \in Nat /\ Cardinality(Marked(r)) \in Nat
    BY CommentSets
  <2>2. Cardinality(Posting(r)') <= Cardinality(Posting(r))
    BY <1>1, <2>1, FS_Subset
  <2>3. Cardinality(Posting(r)') \in Nat
    BY <1>1, <2>1, FS_Subset, FS_CardinalityType
  <2>4. crowd[r] \in Nat /\ PostsBounded(r)
    BY DEF TypeOK, CommentInv
  <2> QED BY <1>1, <2>1, <2>2, <2>3, <2>4 DEF PostsBounded
<1> QED BY <1>2, <1>3 DEF CommentInv

\* FindComment looks before the request comes to the write; who finds none joins the crowd.
LEMMA CommentFind ==
  ASSUME TypeOK, TypeOK', WorkInv, CommentInv, NEW q \in Requests, FindStep(q)
  PROVE  CommentInv'
<1>r. PICK r \in Repos : r = Event(q).repo
  BY EventSent DEF WorkInv, FindStep, At
<1> DEFINE n == Cardinality(Posting(r)) + 1
           x == [req[q] EXCEPT !.pc = "comment", !.found = FindComment(r)]
           y == [req[q] EXCEPT !.pc = "check"]
<1>0. /\ RequestInv(q) /\ At(q, "find") /\ UNCHANGED <<events, comments>>
      /\ \/ req' = [req EXCEPT ![q] = y] /\ crowd' = crowd
         \/ /\ req' = [req EXCEPT ![q] = x]
            /\ crowd' = IF FindComment(r) = 0 /\ n > crowd[r] THEN [crowd EXCEPT ![r] = n] ELSE crowd
  BY <1>r DEF FindStep, Goto, rest, WorkInv
<1>1. req[q] \in Req /\ req \in [Requests -> Req] /\ crowd \in [Repos -> Nat]
  BY <1>0, EventSent DEF At, TypeOK, Req
<1>2. x.pc = "comment" /\ x.found = FindComment(r) /\ x.job = req[q].job /\ y.pc = "check"
  BY <1>1 DEF Req
<1>m. \A z : Marked(z)' = Marked(z) /\ Listed(z)' = Listed(z)
  BY <1>0 DEF Marked, Listed
<1>e. \A p \in Requests : At(p, "comment") => Event(p).repo \in Repos
  <2>1. ASSUME NEW p \in Requests, At(p, "comment") PROVE Event(p).repo \in Repos
    BY <2>1, EventSent DEF WorkInv, At
  <2> QED BY <2>1
<1> HIDE DEF x, y
<1>3. CASE req' = [req EXCEPT ![q] = y] /\ crowd' = crowd
  <2>1. req'[q] = y /\ \A p \in Requests : p # q => req'[p] = req[p]
    BY <1>1, <1>3
  <2> QED BY <1>0, <1>2, <1>3, <1>m, <1>e, <2>1, CommentFrame DEF At, Event
<1>4. CASE /\ req' = [req EXCEPT ![q] = x]
           /\ crowd' = IF FindComment(r) = 0 /\ n > crowd[r] THEN [crowd EXCEPT ![r] = n] ELSE crowd
  <2>1. req'[q] = x /\ \A p \in Requests : p # q => req'[p] = req[p]
    BY <1>1, <1>4
  <2>2. Event(q)' = Event(q) /\ \A p \in Requests : p # q => Event(p)' = Event(p) /\ (At(p, "comment")' <=> At(p, "comment"))
    BY <1>0, <1>2, <2>1 DEF Event, At
  <2>3. /\ \A z \in Repos : Posting(z)' = IF z = r /\ FindComment(r) = 0 THEN Posting(z) \cup {q} ELSE Posting(z)
        /\ \A z \in Repos : q \notin Posting(z)
    BY <1>r, <1>0, <1>2, <2>1, <2>2 DEF Posting, At
  <2>4. FindComment(r) # 0 => FindComment(r) \in Listed(r)
    BY <1>1, CommentSets
  <2>5. ASSUME NEW p \in Requests, At(p, "comment")', req'[p].found # 0
        PROVE  req'[p].found \in Listed(Event(p).repo)'
    <3>1. CASE p = q
      BY <1>r, <1>2, <1>m, <2>1, <2>2, <2>4, <2>5, <3>1
    <3>2. CASE p # q
      BY <1>m, <2>1, <2>2, <2>5, <3>2 DEF CommentInv
    <3> QED BY <3>1, <3>2
  <2>6. ASSUME NEW z \in Repos PROVE PostsBounded(z)'
    <3>0. PostsBounded(z) /\ crowd[z] \in Nat
      BY <1>1 DEF CommentInv
    <3>1. CASE z # r \/ FindComment(r) # 0
      <4>1. Posting(z)' = Posting(z) /\ crowd'[z] = crowd[z]
        BY <1>1, <1>4, <2>3, <3>1
      <4> QED BY <1>m, <3>0, <4>1 DEF PostsBounded
    <3>2. CASE z = r /\ FindComment(r) = 0
      <4>1. Listed(r)' = {}
        BY <1>1, <1>m, <3>2, CommentSets
      <4>2. IsFiniteSet(Posting(r)) /\ Cardinality(Posting(r)) \in Nat /\ q \notin Posting(r)
        BY <1>1, <2>3, CommentSets
      <4>3. Posting(r)' = Posting(r) \cup {q}
        BY <1>1, <2>3, <3>2
      <4>4. Cardinality(Posting(r)') = n
        BY <4>2, <4>3, FS_AddElement
      <4>5. n <= crowd'[r]
        BY <1>1, <1>4, <3>2, <4>2
      <4> QED BY <3>2, <4>1, <4>4, <4>5 DEF PostsBounded
    <3> QED BY <3>1, <3>2
  <2> QED BY <2>5, <2>6 DEF CommentInv
<1> QED BY <1>0, <1>3, <1>4

\* The write edits the comment that was found, or posts one.
LEMMA CommentWrite ==
  ASSUME TypeOK, TypeOK', WorkInv, CommentInv, NEW q \in Requests, WriteComment(q)
  PROVE  CommentInv'
<1>r. PICK r \in Repos : r = Event(q).repo
  BY EventSent DEF WorkInv, WriteComment, At
<1> DEFINE old == comments[r]
           k == req[q].found
           sha == Event(q).sha
           new == IF k # 0 THEN [old EXCEPT ![k] = sha] ELSE Append(old, sha)
           y == [req[q] EXCEPT !.pc = "check"]
<1>0. /\ RequestInv(q) /\ At(q, "comment") /\ UNCHANGED <<events, crowd>>
      /\ (comments' = comments \/ comments' = [comments EXCEPT ![r] = new])
      /\ req' = [req EXCEPT ![q] = y]
  BY <1>r DEF WriteComment, Goto, rest, WorkInv
<1>1. /\ req[q] \in Req /\ sha \in Commits /\ req \in [Requests -> Req]
      /\ comments \in [Repos -> Seq(Commits \cup {None})] /\ sha # None
  <2>1. req[q] \in Req /\ sha \in Commits
    BY <1>0, EventSent DEF At
  <2>2. sha \in Repos \X Nat
    BY <2>1, LimitAssumption DEF Commits
  <2> QED BY <2>1, <2>2, NoneAssumption DEF TypeOK, Req
<1>2. y.pc = "check"
  BY <1>1 DEF Req
<1> HIDE DEF y
<1>3. req'[q] = y /\ \A p \in Requests : p # q => req'[p] = req[p]
  BY <1>0, <1>1
<1>4. /\ ~ At(q, "comment")'
      /\ \A p \in Requests : p # q => Event(p)' = Event(p) /\ (At(p, "comment")' <=> At(p, "comment"))
  BY <1>0, <1>2, <1>3 DEF Event, At
<1>5. \A z \in Repos : Posting(z)' = Posting(z) \ {q}
  BY <1>2, <1>3, <1>4 DEF Posting
<1>6. (k = 0 => q \in Posting(r)) /\ \A z \in Repos : z # r => q \notin Posting(z)
  BY <1>r, <1>0 DEF Posting
<1>e. \A p \in Requests : At(p, "comment") => Event(p).repo \in Repos
  <2>1. ASSUME NEW p \in Requests, At(p, "comment") PROVE Event(p).repo \in Repos
    BY <2>1, EventSent DEF WorkInv, At
  <2> QED BY <2>1
<1>7. ASSUME \A z \in Repos : Marked(z)' = Marked(z) PROVE CommentInv'
  BY <1>0, <1>3, <1>4, <1>7, <1>e, CommentFrame DEF At
<1>8. CASE comments' = comments
  <2>1. \A z \in Repos : Marked(z)' = Marked(z)
    BY <1>8 DEF Marked
  <2> QED BY <1>7, <2>1
<1>9. CASE comments' = [comments EXCEPT ![r] = new]
  <2>1. comments'[r] = new /\ \A z \in Repos : z # r => comments'[z] = comments[z]
    BY <1>1, <1>9
  <2>2. \A z \in Repos : z # r => Marked(z)' = Marked(z) /\ Listed(z)' = Listed(z)
    BY <2>1 DEF Marked, Listed
  <2>3. old \in Seq(Commits \cup {None}) /\ Len(old) \in Nat /\ k \in Nat
        /\ Marked(r) = {i \in 1 .. Len(old) : old[i] # None}
    BY <1>1, CommentSets DEF Req
  <2>4. CASE k # 0
    <3>1. k \in Marked(r)
      BY <1>r, <1>0, <2>4 DEF CommentInv, Listed
    <3>2. DOMAIN new = 1 .. Len(old) /\ \A i \in 1 .. Len(old) : new[i] = IF i = k THEN sha ELSE old[i]
      BY <2>3, <2>4
    <3>3. Marked(r)' = Marked(r)
      BY <1>1, <2>1, <2>3, <3>1, <3>2 DEF Marked
    <3> QED BY <1>7, <2>2, <3>3
  <2>5. CASE k = 0
    <3> DEFINE n == Len(old) + 1
    <3>1. DOMAIN new = 1 .. n /\ new[n] = sha /\ \A i \in 1 .. Len(old) : new[i] = old[i]
      BY <1>1, <2>3, <2>5
    <3>2. Marked(r)' = Marked(r) \cup {n} /\ n \notin Marked(r) /\ \A i \in Marked(r) : i < n
      BY <1>1, <2>1, <2>3, <3>1 DEF Marked
    <3> HIDE DEF new
    <3>3. n \in Nat
      BY <2>3
    <3> HIDE DEF n
    <3>4. Listed(r) \subseteq Listed(r)'
      BY <3>2 DEF Listed
    <3>5. ASSUME NEW p \in Requests, At(p, "comment")', req'[p].found # 0
          PROVE  req'[p].found \in Listed(Event(p).repo)'
      <4>1. p # q /\ At(p, "comment") /\ req'[p] = req[p] /\ Event(p)' = Event(p) /\ Event(p).repo \in Repos
        BY <1>3, <1>4, <1>e, <3>5
      <4>2. req[p].found \in Listed(Event(p).repo)
        BY <3>5, <4>1 DEF CommentInv
      <4> QED BY <2>2, <3>4, <4>1, <4>2
    <3>6. ASSUME NEW z \in Repos PROVE PostsBounded(z)'
      <4>0. PostsBounded(z) /\ crowd'[z] = crowd[z] /\ crowd[z] \in Nat
        BY <1>0 DEF CommentInv, TypeOK
      <4>1. CASE z # r
        <5>1. Posting(z)' = Posting(z)
          BY <1>5, <1>6, <4>1
        <5> QED BY <2>2, <4>0, <4>1, <5>1 DEF PostsBounded
      <4>2. CASE z = r
        <5>1. /\ IsFiniteSet(Marked(r)) /\ Cardinality(Marked(r)) \in Nat
              /\ IsFiniteSet(Posting(r)) /\ Cardinality(Posting(r)) \in Nat
          BY <1>1, CommentSets
        <5>2. Posting(r)' = Posting(r) \ {q} /\ q \in Posting(r)
          BY <1>1, <1>5, <1>6, <2>5
        <5>3. Cardinality(Posting(r)') = Cardinality(Posting(r)) - 1
          BY <5>1, <5>2, FS_RemoveElement
        <5>4. Cardinality(Marked(r)') = Cardinality(Marked(r)) + 1
          BY <3>2, <5>1, FS_AddElement
        <5>5. Listed(r)' # {} => Listed(r) # {} \/ Cardinality(Marked(r)) = 0
          <6>1. ASSUME Listed(r)' # {}, Listed(r) = {} PROVE Marked(r) = {}
            <7>1. PICK i \in Marked(r)' : i <= PageSize
              BY <6>1 DEF Listed
            <7>2. i \notin Marked(r)
              BY <6>1, <7>1 DEF Listed
            <7>3. i = n
              BY <3>2, <7>1, <7>2
            <7>4. \A j \in Marked(r) : j \in Nat /\ j < n
              BY <2>3, <3>2
            <7>5. \A j \in Marked(r) : j \in Listed(r)
              BY <3>3, <7>1, <7>3, <7>4, LimitAssumption DEF Listed
            <7> QED BY <6>1, <7>5
          <6> QED BY <6>1, FS_EmptySet
        <5> QED BY <4>0, <4>2, <5>1, <5>3, <5>4, <5>5 DEF PostsBounded
      <4> QED BY <4>1, <4>2
    <3> QED BY <3>5, <3>6 DEF CommentInv
  <2> QED BY <2>4, <2>5
<1> QED BY <1>0, <1>8, <1>9

\* Every step keeps the comments of a pull request within the crowd that posted them.
LEMMA CommentStep == TypeOK /\ TypeOK' /\ WorkInv /\ Placed /\ CommentInv /\ [Next]_vars => CommentInv'
<1> SUFFICES ASSUME TypeOK, TypeOK', WorkInv, Placed, CommentInv, [Next]_vars PROVE CommentInv'
  OBVIOUS
<1>e. \A p \in Requests : At(p, "comment") => Event(p).repo \in Repos
  <2>1. ASSUME NEW p \in Requests, At(p, "comment") PROVE Event(p).repo \in Repos
    BY <2>1, EventSent DEF WorkInv, At
  <2> QED BY <2>1
<1>m. ASSUME comments' = comments PROVE \A r \in Repos : Marked(r)' = Marked(r)
  BY <1>m DEF Marked
<1>1. CASE GitHubEvent
  <2>1. GitHubSent /\ req' = req /\ crowd' = crowd /\ Spoken
    BY <1>1, GitHubSends DEF WorkInv, GitHubSent
  <2>2. \A d \in 1 .. Len(events) : events'[d] = events[d]
    <3>1. PICK e \in Events : events' = Append(events, e)
      BY <2>1 DEF GitHubSent
    <3> QED BY <3>1, EventsKept
  <2>3. \A p \in Requests : At(p, "comment") => Event(p)' = Event(p)
    BY <2>1, <2>2 DEF WorkInv, RequestInv, At, Event
  <2>4. ASSUME NEW r \in Repos PROVE Marked(r)' = Marked(r)
    <3>1. comments[r] \in Seq(Commits \cup {None}) /\ comments'[r] \in {comments[r], Append(comments[r], None)}
      BY <2>1, CommentSets DEF Spoken
    <3> QED BY <3>1 DEF Marked
  <2> QED BY <1>e, <2>1, <2>3, <2>4, CommentFrame DEF At
<1>2. ASSUME NEW q \in Requests, Step(q) PROVE CommentInv'
  <2>1. CASE FindStep(q)
    BY <2>1, CommentFind
  <2>2. CASE WriteComment(q)
    BY <2>2, CommentWrite
  <2>3. CASE ~ FindStep(q) /\ ~ WriteComment(q)
    <3>1. ~ At(q, "find") /\ UNCHANGED <<comments, crowd>>
      <4> USE DEF posted, At
      <4>1. CASE onInstallation(q) \/ onInstallationRepos(q) \/ onRepository(q) \/ UpsertNext(q) \/ OnPush(q)
        BY <4>1 DEF onInstallation, onInstallationRepos, onRepository, UpsertNext, OnPush
      <4>2. CASE Ignored(q) \/ dispatch(q) \/ ResolveRepo(q) \/ ResolveInstall(q) \/ RecordSuppression(q)
        BY <4>2 DEF Ignored, dispatch, ResolveRepo, ResolveInstall, RecordSuppression
      <4>3. CASE IsSuppressed(q) \/ PRDiff(q) \/ UpsertPRAnalysis(q) \/ CreateCheckRun(q) \/ Fails(q)
        BY <4>3 DEF IsSuppressed, PRDiff, UpsertPRAnalysis, CreateCheckRun, Fails, Failing
      <4> QED BY <1>2, <2>3, <4>1, <4>2, <4>3 DEF Step
    <3>2. RequestInv(q) /\ events' = events /\ ~ At(q, "idle")
      BY <1>2, StepMoves DEF WorkInv
    <3>3. PICK x \in Req : Moves(q, x) /\ req' = [req EXCEPT ![q] = x]
      BY <1>2, <3>2, StepMoves
    <3>4. req'[q] = x /\ \A p \in Requests : p # q => req'[p] = req[p]
      BY <3>3, OneRequest DEF TypeOK, Req
    <3>5. x.pc # "comment"
      BY <3>1, <3>2, <3>3, MoveFields
    <3> QED BY <1>e, <1>m, <3>1, <3>2, <3>4, <3>5, CommentFrame DEF At, Event
  <2> QED BY <2>1, <2>2, <2>3
<1>3. ASSUME NEW q \in Requests, NEW d \in Ids, Deliver(q, d) PROVE CommentInv'
  <2>1. UNCHANGED <<comments, crowd, events>>
        /\ (req' = req \/ req' = [req EXCEPT ![q] = [req[q] EXCEPT !.pc = "dispatch", !.job = d]])
    BY <1>3, DeliverFacts DEF posted
  <2>2. \A p \in Requests : req'[p].pc = "comment" => req'[p] = req[p]
    BY <2>1 DEF TypeOK
  <2> QED BY <1>e, <1>m, <2>1, <2>2, CommentFrame DEF At, Event
<1>4. CASE Crash
  <2>1. UNCHANGED <<comments, crowd>> /\ \A p \in Requests : req'[p].pc = "idle"
    BY <1>4 DEF Crash, posted, Idle
  <2> QED BY <1>m, <2>1, CommentFrame
<1>5. ASSUME UNCHANGED <<comments, crowd, events, req>> PROVE CommentInv'
  BY <1>5, <1>e, <1>m, CommentFrame DEF At, Event
<1>6. ASSUME Settings PROVE UNCHANGED <<comments, crowd, events, req>>
  BY <1>6 DEF Settings, githubSetupCallback, setGitHubRepoConnected, posted
<1>7. ASSUME UNCHANGED vars PROVE UNCHANGED <<comments, crowd, events, req>>
  BY <1>7 DEF vars, posted
<1> QED BY <1>1, <1>2, <1>3, <1>4, <1>5, <1>6, <1>7 DEF Next, Requesting

\* At the start nobody posts and no comment is ours.
LEMMA CommentInit == Init => CommentInv
<1> SUFFICES ASSUME Init PROVE CommentInv
  OBVIOUS
<1>1. \A r \in Repos : Marked(r) = {} /\ Listed(r) = {} /\ Posting(r) = {} /\ crowd[r] = 0
  BY DEF Init, Marked, Listed, Posting, At, Idle
<1>2. \A r \in Repos : PostsBounded(r)
  BY <1>1, FS_EmptySet DEF PostsBounded
<1> QED BY <1>2 DEF Init, CommentInv, At, Idle

-----------------------------------------------------------------------------
(* The theorems.                                                            *)

\* The inductive invariant of the webhook server, GitHub and the settings endpoints.
THEOREM GithubInvariance == Spec => []IInv
<1>1. Init => IInv
  <2>1. Init => CommentInv
    BY CommentInit
  <2> QED BY <2>1, TypeInit, WorkInit, TenantInit DEF IInv
<1>2. IInv /\ [Next]_vars => IInv'
  <2> SUFFICES ASSUME IInv, [Next]_vars PROVE IInv'
    OBVIOUS
  <2>1. TypeOK /\ WorkInv /\ SeenCounted /\ TenantInv /\ CommentInv /\ Placed
    BY DEF IInv, TenantInv
  <2>2. TypeOK'
    BY <2>1, TypeStep
  <2> QED BY <2>1, <2>2, WorkStep, SeenStep, TenantStep, CommentStep DEF IInv
<1> QED BY <1>1, <1>2, PTL DEF Spec

\* Every variable of the webhook server keeps its type, the history of heads and
\* deliveries within its bounds.
THEOREM GithubTypeCorrect == Spec => []TypeOK
<1>1. IInv => TypeOK
  BY DEF IInv
<1> QED BY <1>1, GithubInvariance, PTL

\* ServeWebhook dispatches an event at most once, however often it is delivered and
\* wherever the bot crashes.
THEOREM EventsDispatchedOnce == Spec => []DispatchedOnce
<1>1. IInv => DispatchedOnce
  BY DEF IInv, SeenCounted, DispatchedOnce
<1> QED BY <1>1, GithubInvariance, PTL

\* Analyses are reported only to customers that claimed an installation of the repository.
THEOREM AnalysesOfTenant == Spec => []ReportedForTenant
<1>1. IInv => ReportedForTenant
  <2> SUFFICES ASSUME IInv, NEW c \in Customers, NEW k \in listPRAnalysis(c)
               PROVE  \E i \in Installs : <<c, i>> \in claims /\ <<k[2][1], i>> \in places
    BY DEF ReportedForTenant
  <2>1. k \in Names \X Commits /\ analysis[k] # None /\ analysis[k].customer = c
    BY DEF IInv, TypeOK, listPRAnalysis
  <2> QED BY <2>1 DEF IInv, TenantInv, AnalysesBacked, Backed
<1> QED BY <1>1, GithubInvariance, PTL

\* While the page FindComment reads shows a marked comment, re-runs add none, and a race
\* adds no more than its participants.
THEOREM CommentsOfCrowd == Spec => []CommentsBounded
<1>1. IInv => CommentsBounded
  <2> SUFFICES ASSUME IInv, NEW r \in Repos, Listed(r) # {} PROVE Cardinality(Marked(r)) <= crowd[r]
    BY DEF CommentsBounded
  <2>1. Cardinality(Marked(r)) \in Nat /\ Cardinality(Posting(r)) \in Nat /\ crowd[r] \in Nat
    BY CommentSets DEF IInv, TypeOK
  <2>2. Cardinality(Marked(r)) + Cardinality(Posting(r)) <= crowd[r]
    BY DEF IInv, CommentInv, PostsBounded
  <2> QED BY <2>1, <2>2
<1> QED BY <1>1, GithubInvariance, PTL

=============================================================================
