------------------------------- MODULE GithubApp -------------------------------
(***************************************************************************)
(* The GitHub App: the webhook endpoint of internal/githubapp with its      *)
(* store, the settings endpoints of internal/api/github_app.go and the push *)
(* hook of cmd/lineage-bot.  GitHub emits events, delivers each one at      *)
(* least once and in any order, and may run several deliveries at a time.   *)
(* Every database or GitHub call is a step that may fail; the bot may       *)
(* crash between two of them.  A repository has one pull request; what a    *)
(* diff contains is abstracted to the commit it was taken of, and a comment *)
(* on the pull request to the commit it reports, None for one that is not   *)
(* ours.                                                                    *)
(***************************************************************************)
EXTENDS Naturals, Sequences, FiniteSets

CONSTANTS
  Repos,         \* immutable repository ids
  Installs,      \* installation ids
  Names,         \* repository full names
  Customers,
  Requests,      \* goroutines of the webhook server
  FirstName,     \* the name each repository has at first
  FirstInstall,  \* the installation each repository is in at first
  FirstClaim,    \* the customer each installation is bound to at first; None: not installed
  PushCustomer,  \* the placeholder tenant of pushEventCustomerID
  Unlabelled,    \* the events, by number, that arrive without an X-GitHub-Delivery header
  PageSize,      \* comments of one page of GitHub's list: 100
  MaxEvents,     \* bound: events GitHub emits
  MaxTries,      \* bound: deliveries of one event
  MaxAdmin,      \* bound: calls of the settings endpoints
  MaxCrashes,    \* bound: crashes of the bot
  None

ASSUME FirstAssumption == FirstName \in [Repos -> Names] /\ FirstInstall \in [Repos -> Installs]
                         /\ FirstClaim \in [Installs -> Customers \cup {None}]
ASSUME NoneAssumption == None \notin Customers \cup Installs \cup Repos \cup (Repos \X Nat)
ASSUME RequestsAssumption == IsFiniteSet(Requests)
ASSUME LimitAssumption ==
  {PageSize, MaxEvents, MaxTries, MaxAdmin, MaxCrashes} \subseteq Nat

VARIABLES
  name, inst, head, installed,    \* GitHub: names, installations, pull request heads, installed apps
  comments, checks,               \* GitHub: comments of each pull request, oldest first, check runs posted
  events, tries,                  \* the events emitted, and how often each was delivered
  instRow, repoRow,               \* tables github_installation, github_repo
  seen,                           \* table github_webhook_delivery
  analysis,                       \* table pr_analysis, unique on name and commit
  suppressed,                     \* table pr_suppression
  boards,                         \* table dashboard: number of rows
  req,                            \* each request: its step, its event and its local variables
  runs,                           \* history: how often each event was dispatched
  claims, places,                 \* history: setup callbacks, installations of each repository
  crowd,                          \* history: the most requests about to post on each pull request at a time
  admin, crashes

github == <<name, inst, head, installed>>
posted == <<comments, checks, crowd>>
tables == <<instRow, repoRow, suppressed, boards>>
bounded == <<claims, places, admin, crashes>>
vars == <<github, posted, events, tries, tables, seen, analysis, req, runs, bounded>>

Commits == Repos \X (0 .. MaxEvents)
Ids == 1 .. MaxEvents
Kinds == {"opened", "comment", "created", "deleted", "suspend", "unsuspend",
          "added", "removed", "renamed", "transferred", "push", "closed"}
Events == [kind : Kinds, repo : Repos, inst : Installs, name : Names, sha : Commits,
           listed : SUBSET (Repos \X Names)]
Steps == {"idle", "dispatch", "repoRow", "instRow", "suppressed", "diff", "persist",
          "find", "comment", "check", "record", "repos", "boards"}
Idle == [pc |-> "idle", job |-> None, cid |-> None, diff |-> None, found |-> 0, todo |-> {}]
Event(q) == events[req[q].job]

TypeOK ==
  /\ name \in [Repos -> Names] /\ inst \in [Repos -> Installs] /\ installed \subseteq Installs
  /\ head \in [Repos -> 0 .. MaxEvents]
  /\ comments \in [Repos -> Seq(Commits \cup {None})] /\ checks \subseteq Commits
  /\ crowd \in [Repos -> Nat]
  /\ events \in Seq(Events) /\ Len(events) <= MaxEvents
  /\ tries \in [Ids -> 0 .. MaxTries]
  /\ instRow \in [Installs -> {None} \cup [customer : Customers \cup {None}, suspended : BOOLEAN]]
  /\ repoRow \in [Repos -> {None} \cup
        [inst : Installs, name : Names, customer : Customers \cup {None}, connected : BOOLEAN]]
  /\ seen \subseteq Ids
  /\ analysis \in [Names \X Commits -> {None} \cup [customer : Customers, diff : Commits]]
  /\ suppressed \subseteq Customers \X Names /\ boards \in Nat
  /\ req \in [Requests -> [pc : Steps, job : Ids \cup {None}, cid : Customers \cup {None},
                           diff : Commits \cup {None}, found : Nat, todo : SUBSET (Repos \X Names)]]
  /\ runs \in [Ids -> Nat]
  /\ claims \subseteq Customers \X Installs /\ places \subseteq Repos \X Installs
  /\ admin \in 0 .. MaxAdmin /\ crashes \in 0 .. MaxCrashes

Init ==
  /\ name = FirstName /\ inst = FirstInstall /\ installed = {i \in Installs : FirstClaim[i] # None} /\ head = [r \in Repos |-> 0]
  /\ \E others \in 0 .. PageSize : comments = [r \in Repos |-> [k \in 1 .. others |-> None]]
  /\ checks = {} /\ crowd = [r \in Repos |-> 0]
  /\ events = <<>> /\ tries = [d \in Ids |-> 0]
  /\ instRow = [i \in Installs |-> IF FirstClaim[i] = None THEN None
                                   ELSE [customer |-> FirstClaim[i], suspended |-> FALSE]]
  /\ repoRow = [r \in Repos |-> IF instRow[inst[r]] = None THEN None ELSE
       [inst |-> inst[r], name |-> name[r], customer |-> None, connected |-> FALSE]]
  /\ seen = {} /\ suppressed = {} /\ boards = 0
  /\ analysis = [k \in Names \X Commits |-> None]
  /\ req = [q \in Requests |-> Idle]
  /\ runs = [d \in Ids |-> 0]
  /\ claims = {<<FirstClaim[i], i>> : i \in installed} /\ places = {<<r, FirstInstall[r]>> : r \in Repos}
  /\ admin = 0 /\ crashes = 0

-----------------------------------------------------------------------------
(* GitHub: what the payloads of the subscribed events say *)

Emit(kind, r, i, n) ==
  /\ Len(events) < MaxEvents
  /\ events' = Append(events, [kind |-> kind, repo |-> r, inst |-> i, name |-> n, sha |-> <<r, head'[r]>>,
        listed |-> IF kind = "created" THEN {<<x, name[x]>> : x \in {y \in Repos : inst[y] = i}} ELSE {<<r, n>>}])
  /\ UNCHANGED <<checks, crowd, tries, tables, seen, analysis, req, runs, claims, admin, crashes>>

PushCommit(r) ==      \* a pull request is opened or gets a commit
  /\ inst[r] \in installed
  /\ head' = [head EXCEPT ![r] = @ + 1]
  /\ Emit("opened", r, inst[r], name[r])
  /\ UNCHANGED <<name, inst, installed, places, comments>>

Speak(r, kind) ==     \* a comment with /uv suppress, a push of dashboards, an event without effect
  /\ inst[r] \in installed
  /\ comments' = IF kind = "comment" THEN [comments EXCEPT ![r] = Append(@, None)] ELSE comments
  /\ UNCHANGED <<github, places>>
  /\ Emit(kind, r, inst[r], name[r])

Rename(r, n) ==
  /\ inst[r] \in installed /\ n \notin {name[x] : x \in Repos}
  /\ name' = [name EXCEPT ![r] = n] /\ UNCHANGED <<inst, head, installed, places, comments>>
  /\ Emit("renamed", r, inst[r], n)

Transfer(r, i) ==
  /\ i \in installed /\ i # inst[r]
  /\ inst' = [inst EXCEPT ![r] = i] /\ places' = places \cup {<<r, i>>}
  /\ UNCHANGED <<name, head, installed, comments>>
  /\ Emit("transferred", r, i, name[r])

Install(r, i) ==
  /\ i \notin installed /\ installed' = installed \cup {i}
  /\ UNCHANGED <<name, inst, head, places, comments>>
  /\ Emit("created", r, i, name[r])

Uninstall(r, i) ==
  /\ i \in installed /\ installed' = installed \ {i}
  /\ UNCHANGED <<name, inst, head, places, comments>>
  /\ Emit("deleted", r, i, name[r])

Administer(r, i, kind) ==
  /\ i \in installed /\ (kind \in {"added", "removed"} => inst[r] = i)
  /\ UNCHANGED <<github, places, comments>>
  /\ Emit(kind, r, i, name[r])

GitHubEvent ==
  \E r \in Repos :
    \/ PushCommit(r)
    \/ \E k \in {"comment", "push", "closed"} : Speak(r, k)
    \/ \E n \in Names : Rename(r, n)
    \/ \E i \in Installs : \/ Transfer(r, i)
                           \/ Install(r, i)
                           \/ Uninstall(r, i)
                           \/ \E k \in {"suspend", "unsuspend", "added", "removed"} : Administer(r, i, k)

-----------------------------------------------------------------------------
(* ServeWebhook *)

\* mutant: the number of rows inserted is not looked at
WebhookSeenAgain(d) == [first |-> TRUE, seen |-> seen \cup {d}]

\* INSERT ... ON CONFLICT DO NOTHING: one statement, so two deliveries of one
\* event cannot both be the first.  Without an id there is nothing to insert.
WebhookSeen(d) ==
  IF d \in Unlabelled THEN [first |-> TRUE, seen |-> seen]
  ELSE [first |-> d \notin seen, seen |-> seen \cup {d}]

At(q, step) == req[q].pc = step
Goto(q, step) == req' = [req EXCEPT ![q].pc = step] /\ UNCHANGED runs

Answer(q) ==          \* dispatch returned; its error is only logged, the answer is 200
  /\ req' = [req EXCEPT ![q] = Idle]
  /\ UNCHANGED runs

Deliver(q, d) ==
  /\ At(q, "idle") /\ d <= Len(events) /\ tries[d] < MaxTries
  /\ tries' = [tries EXCEPT ![d] = @ + 1]
  /\ \/ d \notin Unlabelled /\ UNCHANGED <<seen, req, runs>>     \* the database fails: 500
     \/ /\ seen' = WebhookSeen(d).seen
        /\ IF WebhookSeen(d).first
           THEN /\ req' = [req EXCEPT ![q].pc = "dispatch", ![q].job = d]
                /\ runs' = [runs EXCEPT ![d] = @ + 1]
           ELSE UNCHANGED <<req, runs>>                 \* 200 at once
  /\ UNCHANGED <<github, posted, events, tables, analysis, bounded>>

rest == <<github, events, tries, seen, bounded>>   \* what no step of a request changes

\* A step of dispatch that fails: the error is returned, logged and answered with 200.
Failing == {"repoRow", "instRow", "diff", "persist", "record", "repos"}
Fails(q) ==
  /\ req[q].pc \in Failing /\ Answer(q)
  /\ UNCHANGED <<rest, posted, tables, analysis>>

-----------------------------------------------------------------------------
(* The handlers of dispatch *)

onInstallation(q) ==
  LET e == Event(q)
      row == instRow[e.inst]
  IN /\ At(q, "dispatch") /\ e.kind \in {"created", "deleted", "suspend", "unsuspend"}
     /\ \/ Answer(q) /\ UNCHANGED <<instRow, repoRow>>
        \/ /\ e.kind = "created"      \* the row keeps its customer, then UpsertRepo for each repository
           /\ instRow' = [instRow EXCEPT ![e.inst] =
                [customer |-> IF row = None THEN None ELSE row.customer, suspended |-> FALSE]]
           /\ req' = [req EXCEPT ![q].pc = "repos", ![q].todo = e.listed]
           /\ UNCHANGED <<repoRow, runs>>
        \/ /\ e.kind = "deleted"      \* cascades to the installation's repositories
           /\ instRow' = [instRow EXCEPT ![e.inst] = None]
           /\ repoRow' = [r \in Repos |->
                IF repoRow[r] # None /\ repoRow[r].inst = e.inst THEN None ELSE repoRow[r]]
           /\ Answer(q)
        \/ /\ e.kind \in {"suspend", "unsuspend"}
           /\ instRow' = IF row = None THEN instRow
                         ELSE [instRow EXCEPT ![e.inst].suspended = (e.kind = "suspend")]
           /\ Answer(q) /\ UNCHANGED repoRow
     /\ UNCHANGED <<rest, posted, suppressed, boards, analysis>>

\* mutant: connected has no default
UpsertRepoNoDefault(r, i, n) ==
  [repoRow EXCEPT ![r] =
     [inst |-> i, name |-> n,
      customer |-> IF repoRow[r] = None THEN None ELSE repoRow[r].customer,
      connected |-> IF repoRow[r] = None THEN None ELSE repoRow[r].connected]]

\* INSERT ... ON CONFLICT (repo_id) DO UPDATE of the name and the installation.
UpsertRepo(r, i, n) ==
  [repoRow EXCEPT ![r] =
     [inst |-> i, name |-> n,
      customer |-> IF repoRow[r] = None THEN None ELSE repoRow[r].customer,
      connected |-> IF repoRow[r] = None THEN FALSE ELSE repoRow[r].connected]]

onInstallationRepos(q) ==
  LET e == Event(q)
  IN /\ At(q, "dispatch") /\ e.kind \in {"added", "removed"}
     /\ \/ Answer(q) /\ UNCHANGED repoRow                 \* RemoveRepo fails
        \/ /\ e.kind = "added"
           /\ req' = [req EXCEPT ![q].pc = "repos", ![q].todo = e.listed] /\ UNCHANGED <<repoRow, runs>>
        \/ /\ e.kind = "removed"
           /\ repoRow' = [repoRow EXCEPT ![e.repo] = None] /\ Answer(q)
     /\ UNCHANGED <<rest, posted, instRow, suppressed, boards, analysis>>

onRepository(q) ==    \* keyed on the immutable id: refreshes the name and the installation
  /\ At(q, "dispatch") /\ Event(q).kind \in {"renamed", "transferred"}
  /\ req' = [req EXCEPT ![q].pc = "repos", ![q].todo = Event(q).listed]
  /\ UNCHANGED <<rest, runs, posted, tables, analysis>>

\* One UpsertRepo of a loop: the foreign key refuses an unknown installation.
UpsertNext(q) ==
  LET i == Event(q).inst
  IN /\ At(q, "repos")
     /\ IF req[q].todo = {} THEN Answer(q) /\ UNCHANGED repoRow
        ELSE IF instRow[i] = None THEN Answer(q) /\ UNCHANGED repoRow
        ELSE \E x \in req[q].todo :
               /\ repoRow' = UpsertRepo(x[1], i, x[2])
               /\ req' = [req EXCEPT ![q].todo = @ \ {x}] /\ UNCHANGED runs
     /\ UNCHANGED <<rest, posted, instRow, suppressed, boards, analysis>>

\* OnPush: each path is fetched, parsed and inserted, or skipped; the row
\* refers to the placeholder customer, so it exists only if that customer does.
OnPush(q) ==
  /\ At(q, "dispatch") /\ Event(q).kind = "push"
  /\ \E applied \in BOOLEAN :
       boards' = IF applied /\ PushCustomer \in Customers THEN boards + 1 ELSE boards
  /\ Answer(q)
  /\ UNCHANGED <<rest, posted, instRow, repoRow, suppressed, analysis>>

Ignored(q) ==         \* an action or an event no handler acts on
  /\ At(q, "dispatch") /\ Event(q).kind = "closed" /\ Answer(q)
  /\ UNCHANGED <<rest, posted, tables, analysis>>

dispatch(q) ==        \* onPullRequest and onIssueComment begin with ResolveCustomer
  /\ At(q, "dispatch") /\ Event(q).kind \in {"opened", "comment"} /\ Goto(q, "repoRow")
  /\ UNCHANGED <<rest, posted, tables, analysis>>

Resolved(q, c) ==
  /\ req' = [req EXCEPT ![q].cid = c, ![q].pc = IF Event(q).kind = "opened" THEN "suppressed" ELSE "record"]
  /\ UNCHANGED runs

\* ResolveCustomer: the override of a connected repository, else the customer
\* of the installation, else ErrNoCustomer, on which both handlers stop.
RepoOverride(q) ==
  LET row == repoRow[Event(q).repo]
  IN IF row # None /\ row.connected THEN row.customer ELSE None

InstallDefault(q) ==
  LET row == instRow[Event(q).inst] IN IF row # None THEN row.customer ELSE None

ResolveRepo(q) ==
  /\ At(q, "repoRow")
  /\ IF RepoOverride(q) # None THEN Resolved(q, RepoOverride(q)) ELSE Goto(q, "instRow")
  /\ UNCHANGED <<rest, posted, tables, analysis>>

ResolveInstall(q) ==
  /\ At(q, "instRow")
  /\ IF InstallDefault(q) # None THEN Resolved(q, InstallDefault(q)) ELSE Answer(q)
  /\ UNCHANGED <<rest, posted, tables, analysis>>

RecordSuppression(q) ==
  /\ At(q, "record")
  /\ suppressed' = suppressed \cup {<<req[q].cid, Event(q).name>>}
  /\ Answer(q)
  /\ UNCHANGED <<rest, posted, instRow, repoRow, boards, analysis>>

IsSuppressed(q) ==    \* fails open
  /\ At(q, "suppressed")
  /\ \/ <<req[q].cid, Event(q).name>> \in suppressed /\ Answer(q)
     \/ Goto(q, "diff")
  /\ UNCHANGED <<rest, posted, tables, analysis>>

PRDiff(q) ==          \* the diff of the pull request as it is now
  LET r == Event(q).repo
  IN /\ At(q, "diff")
     /\ req' = [req EXCEPT ![q].pc = "persist", ![q].diff = <<r, head[r]>>]
     /\ UNCHANGED <<rest, runs, posted, tables, analysis>>

UpsertPRAnalysis(q) ==
  LET e == Event(q)
  IN /\ At(q, "persist")
     /\ analysis' = [analysis EXCEPT ![<<e.name, e.sha>>] = [customer |-> req[q].cid, diff |-> req[q].diff]]
     /\ Goto(q, "find")
     /\ UNCHANGED <<rest, posted, tables>>

\* mutant: the marker is not found
FindCommentNone(r) == 0

\* The marked comments, and those on the one page that FindComment asks for;
\* it returns the first of them, else 0.
Marked(r) == {k \in DOMAIN comments[r] : comments[r][k] # None}
Listed(r) == {k \in Marked(r) : k <= PageSize}
FindComment(r) == IF Listed(r) = {} THEN 0 ELSE CHOOSE k \in Listed(r) : \A j \in Listed(r) : k <= j

\* The requests that have found no comment and have not yet posted theirs.
Posting(r) == {q \in Requests : At(q, "comment") /\ Event(q).repo = r /\ req[q].found = 0}

FindStep(q) ==        \* first half of UpsertComment; its failure is logged
  LET r == Event(q).repo
  IN /\ At(q, "find")
     /\ \/ /\ req' = [req EXCEPT ![q].pc = "comment", ![q].found = FindComment(r)]
           /\ LET n == Cardinality(Posting(r)) + 1
              IN crowd' = IF FindComment(r) = 0 /\ n > crowd[r] THEN [crowd EXCEPT ![r] = n] ELSE crowd
           /\ UNCHANGED runs
        \/ Goto(q, "check") /\ UNCHANGED crowd
     /\ UNCHANGED <<rest, comments, checks, tables, analysis>>

WriteComment(q) ==    \* PATCH of the comment found, else POST, or a logged failure
  LET e == Event(q)
      k == req[q].found
  IN /\ At(q, "comment")
     /\ \/ comments' = [comments EXCEPT ![e.repo] = IF k # 0 THEN [@ EXCEPT ![k] = e.sha] ELSE Append(@, e.sha)]
        \/ UNCHANGED comments
     /\ Goto(q, "check")
     /\ UNCHANGED <<rest, checks, crowd, tables, analysis>>

CreateCheckRun(q) ==  \* its failure is logged
  /\ At(q, "check")
  /\ checks' \in {checks, checks \cup {Event(q).sha}}
  /\ Answer(q)
  /\ UNCHANGED <<rest, comments, crowd, tables, analysis>>

Step(q) ==
  \/ onInstallation(q) \/ onInstallationRepos(q) \/ onRepository(q) \/ UpsertNext(q) \/ OnPush(q)
  \/ Ignored(q) \/ dispatch(q) \/ ResolveRepo(q) \/ ResolveInstall(q) \/ RecordSuppression(q)
  \/ IsSuppressed(q) \/ PRDiff(q) \/ UpsertPRAnalysis(q) \/ FindStep(q) \/ WriteComment(q)
  \/ CreateCheckRun(q) \/ Fails(q)

Crash ==              \* the bot restarts; the rows in the database remain
  /\ crashes < MaxCrashes /\ \E q \in Requests : ~ At(q, "idle")
  /\ crashes' = crashes + 1
  /\ req' = [q \in Requests |-> Idle]
  /\ UNCHANGED <<github, posted, events, tries, tables, seen, analysis, runs, claims, places, admin>>

-----------------------------------------------------------------------------
(* The settings endpoints, each scoped to the caller's customer c *)

githubSetupCallback(c, i) ==
  /\ admin < MaxAdmin /\ admin' = admin + 1
  /\ instRow' = [instRow EXCEPT ![i] =
       [customer |-> c, suspended |-> IF instRow[i] = None THEN FALSE ELSE instRow[i].suspended]]
  /\ claims' = claims \cup {<<c, i>>}
  /\ UNCHANGED <<github, posted, events, tries, repoRow, suppressed, boards, seen, analysis, req,
                 runs, places, crashes>>

\* listGitHubInstallations, listGitHubRepos, listPRAnalysis and getPRAnalysis
listGitHubInstallations(c) == {i \in Installs : instRow[i] # None /\ instRow[i].customer = c}

\* mutant: the query is not scoped to the installations of the customer
listGitHubReposAll(c) == {r \in Repos : repoRow[r] # None}

listGitHubRepos(c) ==
  {r \in Repos : repoRow[r] # None /\ repoRow[r].inst \in listGitHubInstallations(c)}
listPRAnalysis(c) == {k \in DOMAIN analysis : analysis[k] # None /\ analysis[k].customer = c}

setGitHubRepoConnected(c, n, on) ==
  LET mine == {r \in listGitHubRepos(c) : repoRow[r].name = n}
  IN /\ admin < MaxAdmin /\ admin' = admin + 1
     /\ mine # {}                                     \* else 404
     /\ repoRow' = [r \in Repos |->
          IF r \in mine THEN [repoRow[r] EXCEPT !.connected = on, !.customer = c] ELSE repoRow[r]]
     /\ UNCHANGED <<github, posted, events, tries, instRow, suppressed, boards, seen, analysis, req,
                    runs, claims, places, crashes>>

Settings ==
  \E c \in Customers : \/ \E i \in Installs : githubSetupCallback(c, i)
                       \/ \E n \in Names, on \in BOOLEAN : setGitHubRepoConnected(c, n, on)

Requesting == \E q \in Requests : Step(q) \/ \E d \in Ids : Deliver(q, d)
Next == GitHubEvent \/ Requesting \/ Crash \/ Settings

Spec == Init /\ [][Next]_vars

-----------------------------------------------------------------------------
(* Properties *)

\* However often GitHub delivers an event under its id, and whatever overlaps or
\* crashes, ServeWebhook dispatches it at most once (store.go, WebhookSeen).
DispatchedOnce == \A d \in Ids \ Unlabelled : runs[d] <= 1

\* Fail-closed tenancy (app.go, ResolveCustomer): a customer's pull request
\* history holds only analyses of repositories that are or were in an
\* installation this customer claimed with the setup callback.
ReportedForTenant ==
  \A c \in Customers : \A k \in listPRAnalysis(c) :
    \E i \in Installs : <<c, i>> \in claims /\ <<k[2][1], i>> \in places

\* "find + edit our own comment on re-runs instead of appending" (report.go), as
\* far as client.go keeps it.  While a marked comment is on the page FindComment
\* reads, a pull request has no more of them than requests were ever between the
\* search and the post at one time: runs that follow each other add none, and a
\* race adds no more than its participants.  Where other comments fill the page
\* every run appends, which the premise leaves out.
CommentsBounded ==
  \A r \in Repos : Listed(r) # {} => Cardinality(Marked(r)) <= crowd[r]
=============================================================================
