------------------------------- MODULE Governance -------------------------------
(***************************************************************************)
(* Governance: query approvals, quarterly access reviews and the users the  *)
(* identity provider provisions over SCIM (internal/api/query_approvals.go, *)
(* internal/api/access_reviews.go, internal/scim; no binary mounts the      *)
(* router of internal/scim yet: it is modelled as it would be served).      *)
(***************************************************************************)
EXTENDS ApiRequests

CONSTANTS Approvals,   \* ids of query_approval rows
          Approvers, Periods, Emails, UserIds

Statuses == {"approved", "denied"}
Approval == [status : Statuses \cup {"pending"}, approver : Approvers \cup {None}]

ASSUME ApprovalAssumption == None \notin Approval     \* no row is not a row

VARIABLES
  approvals,   \* table query_approval; None: no row
  told,        \* history: the decisions that were answered 200
  reviews,     \* table access_review, unique on customer and period: None, "open" or "completed"
  decisions,   \* table access_review_decision: the actions, in the order of the inserts
  users,       \* table app_user, unique on customer and e-mail
  ids,         \* user ids given out
  reviewer     \* each handler that has read an open review and not yet recorded its decision

governanceVars == <<approvals, told, reviews, decisions, users, ids, reviewer>>

GovernanceTypeOK ==
  /\ approvals \in [Approvals -> {None} \cup Approval]
  /\ told \subseteq [id : Approvals, status : Statuses, approver : Approvers]
  /\ reviews \in [Customers \X Periods -> {None, "open", "completed"}]
  /\ decisions \in [Customers \X Periods -> Seq({"keep", "revoke"})]
  /\ users \subseteq [id : UserIds, customer : Customers, email : Emails]
  /\ ids \subseteq UserIds
  /\ reviewer \in [Handlers -> {None} \cup [review : Customers \X Periods, action : {"keep", "revoke"}]]

GovernanceInit ==
  /\ approvals = [a \in Approvals |-> None] /\ told = {}
  /\ reviews = [p \in Customers \X Periods |-> None] /\ decisions = [p \in Customers \X Periods |-> <<>>]
  /\ users = {} /\ ids = {}
  /\ reviewer = [h \in Handlers |-> None]

submitQueryApproval(a) ==
  /\ approvals[a] = None
  /\ \/ Serve("submitQueryApproval", 201, a) /\ approvals' = [approvals EXCEPT ![a] = [status |-> "pending", approver |-> None]]
     \/ Refuse("submitQueryApproval") /\ UNCHANGED approvals
  /\ UNCHANGED <<told, reviews, decisions, users, ids, reviewer>>

listQueryApprovals(status) ==
  /\ \/ Serve("listQueryApprovals", 200, {a \in Approvals : approvals[a] # None /\ (status # None => approvals[a].status = status)})
     \/ Refuse("listQueryApprovals")
  /\ UNCHANGED governanceVars

(* mutant: the update does not ask for status = 'pending' *)
UndecidedOrNot(a) == approvals[a] # None

(* the WHERE clause of the update *)
Undecided(a) == approvals[a] # None /\ approvals[a].status = "pending"

decideQueryApproval(a, status, approver) ==
  /\ \/ /\ Undecided(a)
        /\ Serve("decideQueryApproval", 200, status)
        /\ approvals' = [approvals EXCEPT ![a] = [status |-> status, approver |-> approver]]
        /\ told' = told \cup {[id |-> a, status |-> status, approver |-> approver]}
     \/ ~Undecided(a) /\ Serve("decideQueryApproval", 409, None) /\ UNCHANGED <<approvals, told>>
     \/ Refuse("decideQueryApproval") /\ UNCHANGED <<approvals, told>>
  /\ UNCHANGED <<reviews, decisions, users, ids, reviewer>>

Administrator(role) == requireRole(role, {"admin", "superadmin"})

openAccessReview(role, p) ==        \* a second review of the period breaks the unique key
  /\ \/ ~Administrator(role) /\ Serve("openAccessReview", 403, None) /\ UNCHANGED reviews
     \/ /\ Administrator(role) /\ reviews[p] = None
        /\ Serve("openAccessReview", 201, p) /\ reviews' = [reviews EXCEPT ![p] = "open"]
     \/ Administrator(role) /\ reviews[p] # None /\ Serve("openAccessReview", 500, None) /\ UNCHANGED reviews
     \/ Administrator(role) /\ Refuse("openAccessReview") /\ UNCHANGED reviews
  /\ UNCHANGED <<approvals, told, decisions, users, ids, reviewer>>

listAccessReviews(c) ==
  /\ \/ Serve("listAccessReviews", 200, {p \in Periods : reviews[c, p] # None})
     \/ Refuse("listAccessReviews")
  /\ UNCHANGED governanceVars

(* recordAccessReviewDecision: the status is read ... *)
CheckReview(h, role, p, action) ==
  /\ reviewer[h] = None
  /\ \/ ~Administrator(role) /\ Serve("recordAccessReviewDecision", 403, None) /\ UNCHANGED reviewer
     \/ /\ Administrator(role) /\ reviews[p] = "open" /\ Call /\ Works /\ Silent
        /\ reviewer' = [reviewer EXCEPT ![h] = [review |-> p, action |-> action]]
     \/ /\ Administrator(role) /\ reviews[p] # "open" /\ UNCHANGED reviewer
        /\ Serve("recordAccessReviewDecision", IF reviews[p] = None THEN 404 ELSE 409, None)
     \/ Administrator(role) /\ Call /\ Fails /\ Answer("recordAccessReviewDecision", 404, None) /\ UNCHANGED reviewer
  /\ UNCHANGED <<approvals, told, reviews, decisions, users, ids>>

(* ... and the decision inserted, the review closed in between or not *)
InsertDecision(h) ==
  /\ reviewer[h] # None
  /\ reviewer' = [reviewer EXCEPT ![h] = None]
  /\ \/ /\ Works /\ decisions' = [decisions EXCEPT ![reviewer[h].review] = Append(@, reviewer[h].action)]
        /\ Answer("recordAccessReviewDecision", 201, None)
     \/ Fails /\ Answer("recordAccessReviewDecision", 500, None) /\ UNCHANGED decisions
  /\ UNCHANGED <<calls, now, approvals, told, reviews, users, ids>>

closeAccessReview(role, p) ==
  /\ \/ ~Administrator(role) /\ Serve("closeAccessReview", 403, None) /\ UNCHANGED reviews
     \/ /\ Administrator(role) /\ reviews[p] = "open"
        /\ Serve("closeAccessReview", 200, p) /\ reviews' = [reviews EXCEPT ![p] = "completed"]
     \/ Administrator(role) /\ reviews[p] # "open" /\ Serve("closeAccessReview", 409, None) /\ UNCHANGED reviews
     \/ Administrator(role) /\ Refuse("closeAccessReview") /\ UNCHANGED reviews
  /\ UNCHANGED <<approvals, told, decisions, users, ids, reviewer>>

createUser(c, email, id) ==         \* ON CONFLICT the row keeps its id
  /\ id \notin ids
  /\ LET same == {u \in users : u.customer = c /\ u.email = email}
     IN  \/ same = {} /\ Serve("createUser", 201, id)
            /\ users' = users \cup {[id |-> id, customer |-> c, email |-> email]} /\ ids' = ids \cup {id}
         \/ \E u \in same : Serve("createUser", 201, u.id) /\ UNCHANGED <<users, ids>>
         \/ Refuse("createUser") /\ UNCHANGED <<users, ids>>
  /\ UNCHANGED <<approvals, told, reviews, decisions, reviewer>>

listUsers == (Serve("listUsers", 200, users) \/ Refuse("listUsers")) /\ UNCHANGED governanceVars

getUser(id) ==                      \* any error is "not found"
  /\ \/ \E u \in users : u.id = id /\ Serve("getUser", 200, u.email)
     \/ (\A u \in users : u.id # id) /\ Serve("getUser", 404, None)
     \/ Call /\ Fails /\ Answer("getUser", 404, None)
  /\ UNCHANGED governanceVars

deleteUser(id) ==                   \* answered 204 even if the statement failed
  /\ Call /\ Answer("deleteUser", 204, None)
  /\ \/ Works /\ users' = {u \in users : u.id # id}
     \/ Fails /\ UNCHANGED users
  /\ UNCHANGED <<approvals, told, reviews, decisions, ids, reviewer>>

GovernanceNext ==
  \/ \E a \in Approvals : submitQueryApproval(a) \/ \E s \in Statuses, x \in Approvers : decideQueryApproval(a, s, x)
  \/ \E s \in Statuses \cup {None, "pending"} : listQueryApprovals(s)
  \/ \E role \in {None, "admin"}, p \in Customers \X Periods :
       \/ openAccessReview(role, p) \/ closeAccessReview(role, p)
       \/ \E h \in Free({x \in Handlers : reviewer[x] = None}), action \in {"keep", "revoke"} : CheckReview(h, role, p, action)
  \/ \E c \in Customers : listAccessReviews(c) \/ \E e \in Emails, id \in UserIds : createUser(c, e, id)
  \/ \E h \in Handlers : InsertDecision(h)
  \/ listUsers
  \/ \E id \in UserIds : getUser(id) \/ deleteUser(id)

(* A decision stands: of the approvers that decide at the same time one is  *)
(* told that its decision was taken, and what it was told is what the row   *)
(* says from then on.                                                       *)
DecisionStands ==
  /\ \A x, y \in told : x.id = y.id => x = y
  /\ \A x \in told : approvals[x.id] = [status |-> x.status, approver |-> x.approver]
=============================================================================
