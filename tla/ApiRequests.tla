------------------------------ MODULE ApiRequests ------------------------------
(***************************************************************************)
(* What the components behind the HTTP API share: the control-plane         *)
(* database may refuse a statement, time passes, and a request that ends is *)
(* answered.  A statement is one atomic step; a handler that issues several *)
(* is several actions, between which any other request runs.                *)
(***************************************************************************)
EXTENDS Naturals, Sequences, FiniteSets

CONSTANTS
  Handlers,     \* goroutines of the HTTP server
  Customers,
  MaxCalls,     \* bound: requests the API receives
  MaxFaults,    \* bound: failed statements, failed deliveries and process stops
  MaxTime,      \* bound of the clock; its unit is that of the module that composes
  None

ASSUME ApiAssumption ==
  {MaxCalls, MaxFaults, MaxTime} \subseteq Nat /\ None \notin Customers /\ IsFiniteSet(Handlers)

VARIABLES calls, faults, now,
          reply   \* the answer the step gave, None when it gave none: the handler's name,
                  \* the HTTP status and the body

api == <<calls, faults, now, reply>>

ApiTypeOK == calls \in 0 .. MaxCalls /\ faults \in 0 .. MaxFaults /\ now \in 0 .. MaxTime

ApiInit == calls = 0 /\ faults = 0 /\ now = 0 /\ reply = None

(* writeJSON and writeErr: an error does not say which handler it is of *)
Answer(op, code, body) ==
  reply' = IF code < 400 THEN [op |-> op, code |-> code, body |-> body] ELSE [op |-> None, code |-> code, body |-> None]

Call == calls < MaxCalls /\ calls' = calls + 1 /\ UNCHANGED now   \* a request arrives

Works == UNCHANGED faults                                         \* a statement succeeds

Fails == faults < MaxFaults /\ faults' = faults + 1               \* or not

Serve(op, code, body) == Call /\ Works /\ Answer(op, code, body)  \* a handler of one statement

Refuse(op) == Call /\ Fails /\ Answer(op, 500, None)              \* writeErr with the database's error

Silent == reply' = None                                           \* a step that answers nobody

Clock == now < MaxTime /\ now' = now + 1 /\ Silent /\ UNCHANGED <<calls, faults>>

(* a request runs on a goroutine of its own, and which one does not matter *)
Free(idle) == IF idle = {} THEN {} ELSE {CHOOSE h \in idle : TRUE}

(* requireRole: the X-UV-Role header, viewer when it is not sent *)
requireRole(role, allowed) == (IF role = None THEN "viewer" ELSE role) \in allowed
=============================================================================
