----------------------------- MODULE Notifications -----------------------------
(***************************************************************************)
(* Notifications: delivery subscriptions, the in-app inbox and              *)
(* notifications.Router.Send, which the test-send endpoint calls once and   *)
(* the anomaly scan once per flagged day.  A message's text is abstracted   *)
(* to its number; what a transport does with it to "sent" or "failed".      *)
(***************************************************************************)
EXTENDS ApiRequests

CONSTANTS Subs,            \* ids of delivery_subscription rows
          SmtpConfigured,  \* SMTP_HOST is set
          MaxFlagged       \* bound: days one anomaly scan flags

ASSUME SmtpAssumption == SmtpConfigured \in BOOLEAN /\ MaxFlagged \in Nat

VARIABLES
  subs,     \* table delivery_subscription; None: no row
  used,     \* ids given out: an id is never used again
  inbox,    \* table notification, in the order of the inserts
  sends,    \* history, by message number: whom it was for, the rows looked up, sent, failed
  sender    \* each handler in Router.Send: its step, message, rows left and sends still to come

notificationVars == <<subs, used, inbox, sends, sender>>

Channels == {"email", "slack", "teams", "webhook"}      \* CHECK of the channel column
IdleSender == [pc |-> "idle", op |-> None, customer |-> None, msg |-> 0, left |-> {}, more |-> 0, sent |-> 0]

NotificationTypeOK ==
  /\ subs \in [Subs -> {None} \cup [customer : Customers, channel : Channels, lastSent : BOOLEAN]]
  /\ used \subseteq Subs
  /\ inbox \in Seq([customer : Customers, msg : Nat, read : BOOLEAN])
  /\ sends \in Seq([customer : Customers, state : {"running", "ok", "error"},
                    looked : SUBSET Subs, sent : SUBSET Subs, errs : SUBSET Subs])
  /\ sender \in [Handlers -> [pc : {"idle", "push", "lookup", "fanOut"}, op : {None, "testSend", "scan"},
       customer : Customers \cup {None}, msg : Nat, left : SUBSET (Subs \X Channels), more : 0 .. MaxFlagged, sent : 0 .. MaxFlagged]]
  /\ \A h \in Handlers : sender[h].pc # "idle" => sender[h].msg \in DOMAIN sends

NotificationInit ==
  /\ subs = [s \in Subs |-> None] /\ used = {}
  /\ inbox = <<>> /\ sends = <<>>
  /\ sender = [h \in Handlers |-> IdleSender]

createDashboardSubscription(s, c, channel) ==   \* the channel is checked by the table only
  /\ s \notin used
  /\ \/ /\ channel \in Channels
        /\ Serve("createDashboardSubscription", 201, s)
        /\ subs' = [subs EXCEPT ![s] = [customer |-> c, channel |-> channel, lastSent |-> FALSE]]
        /\ used' = used \cup {s}
     \/ channel \notin Channels /\ Serve("createDashboardSubscription", 500, None) /\ UNCHANGED <<subs, used>>
     \/ Refuse("createDashboardSubscription") /\ UNCHANGED <<subs, used>>
  /\ UNCHANGED <<inbox, sends, sender>>

deleteSubscription(s) ==
  /\ s \in used
  /\ \/ Serve("deleteSubscription", 204, None) /\ subs' = [subs EXCEPT ![s] = None]
     \/ Refuse("deleteSubscription") /\ UNCHANGED subs
  /\ UNCHANGED <<used, inbox, sends, sender>>

listDashboardSubscriptions ==
  /\ \/ Serve("listDashboardSubscriptions", 200, {s \in Subs : subs[s] # None})
     \/ Refuse("listDashboardSubscriptions")
  /\ UNCHANGED notificationVars

Running(c) == [customer |-> c, state |-> "running", looked |-> {}, sent |-> {}, errs |-> {}]

(* the start of Router.Send; more counts the anomalies after this one *)
StartSend(h, op, c, more, sent) ==
  /\ sends' = Append(sends, Running(c))
  /\ sender' = [sender EXCEPT ![h] = [pc |-> "push", op |-> op, customer |-> c, msg |-> Len(sends'),
                                      left |-> {}, more |-> more, sent |-> sent]]

testSendSubscription(h, s) ==
  /\ sender[h].pc = "idle" /\ s \in used
  /\ \/ Call /\ Works /\ subs[s] # None /\ StartSend(h, "testSend", subs[s].customer, 0, 0) /\ Silent
     \/ subs[s] = None /\ Serve("testSendSubscription", 404, None) /\ UNCHANGED <<sends, sender>>
     \/ Call /\ Fails /\ Answer("testSendSubscription", 404, None) /\ UNCHANGED <<sends, sender>>
  /\ UNCHANGED <<subs, used, inbox>>

scanAnomalies(h, c, flagged) ==       \* NotifyAnomalies: one Send for every point Detect flags
  /\ sender[h].pc = "idle"
  /\ \/ flagged = 0 /\ Serve("scanAnomalies", 200, 0) /\ UNCHANGED <<sends, sender>>
     \/ flagged > 0 /\ Call /\ Works /\ StartSend(h, "scan", c, flagged - 1, 0) /\ Silent
     \/ Refuse("scanAnomalies") /\ UNCHANGED <<sends, sender>>
  /\ UNCHANGED <<subs, used, inbox>>

(* Send returns: the test-send answers, the scan goes on with the next point, error or not *)
Return(h, result) ==
  LET m == sender[h]
      count == m.sent + (IF result.errs = {} /\ result.state = "ok" THEN 1 ELSE 0)
      ended == [sends EXCEPT ![m.msg] = result]
  IN  IF m.more > 0
      THEN /\ sends' = Append(ended, Running(m.customer))
           /\ sender' = [sender EXCEPT ![h] = [@ EXCEPT !.pc = "push", !.msg = Len(sends'), !.left = {},
                                                        !.more = m.more - 1, !.sent = count]]
           /\ Silent
      ELSE /\ sends' = ended
           /\ sender' = [sender EXCEPT ![h] = IdleSender]
           /\ IF m.op = "scan" THEN Answer("scanAnomalies", 200, count)
                               ELSE Answer("testSendSubscription", 200, result.state)

Push(h) ==                            \* the in-app row comes first: without it nothing is sent
  /\ sender[h].pc = "push"
  /\ \/ /\ Works
        /\ inbox' = Append(inbox, [customer |-> sender[h].customer, msg |-> sender[h].msg, read |-> FALSE])
        /\ sender' = [sender EXCEPT ![h].pc = "lookup"]
        /\ Silent /\ UNCHANGED sends
     \/ Fails /\ Return(h, [sends[sender[h].msg] EXCEPT !.state = "error"]) /\ UNCHANGED inbox
  /\ UNCHANGED <<calls, now, subs, used>>

LookupSubs(h) ==                      \* enabled rows of the customer, whatever dashboard they are for
  /\ sender[h].pc = "lookup"
  /\ LET m == sender[h].msg
         rows == {s \in Subs : subs[s] # None /\ subs[s].customer = sender[h].customer}
     IN  \/ /\ Works /\ rows # {}
            /\ sends' = [sends EXCEPT ![m].looked = rows]
            /\ sender' = [sender EXCEPT ![h].pc = "fanOut", ![h].left = {<<s, subs[s].channel>> : s \in rows}]
            /\ Silent
         \/ Works /\ rows = {} /\ Return(h, [sends[m] EXCEPT !.state = "ok"])
         \/ Fails /\ Return(h, [sends[m] EXCEPT !.state = "error"])
  /\ UNCHANGED <<calls, now, subs, used, inbox>>

(* mutant: the fan-out returns at the first error *)
DeliverUntilError(h, s, channel) ==
  LET m == sender[h].msg
      possible == channel # "email" \/ SmtpConfigured
      rest == sender[h].left \ {<<s, channel>>}
      sent == [sends[m] EXCEPT !.sent = @ \cup {s}]
      failed == [sends[m] EXCEPT !.errs = @ \cup {s}, !.state = "error"]
  IN  /\ sender[h].pc = "fanOut" /\ <<s, channel>> \in sender[h].left
      /\ \/ /\ Works /\ possible
            /\ IF rest = {} THEN Return(h, [sent EXCEPT !.state = "ok"])
               ELSE sends' = [sends EXCEPT ![m] = sent] /\ sender' = [sender EXCEPT ![h].left = rest] /\ Silent
         \/ Works /\ ~possible /\ Return(h, failed)
      /\ UNCHANGED <<calls, now, subs, used, inbox>>

(* One transport: e-mail needs SMTP, every one may fail.  The errors are    *)
(* collected; after a success last_sent_at is set, where an error is        *)
(* ignored.  A row deleted since the lookup is still sent to.               *)
Deliver(h, s, channel) ==
  LET m == sender[h].msg
      possible == channel # "email" \/ SmtpConfigured
      sent == [sends[m] EXCEPT !.sent = @ \cup {s}]
      failed == [sends[m] EXCEPT !.errs = @ \cup {s}]
      rest == sender[h].left \ {<<s, channel>>}
      Go(result) ==
        IF rest = {} THEN Return(h, [result EXCEPT !.state = IF result.errs = {} THEN "ok" ELSE "error"])
        ELSE sends' = [sends EXCEPT ![m] = result] /\ sender' = [sender EXCEPT ![h].left = rest] /\ Silent
  IN  /\ sender[h].pc = "fanOut" /\ <<s, channel>> \in sender[h].left
      /\ \/ /\ Works /\ possible /\ Go(sent)
            /\ subs' = [subs EXCEPT ![s] = IF @ = None THEN None ELSE [@ EXCEPT !.lastSent = TRUE]]
         \/ Works /\ ~possible /\ Go(failed) /\ UNCHANGED subs
         \/ Fails /\ possible /\ (Go(sent) \/ Go(failed)) /\ UNCHANGED subs
      /\ UNCHANGED <<calls, now, used, inbox>>

Visible(c) == {i \in DOMAIN inbox : inbox[i].customer = c}      \* user_id is NULL in every row
Unread(c) == {i \in Visible(c) : ~inbox[i].read}
Read(S) == inbox' = [i \in DOMAIN inbox |-> IF i \in S THEN [inbox[i] EXCEPT !.read = TRUE] ELSE inbox[i]]

inboxList(c, unreadOnly) ==
  /\ \/ Serve("inboxList", 200, IF unreadOnly THEN Unread(c) ELSE Visible(c))
     \/ Refuse("inboxList")
  /\ UNCHANGED notificationVars

inboxBadgeCount(c) ==
  /\ Serve("inboxBadgeCount", 200, Cardinality(Unread(c))) \/ Refuse("inboxBadgeCount")
  /\ UNCHANGED notificationVars

inboxMarkRead(i) ==                   \* any id, of any customer
  /\ \/ Serve("inboxMarkRead", 200, None) /\ Read({i})
     \/ Refuse("inboxMarkRead") /\ UNCHANGED inbox
  /\ UNCHANGED <<subs, used, sends, sender>>

inboxMarkAllRead(c) ==
  /\ \/ Serve("inboxMarkAllRead", 200, None) /\ Read(Unread(c))
     \/ Refuse("inboxMarkAllRead") /\ UNCHANGED inbox
  /\ UNCHANGED <<subs, used, sends, sender>>

NotificationNext ==
  \/ \E s \in Subs, c \in Customers, channel \in {"email", "slack", "pagerduty"} : createDashboardSubscription(s, c, channel)
  \/ \E s \in Subs : deleteSubscription(s)
  \/ listDashboardSubscriptions
  \/ \E h \in Free({x \in Handlers : sender[x].pc = "idle"}) :
       \/ \E s \in Subs : testSendSubscription(h, s)
       \/ \E c \in Customers, n \in 0 .. MaxFlagged : scanAnomalies(h, c, n)
  \/ \E h \in Handlers : Push(h) \/ LookupSubs(h) \/ \E s \in Subs, channel \in Channels : Deliver(h, s, channel)
  \/ \E c \in Customers : inboxBadgeCount(c) \/ inboxMarkAllRead(c) \/ \E u \in BOOLEAN : inboxList(c, u)
  \/ \E i \in DOMAIN inbox : inboxMarkRead(i)

(* A message reaches everybody it can: it is in the inbox before it is sent *)
(* anywhere; once Send has returned, every row of the lookup was sent to or *)
(* is in the joined error, and Send says ok only if none failed; and it is  *)
(* sent to subscriptions of its own customer only.                          *)
FannedOut ==
  \A m \in DOMAIN sends :
    LET x == sends[m]
        stored == \E i \in DOMAIN inbox : inbox[i].msg = m /\ inbox[i].customer = x.customer
    IN  /\ x.looked # {} => stored
        /\ x.state = "ok" => stored /\ x.errs = {} /\ x.sent = x.looked
        /\ x.state = "error" /\ x.looked # {} => x.sent \cup x.errs = x.looked
        /\ x.sent \cup x.errs \subseteq x.looked
        /\ \A s \in x.looked : subs[s] # None => subs[s].customer = x.customer
=============================================================================
