------------------------------ MODULE RequestReply ------------------------------
(***************************************************************************)
(* What a PostgreSQL client relies on, whatever it pipelines: the server    *)
(* answers its messages in the order they were sent, each one with one      *)
(* complete reply before anything of the next, so that the client knows     *)
(* which message an answer belongs to; and it does not keep back the reply  *)
(* to a message that ends a round.                                          *)
(***************************************************************************)
EXTENDS Naturals, Sequences

CONSTANTS Messages,       \* what a client may send
          RoundEnds,      \* the messages the client waits on: Query and Sync
          Complete(_, _), \* whether a reply is one complete answer to a message
          MaxAsked        \* bound: messages of one connection

VARIABLES asked,          \* the messages sent
          replies,        \* the replies the client holds completely
          open            \* the connection is open
vars == <<asked, replies, open>>

Init == asked = <<>> /\ replies = <<>> /\ open \in BOOLEAN

Connect == ~ open /\ asked = <<>> /\ open' = TRUE /\ UNCHANGED <<asked, replies>>

Ask == /\ open /\ Len(asked) < MaxAsked
       /\ \E m \in Messages : asked' = Append(asked, m)
       /\ UNCHANGED <<replies, open>>

Reply == /\ open /\ Len(replies) < Len(replies') /\ Len(replies') <= Len(asked)
         /\ SubSeq(replies', 1, Len(replies)) = replies
         /\ \A i \in Len(replies) + 1 .. Len(replies') : Complete(asked[i], replies'[i])
         /\ UNCHANGED <<asked, open>>

Close == open /\ open' = FALSE /\ UNCHANGED <<asked, replies>>

Next == Connect \/ Ask \/ Reply \/ Close

\* A Query or Sync that was sent is answered, unless the connection closes.
RoundsEnd == \A n \in 1 .. MaxAsked :
  (open /\ n <= Len(asked) /\ asked[n] \in RoundEnds) ~> (~ open \/ n <= Len(replies))

Spec == Init /\ [][Next]_vars /\ RoundsEnd
=============================================================================
