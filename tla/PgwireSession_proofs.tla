-------------------------- MODULE PgwireSession_proofs --------------------------
(***************************************************************************)
(* Proofs about PgwireSession for every set of names, statements, keys and  *)
(* databases and every number of frames: what a session executes is for the *)
(* owner of the key, and it implements the safety part of RequestReply.     *)
(***************************************************************************)
EXTENDS PgwireSession, FiniteSetTheorems, TLAPS

-----------------------------------------------------------------------------
(* Sequences.                                                               *)

\* A concatenation, by positions.
LEMMA Joined ==
  ASSUME NEW S, NEW a \in Seq(S), NEW b \in Seq(S)
  PROVE  /\ a \o b \in Seq(S) /\ Len(a \o b) = Len(a) + Len(b) /\ Len(a) \in Nat /\ Len(b) \in Nat
         /\ \A i \in 1 .. Len(a) : (a \o b)[i] = a[i]
         /\ \A i \in 1 .. Len(b) : (a \o b)[Len(a) + i] = b[i]
OBVIOUS

\* Sequences with the same elements are the same.
LEMMA Same ==
  ASSUME NEW S, NEW a \in Seq(S), NEW b \in Seq(S), Len(a) = Len(b), \A i \in 1 .. Len(a) : a[i] = b[i]
  PROVE  a = b
OBVIOUS

\* A sequence is its two parts.
LEMMA Cut ==
  ASSUME NEW S, NEW s \in Seq(S), NEW k \in 0 .. Len(s)
  PROVE  /\ SubSeq(s, 1, k) \in Seq(S) /\ Len(SubSeq(s, 1, k)) = k
         /\ SubSeq(s, k + 1, Len(s)) \in Seq(S) /\ Len(SubSeq(s, k + 1, Len(s))) = Len(s) - k
         /\ SubSeq(s, 1, k) \o SubSeq(s, k + 1, Len(s)) = s
<1> DEFINE a == SubSeq(s, 1, k)
           b == SubSeq(s, k + 1, Len(s))
<1>1. a \in Seq(S) /\ Len(a) = k /\ \A i \in 1 .. k : a[i] = s[i]
  OBVIOUS
<1>2. b \in Seq(S) /\ Len(b) = Len(s) - k /\ \A i \in 1 .. Len(s) - k : b[i] = s[k + i]
  OBVIOUS
<1> HIDE DEF a, b
<1>0. Len(s) \in Nat /\ k + (Len(s) - k) = Len(s)
  OBVIOUS
<1>10. a \o b \in Seq(S) /\ Len(a \o b) = Len(a) + Len(b) /\ (\A i \in 1 .. Len(a) : (a \o b)[i] = a[i])
      /\ \A i \in 1 .. Len(b) : (a \o b)[Len(a) + i] = b[i]
  BY <1>1, <1>2, Joined
<1>3. a \o b \in Seq(S) /\ Len(a \o b) = Len(s) /\ (\A i \in 1 .. k : (a \o b)[i] = a[i])
      /\ \A i \in 1 .. Len(s) - k : (a \o b)[k + i] = b[i]
  BY <1>0, <1>1, <1>2, <1>10
<1>4. ASSUME NEW i \in 1 .. Len(a \o b) PROVE (a \o b)[i] = s[i]
  <2>1. CASE i <= k
    BY <1>1, <1>2, <1>3, <2>1
  <2>2. CASE i > k
    <3> DEFINE j == i - k
    <3>1. j \in 1 .. Len(s) - k /\ i = k + j
      BY <1>0, <1>3, <2>2
    <3> HIDE DEF j
    <3> QED BY <1>1, <1>2, <1>3, <3>1
  <2> QED BY <1>3, <2>1, <2>2
<1>5. a \o b = s
  BY <1>3, <1>4, Same
<1> QED BY <1>1, <1>2, <1>5 DEF a, b

\* Concatenation is associative.
LEMMA Assoc ==
  ASSUME NEW S, NEW a \in Seq(S), NEW b \in Seq(S), NEW c \in Seq(S)
  PROVE  (a \o b) \o c = a \o (b \o c)
OBVIOUS

\* A function on 1 .. n is a sequence.
LEMMA Tuple == ASSUME NEW T, NEW n \in Nat, NEW f \in [1 .. n -> T] PROVE f \in Seq(T) /\ Len(f) = n
OBVIOUS

\* Concatenations of one and two messages.
LEMMA Pair == ASSUME NEW x, NEW y PROVE <<x>> \o <<y>> = <<x, y>>
<1> DEFINE S == {x, y}
           a == <<x>>
           b == <<y>>
           c == <<x, y>>
<1>1. a \in Seq(S) /\ b \in Seq(S) /\ c \in Seq(S)
  OBVIOUS
<1>2. Len(a) = 1 /\ Len(b) = 1 /\ Len(c) = 2 /\ a[1] = x /\ b[1] = y /\ c[1] = x /\ c[2] = y
  OBVIOUS
<1> HIDE DEF a, b, c, S
<1>3. a \o b \in Seq(S) /\ Len(a \o b) = Len(a) + Len(b) /\ (\A i \in 1 .. Len(a) : (a \o b)[i] = a[i])
      /\ \A i \in 1 .. Len(b) : (a \o b)[Len(a) + i] = b[i]
  BY <1>1, Joined
<1>4. Len(a \o b) = 2 /\ (a \o b)[1] = x /\ (a \o b)[2] = y
  BY <1>2, <1>3
<1>5. a \o b = c
  BY <1>1, <1>2, <1>3, <1>4, Same
<1> QED BY <1>5 DEF a, b, c

\* A sequence that another one begins with.
LEMMA Prefix ==
  ASSUME NEW S, NEW a \in Nat, NEW b \in Nat, a <= b, NEW r \in [1 .. a -> S], NEW q \in [1 .. b -> S],
         \A i \in 1 .. a : r[i] = q[i]
  PROVE  Len(r) = a /\ Len(q) = b /\ SubSeq(q, 1, a) = r
<1>1. r \in Seq(S) /\ q \in Seq(S)
  BY Tuple
<1>2. Len(r) = a /\ Len(q) = b
  BY Tuple
<1> DEFINE p == SubSeq(q, 1, a)
<1>3. p \in Seq(S) /\ Len(p) = a /\ \A i \in 1 .. a : p[i] = q[i]
  BY <1>1, <1>2
<1> HIDE DEF p
<1>4. Len(p) = Len(r) /\ \A i \in 1 .. Len(p) : p[i] = r[i]
  BY <1>2, <1>3
<1>5. p = r
  BY <1>1, <1>3, <1>4, Same
<1> QED BY <1>2, <1>5 DEF p

-----------------------------------------------------------------------------
(* The inductive invariant.                                                 *)

\* Frames are sent, and handled, by a session that is ready; behind an Authenticator it is ready only
\* for the owner of a key.
AuthInv ==
  /\ phase \in {"startup", "password"} => asked = <<>> /\ handled = 0
  /\ phase = "password" => database \in Databases
  /\ (Server.auth /\ (phase = "ready" \/ handled > 0)) =>
        identity = database /\ database[2] \in Warehouses /\ \E k \in Keys : KeyOwner[k] = database[1]

\* What the Writer was given, sent or not.
Wire == received \o wbuf

\* log is the replies to the first n frames of as, each complete, one behind the other: pos[i]
\* messages are of the first i.
Framed(pos, log, n, as) ==
  /\ pos \in [0 .. n -> 0 .. Len(log)] /\ pos[0] = 0 /\ pos[n] = Len(log)
  /\ \A i, k \in 0 .. n : i <= k => pos[i] <= pos[k]
  /\ \A j \in 1 .. Len(log) : log[j].of \in 1 .. n /\ pos[log[j].of - 1] < j /\ j <= pos[log[j].of]
  /\ \A i \in 1 .. n : Complete(as[i], [j \in 1 .. pos[i] - pos[i - 1] |-> log[pos[i - 1] + j].m])

\* The replies are framed, and the client has those of the frames handled before the last flush.
FramingInv == \E pos : Framed(pos, Wire, handled, asked) /\ pos[flushed] <= Len(received)

IInv == TypeOK /\ AuthInv /\ FramingInv

-----------------------------------------------------------------------------
(* Framing.                                                                 *)

\* The reply to frame i, as Framed cuts it out of the log.
Block(pos, log, i) == [j \in 1 .. pos[i] - pos[i - 1] |-> log[pos[i - 1] + j].m]

\* ReplyTo, of any received messages.
ReplyOf(rec, i) ==
  LET upto(k) == Cardinality({j \in DOMAIN rec : rec[j].of <= k})
  IN  [j \in 1 .. upto(i) - upto(i - 1) |-> rec[upto(i - 1) + j].m]

\* The client puts the replies together as they were written, for the frames whose reply it has.
LEMMA ReplyIsBlock ==
  ASSUME NEW rec \in Seq(Tagged), NEW log \in Seq(Tagged), NEW n \in Nat, NEW as, NEW pos, Framed(pos, log, n, as),
         NEW f \in 0 .. n, pos[f] <= Len(rec), Len(rec) <= Len(log), \A j \in 1 .. Len(rec) : rec[j] = log[j],
         NEW i \in 1 .. f
  PROVE  ReplyOf(rec, i) = Block(pos, log, i)
<1> DEFINE upto(k) == Cardinality({j \in DOMAIN rec : rec[j].of <= k})
<1>0. Len(rec) \in Nat /\ Len(log) \in Nat /\ DOMAIN rec = 1 .. Len(rec)
  OBVIOUS
<1>1. /\ \A k \in 0 .. n : pos[k] \in 0 .. Len(log)
      /\ \A k, l \in 0 .. n : k <= l => pos[k] <= pos[l]
      /\ \A j \in 1 .. Len(log) : log[j].of \in 1 .. n /\ pos[log[j].of - 1] < j /\ j <= pos[log[j].of]
  BY DEF Framed
<1>2. ASSUME NEW k \in 0 .. f PROVE upto(k) = pos[k] /\ pos[k] \in 0 .. Len(rec)
  <2>1. pos[k] \in Nat /\ pos[k] <= Len(rec) /\ k \in 0 .. n /\ pos[k] \in 0 .. Len(rec)
    BY <1>0, <1>1
  <2>2. ASSUME NEW j \in 1 .. Len(rec) PROVE rec[j].of <= k <=> j <= pos[k]
    <3> DEFINE o == log[j].of
    <3>1. rec[j].of = o /\ o \in 1 .. n /\ o - 1 \in 0 .. n /\ pos[o - 1] < j /\ j <= pos[o]
      BY <1>0, <1>1
    <3> HIDE DEF o
    <3>2. pos[o] \in Nat /\ pos[o - 1] \in Nat
      BY <1>0, <1>1, <3>1
    <3>3. CASE o <= k
      <4>1. pos[o] <= pos[k]
        BY <1>1, <2>1, <3>1, <3>3
      <4> QED BY <2>1, <3>1, <3>2, <3>3, <4>1
    <3>4. CASE ~(o <= k)
      <4>1. pos[k] <= pos[o - 1]
        BY <1>1, <2>1, <3>1, <3>4
      <4> QED BY <2>1, <3>1, <3>2, <3>4, <4>1
    <3> QED BY <3>3, <3>4
  <2>3. {j \in DOMAIN rec : rec[j].of <= k} = 1 .. pos[k]
    BY <1>0, <2>1, <2>2
  <2>4. Cardinality(1 .. pos[k]) = pos[k]
    BY <2>1, FS_Interval
  <2> QED BY <2>1, <2>3, <2>4
<1>3. i \in 0 .. f /\ i - 1 \in 0 .. f /\ i \in 0 .. n /\ i - 1 \in 0 .. n
  OBVIOUS
<1>4. upto(i) = pos[i] /\ upto(i - 1) = pos[i - 1] /\ pos[i] \in 0 .. Len(rec) /\ pos[i - 1] \in 0 .. Len(rec)
  BY <1>2, <1>3
<1> HIDE DEF upto
<1>5. ReplyOf(rec, i) = [j \in 1 .. upto(i) - upto(i - 1) |-> rec[upto(i - 1) + j].m]
  BY DEF ReplyOf, upto
<1>6. ASSUME NEW j \in 1 .. pos[i] - pos[i - 1] PROVE rec[pos[i - 1] + j] = log[pos[i - 1] + j]
  <2>1. pos[i - 1] + j \in 1 .. Len(rec)
    BY <1>0, <1>4
  <2> QED BY <2>1
<1> QED BY <1>4, <1>5, <1>6 DEF Block

\* more is the messages ms, tagged with frame n.
TaggedAs(more, ms, n) ==
  /\ ms \in Seq(MessageTypes) /\ more \in Seq(Tagged) /\ Len(more) = Len(ms)
  /\ \A i \in 1 .. Len(ms) : more[i].m = ms[i] /\ more[i].of = n

\* Writing a complete reply to the next frame keeps the replies framed.
LEMMA ReplyFramed ==
  ASSUME NEW log \in Seq(Tagged), NEW n \in Nat, NEW as, NEW pos, Framed(pos, log, n, as),
         NEW ms, NEW more, TaggedAs(more, ms, n + 1), Complete(as[n + 1], ms)
  PROVE  \E p : /\ Framed(p, log \o more, n + 1, as) /\ p[n + 1] = Len(log \o more)
                /\ \A i \in 0 .. n : p[i] = pos[i]
                /\ \A i \in 1 .. n : Block(p, log \o more, i) = Block(pos, log, i)
<1> DEFINE all == log \o more
           p == [i \in 0 .. n + 1 |-> IF i <= n THEN pos[i] ELSE Len(all)]
<1>r. /\ ms \in Seq(MessageTypes) /\ more \in Seq(Tagged) /\ Len(more) = Len(ms)
      /\ \A i \in 1 .. Len(ms) : more[i].m = ms[i] /\ more[i].of = n + 1
  BY DEF TaggedAs
<1>0. /\ all \in Seq(Tagged) /\ Len(all) = Len(log) + Len(more) /\ Len(log) \in Nat /\ Len(more) \in Nat
      /\ \A i \in 1 .. Len(log) : all[i] = log[i]
      /\ \A i \in 1 .. Len(more) : all[Len(log) + i] = more[i]
  <2>1. log \in Seq(Tagged) /\ more \in Seq(Tagged)
    BY <1>r
  <2>2. log \o more \in Seq(Tagged) /\ Len(log) \in Nat /\ Len(more) \in Nat
    BY <2>1
  <2>3. Len(log \o more) = Len(log) + Len(more)
    BY <2>1
  <2>4. \A i \in 1 .. Len(log) : (log \o more)[i] = log[i]
    BY <2>1
  <2>5. \A i \in 1 .. Len(more) : (log \o more)[Len(log) + i] = more[i]
    BY <2>1
  <2> QED BY <2>2, <2>3, <2>4, <2>5
<1> HIDE DEF all
<1>1. /\ all \in Seq(Tagged) /\ Len(all) = Len(log) + Len(ms) /\ Len(log) \in Nat /\ Len(ms) \in Nat
      /\ \A i \in 1 .. Len(log) : all[i] = log[i]
      /\ \A i \in 1 .. Len(ms) : all[Len(log) + i] = more[i]
  BY <1>0, <1>r
<1>2. /\ pos \in [0 .. n -> 0 .. Len(log)] /\ pos[0] = 0 /\ pos[n] = Len(log)
      /\ \A i, k \in 0 .. n : i <= k => pos[i] <= pos[k]
      /\ \A j \in 1 .. Len(log) : log[j].of \in 1 .. n /\ pos[log[j].of - 1] < j /\ j <= pos[log[j].of]
      /\ \A i \in 1 .. n : Complete(as[i], Block(pos, log, i))
  BY DEF Framed, Block
<1>3. /\ \A i \in 0 .. n : p[i] = pos[i] /\ pos[i] \in 0 .. Len(log)
      /\ p[n + 1] = Len(all)
  BY <1>1, <1>2
<1>4. p \in [0 .. n + 1 -> 0 .. Len(all)] /\ p[0] = 0
  BY <1>1, <1>2
<1> HIDE DEF p
<1>5. ASSUME NEW i \in 0 .. n + 1, NEW k \in 0 .. n + 1, i <= k PROVE p[i] <= p[k]
  <2>1. CASE k <= n
    BY <1>2, <1>3, <1>5, <2>1
  <2>2. CASE k = n + 1
    BY <1>3, <1>4, <1>1, <2>2
  <2> QED BY <2>1, <2>2
<1>6. ASSUME NEW j \in 1 .. Len(all)
      PROVE  all[j].of \in 1 .. n + 1 /\ p[all[j].of - 1] < j /\ j <= p[all[j].of]
  <2>1. CASE j \in 1 .. Len(log)
    <3> DEFINE o == log[j].of
    <3>1. all[j].of = o /\ o \in 1 .. n /\ pos[o - 1] < j /\ j <= pos[o]
      BY <1>1, <1>2, <2>1
    <3> HIDE DEF o
    <3>2. o \in 1 .. n + 1 /\ o \in 0 .. n /\ o - 1 \in 0 .. n
      BY <3>1
    <3> QED BY <1>3, <3>1, <3>2
  <2>2. CASE j \notin 1 .. Len(log)
    <3> DEFINE k == j - Len(log)
    <3>1. k \in 1 .. Len(ms) /\ j = Len(log) + k
      BY <1>1, <2>2
    <3> HIDE DEF k
    <3>2. all[j].of = n + 1
      BY <1>1, <1>r, <3>1
    <3>3. p[n + 1 - 1] = Len(log)
      BY <1>2, <1>3
    <3> QED BY <1>1, <1>3, <3>1, <3>2, <3>3
  <2> QED BY <2>1, <2>2
<1>7. ASSUME NEW i \in 1 .. n PROVE Block(p, all, i) = Block(pos, log, i)
  <2>1. i \in 0 .. n /\ i - 1 \in 0 .. n
    OBVIOUS
  <2>2. p[i] = pos[i] /\ p[i - 1] = pos[i - 1] /\ pos[i] \in 0 .. Len(log) /\ pos[i - 1] \in 0 .. Len(log)
    BY <1>3, <2>1
  <2>3. ASSUME NEW j \in 1 .. pos[i] - pos[i - 1] PROVE all[pos[i - 1] + j] = log[pos[i - 1] + j]
    <3>1. pos[i - 1] + j \in 1 .. Len(log)
      BY <1>1, <2>2
    <3> QED BY <1>1, <3>1
  <2> QED BY <2>2, <2>3 DEF Block
<1>8. Block(p, all, n + 1) = ms
  <2>1. p[n + 1] = Len(log) + Len(ms) /\ p[n + 1 - 1] = Len(log)
    BY <1>1, <1>2, <1>3
  <2>2. p[n + 1] - p[n + 1 - 1] = Len(ms)
    BY <1>1, <2>1
  <2>3. Block(p, all, n + 1) = [j \in 1 .. Len(ms) |-> all[Len(log) + j].m]
    BY <2>1, <2>2 DEF Block
  <2>4. \A j \in 1 .. Len(ms) : all[Len(log) + j].m = ms[j]
    BY <1>1, <1>r
  <2>5. Block(p, all, n + 1) = [j \in 1 .. Len(ms) |-> ms[j]]
    BY <2>3, <2>4
  <2>6. ms = [j \in 1 .. Len(ms) |-> ms[j]]
    BY <1>r
  <2> QED BY <2>5, <2>6
<1>9. ASSUME NEW i \in 1 .. n + 1 PROVE Complete(as[i], Block(p, all, i))
  <2>1. CASE i \in 1 .. n
    BY <1>2, <1>7, <2>1
  <2>2. CASE i = n + 1
    BY <1>8, <2>2
  <2>3. i \in 1 .. n \/ i = n + 1
    OBVIOUS
  <2> QED BY <2>1, <2>2, <2>3
<1>10. Framed(p, all, n + 1, as)
  BY <1>3, <1>4, <1>5, <1>6, <1>9 DEF Framed, Block
<1> QED BY <1>3, <1>7, <1>10 DEF all

\* A frame that is sent changes no reply.
LEMMA AskFramed ==
  ASSUME NEW log, NEW n \in Nat, NEW as, NEW as2, NEW pos, Framed(pos, log, n, as), \A i \in 1 .. n : as2[i] = as[i]
  PROVE  Framed(pos, log, n, as2)
BY DEF Framed

-----------------------------------------------------------------------------
(* The handlers of runQueryLoop.                                            *)

\* A handler writes ms, flushed or not.
Written(ms) == WriteFlush(ms) \/ \E spill \in 0 .. Len(wbuf) + Len(ms) : Write(ms, spill)

\* The next frame is handled with the complete reply ms.
HandledWith(ms) ==
  /\ phase = "ready" /\ handled < Len(asked) /\ handled' = handled + 1 /\ UNCHANGED kept
  /\ Written(ms) /\ Complete(Next1, ms)
  /\ stmts' \in [Names -> SQLs \cup {None}] /\ portals' \in [Names -> SQLs \cup {None}]

\* The messages of a handler carry the number of its frame.
LEMMA TagTyped ==
  ASSUME NEW ms \in Seq(MessageTypes), handled \in Nat, handled + 1 \in 1 .. MaxFrames
  PROVE  /\ Tag(ms) \in Seq(Tagged) /\ Len(Tag(ms)) = Len(ms) /\ Len(ms) \in Nat
         /\ \A i \in 1 .. Len(ms) : Tag(ms)[i].m = ms[i] /\ Tag(ms)[i].of = handled + 1
<1>1. DOMAIN ms = 1 .. Len(ms) /\ Len(ms) \in Nat /\ \A i \in 1 .. Len(ms) : ms[i] \in MessageTypes
  OBVIOUS
<1>2. Tag(ms) = [i \in 1 .. Len(ms) |-> [m |-> ms[i], of |-> handled + 1]]
  BY <1>1 DEF Tag
<1>3. \A i \in 1 .. Len(ms) : [m |-> ms[i], of |-> handled + 1] \in Tagged
  BY <1>1 DEF Tagged
<1>4. Tag(ms) \in [1 .. Len(ms) -> Tagged]
  BY <1>2, <1>3
<1>5. Tag(ms) \in Seq(Tagged) /\ Len(Tag(ms)) = Len(ms)
  BY <1>1, <1>4, Tuple
<1> QED BY <1>1, <1>2, <1>5

\* Nothing the Writer was given is lost, doubled or overtaken: flushed, kept or spilled.
LEMMA WireGrows ==
  ASSUME TypeOK, handled < Len(asked), NEW ms \in Seq(MessageTypes), Written(ms)
  PROVE  /\ received' \in Seq(Tagged) /\ wbuf' \in Seq(Tagged) /\ Wire' = Wire \o Tag(ms)
         /\ Len(received) <= Len(received')
         /\ flushed' = flushed \/ (flushed' = handled + 1 /\ Len(received') = Len(Wire'))
<1> DEFINE t == Tag(ms)
<1>1. /\ received \in Seq(Tagged) /\ wbuf \in Seq(Tagged) /\ Len(asked) \in Nat /\ Len(asked) <= MaxFrames
      /\ handled \in Nat /\ handled + 1 \in 1 .. MaxFrames
  BY FramesAssumption DEF TypeOK
<1>2. Len(t) = Len(ms) /\ Len(ms) \in Nat
  BY <1>1, TagTyped
<1>t. received \in Seq(Tagged) /\ wbuf \in Seq(Tagged) /\ t \in Seq(Tagged)
  BY <1>1, TagTyped
<1> HIDE DEF t
<1>w. received \o wbuf \in Seq(Tagged) /\ Len(received \o wbuf) = Len(received) + Len(wbuf)
  BY <1>t, Joined
<1>b. wbuf \o t \in Seq(Tagged) /\ Len(wbuf \o t) = Len(wbuf) + Len(t)
  BY <1>t, Joined
<1>a. (received \o wbuf) \o t \in Seq(Tagged) /\ Len((received \o wbuf) \o t) = Len(received \o wbuf) + Len(t)
  <2> DEFINE w == received \o wbuf
  <2>1. w \in Seq(Tagged)
    BY <1>w
  <2> HIDE DEF w
  <2>2. w \o t \in Seq(Tagged) /\ Len(w \o t) = Len(w) + Len(t)
    BY <1>t, <2>1, Joined
  <2> QED BY <2>2 DEF w
<1>3. Len(wbuf \o t) = Len(wbuf) + Len(ms) /\ Len(received) \in Nat /\ Len(wbuf) \in Nat
  BY <1>t, <1>b, <1>2
<1>4. Len((received \o wbuf) \o t) = Len(received) + Len(wbuf) + Len(ms)
  BY <1>a, <1>w, <1>2
<1>5. CASE WriteFlush(ms)
  <2>1. received' = (received \o wbuf) \o t /\ wbuf' = <<>> /\ flushed' = handled + 1
    BY <1>5 DEF WriteFlush, t
  <2>2. received' \in Seq(Tagged) /\ wbuf' \in Seq(Tagged) /\ Len(received) <= Len(received')
    BY <1>3, <1>4, <1>2, <1>a, <2>1
  <2>3. Wire' = received'
    BY <2>1, <2>2 DEF Wire
  <2> QED BY <2>1, <2>2, <2>3 DEF Wire, t
<1>6. ASSUME NEW spill \in 0 .. Len(wbuf) + Len(ms), Write(ms, spill)
      PROVE  /\ received' \in Seq(Tagged) /\ wbuf' \in Seq(Tagged) /\ Wire' = Wire \o Tag(ms)
             /\ Len(received) <= Len(received') /\ flushed' = flushed
  <2> DEFINE all == wbuf \o t
             a == SubSeq(all, 1, spill)
             b == SubSeq(all, spill + 1, Len(all))
  <2>1. received' = received \o a /\ wbuf' = b /\ flushed' = flushed
    BY <1>6 DEF Write, t
  <2>2. all \in Seq(Tagged) /\ spill \in 0 .. Len(all)
    BY <1>b, <1>3
  <2>3. a \in Seq(Tagged) /\ b \in Seq(Tagged) /\ a \o b = all /\ Len(a) = spill
    <3> HIDE DEF all
    <3> QED BY <2>2, Cut
  <2>t. a \in Seq(Tagged) /\ b \in Seq(Tagged)
    BY <2>3
  <2> HIDE DEF a, b
  <2>4. received' \in Seq(Tagged) /\ wbuf' \in Seq(Tagged) /\ Len(received) <= Len(received')
    <3>1. received \o a \in Seq(Tagged) /\ Len(received \o a) = Len(received) + Len(a)
      BY <1>t, <2>3, Joined
    <3> QED BY <1>3, <2>1, <2>3, <3>1
  <2>5. Wire' = (received \o wbuf) \o t
    <3>1. (received \o a) \o b = received \o (a \o b)
      <4> HIDE DEF all
      <4>1. received \in Seq(Tagged)
        BY <1>t
      <4>2. a \in Seq(Tagged)
        BY <2>t
      <4>3. b \in Seq(Tagged)
        BY <2>t
      <4> QED BY ONLY <4>1, <4>2, <4>3, Assoc
    <3>2. received \o (wbuf \o t) = (received \o wbuf) \o t
      <4>1. received \in Seq(Tagged)
        BY <1>t
      <4>2. wbuf \in Seq(Tagged)
        BY <1>t
      <4>3. t \in Seq(Tagged)
        BY <1>t
      <4> QED BY ONLY <4>1, <4>2, <4>3, Assoc
    <3> QED BY <2>1, <2>3, <3>1, <3>2 DEF Wire
  <2> QED BY <2>1, <2>4, <2>5 DEF Wire, t
<1> QED BY <1>5, <1>6 DEF Written

\* What a frame of each type carries.
LEMMA FrameShape ==
  ASSUME NEW f \in Frames
  PROVE  /\ f.t \in {"Parse", "Bind", "Execute"} => f.name \in Names
         /\ f.t = "Parse" => f.ref \in SQLs \cup {None}
         /\ f.t = "Bind" => f.ref \in Names \cup {None}
BY DEF Frames, Frame

\* The frame that is next is one.
LEMMA NextFrame == ASSUME TypeOK, handled < Len(asked) PROVE Next1 \in Frames
<1>1. asked \in Seq(Frames) /\ handled \in 0 .. Len(asked) /\ Len(asked) \in Nat
  BY DEF TypeOK
<1>2. handled + 1 \in 1 .. Len(asked)
  BY <1>1
<1> QED BY <1>1, <1>2 DEF Next1

\* Sequences of message types.
LEMMA Messages ==
  /\ <<>> \in Seq(MessageTypes)
  /\ \A x \in MessageTypes : <<x>> \in Seq(MessageTypes)
  /\ \A x, y \in MessageTypes : <<x, y>> \in Seq(MessageTypes)
  /\ \A x, y, z \in MessageTypes : <<x, y, z>> \in Seq(MessageTypes)
OBVIOUS

\* One message that ends the answer is a complete reply.
LEMMA OneMessage ==
  ASSUME NEW f, f.t \notin {"Query", "Sync"}, NEW m \in Ends(f), m # "Z"
  PROVE  Complete(f, <<m>>)
BY DEF Complete

\* What a statement writes ends with its only CommandComplete or error.
Ended(ms) ==
  /\ ms \in Seq(MessageTypes) /\ Len(ms) \in 1 .. 3
  /\ \A i \in 1 .. Len(ms) : ms[i] # "Z" /\ (ms[i] \in {"C", "E", "I"} <=> i = Len(ms))

\* The replies of a statement, with ReadyForQuery behind them or without.
LEMMA StatementReply ==
  ASSUME NEW f, NEW ms, Ended(ms)
  PROVE  /\ f.t = "Execute" => Complete(f, ms)
         /\ f.t = "Query" => Complete(f, ms \o <<"Z">>) /\ ms \o <<"Z">> \in Seq(MessageTypes)
<1> DEFINE z == <<"Z">>
           r == ms \o z
<1>1. ms \in Seq(MessageTypes) /\ z \in Seq(MessageTypes) /\ Len(z) = 1 /\ z[1] = "Z" /\ Len(ms) \in Nat
  BY DEF Ended, MessageTypes
<1>2. ASSUME f.t = "Execute" PROVE Complete(f, ms)
  <2>1. Ends(f) = {"C", "E", "I"} /\ f.t \notin {"Query", "Sync"}
    BY <1>2 DEF Ends
  <2>2. DOMAIN ms = 1 .. Len(ms) /\ Len(ms) >= 1
    BY <1>1 DEF Ended
  <2>3. \A i \in 1 .. Len(ms) : ms[i] # "Z" /\ (ms[i] \in Ends(f) <=> i = Len(ms))
    BY <2>1 DEF Ended
  <2>4. \A i \in 1 .. Len(ms) : ms[i] = "Z" <=> i > Len(ms)
    BY <1>1, <2>3
  <2>5. \A i \in 1 .. Len(ms) : ms[i] \in Ends(f) <=> i = Len(ms)
    BY <2>3
  <2>6. Ends(f) # {}
    BY <2>1
  <2>7. Len(ms) >= 0 /\ ~ (Len(ms) = 0)
    BY <1>1, <2>2
  <2> QED BY <2>1, <2>2, <2>4, <2>5, <2>6, <2>7 DEF Complete
<1>z. ms \in Seq(MessageTypes) /\ z \in Seq(MessageTypes)
  BY <1>1
<1> HIDE DEF z
<1>3. /\ r \in Seq(MessageTypes) /\ Len(r) = Len(ms) + Len(z)
      /\ (\A i \in 1 .. Len(ms) : r[i] = ms[i]) /\ \A i \in 1 .. Len(z) : r[Len(ms) + i] = z[i]
  BY ONLY <1>z, Joined
<1>4. Len(r) = Len(ms) + 1 /\ r[Len(ms) + 1] = "Z"
  BY <1>1, <1>3
<1> HIDE DEF r
<1>5. ASSUME f.t = "Query" PROVE Complete(f, r)
  <2>1. DOMAIN r = 1 .. Len(ms) + 1 /\ Len(r) - 1 = Len(ms)
    BY <1>1, <1>3, <1>4
  <2>2. \A i \in 1 .. Len(ms) + 1 : r[i] = "Z" <=> i > Len(ms)
    BY <1>1, <1>3, <1>4 DEF Ended
  <2>3. Ends(f) = {"C", "E", "I"}
    BY <1>5 DEF Ends
  <2>4. \A i \in 1 .. Len(ms) : r[i] \in Ends(f) <=> i = Len(ms)
    BY <1>3, <2>3 DEF Ended
  <2>5. Len(ms) >= 1
    BY DEF Ended
  <2> QED BY <1>1, <1>5, <2>1, <2>2, <2>3, <2>4, <2>5 DEF Complete
<1> QED BY <1>2, <1>3, <1>5 DEF r, z

\* What Handler.execute writes is one answer, or nothing where it leaves the error to its caller.
LEMMA StatementEnds ==
  /\ \A o \in Outcomes : ~o.err => Ended(o.ms)
  /\ \A o \in Outcomes : o.err => o.ms = <<>>
  /\ Ended(<<"E">>) /\ Ended(<<"I">>)
<1>1. {"T", "C", "E", "I"} \subseteq MessageTypes
  BY DEF MessageTypes
<1>2. Ended(<<"E">>) /\ Ended(<<"I">>)
  BY <1>1, Messages DEF Ended
<1>3. Ended(<<"T", "C">>) /\ Ended(<<"T", "E">>)
  BY <1>1, Messages DEF Ended
<1>4. Ended(<<"T", "T", "C">>)
  <2>1. <<"T", "T", "C">> \in Seq(MessageTypes)
    BY <1>1, Messages
  <2> QED BY <2>1 DEF Ended
<1>5. Ended(<<"T", "T", "E">>)
  <2>1. <<"T", "T", "E">> \in Seq(MessageTypes)
    BY <1>1, Messages
  <2> QED BY <2>1 DEF Ended
<1> QED BY <1>2, <1>3, <1>4, <1>5 DEF Outcomes

\* A Query is answered with its rows or an error, and ReadyForQuery.
LEMMA QueryReply == ASSUME TypeOK, OnQuery PROVE \E ms \in Seq(MessageTypes) : HandledWith(ms)
<1>1. /\ phase = "ready" /\ handled < Len(asked) /\ Next1.t = "Query" /\ handled' = handled + 1
      /\ UNCHANGED kept /\ UNCHANGED <<stmts, portals>>
  BY DEF OnQuery, Handling
<1>2. stmts' \in [Names -> SQLs \cup {None}] /\ portals' \in [Names -> SQLs \cup {None}]
  BY <1>1 DEF TypeOK
<1>4. ASSUME NEW ms, Ended(ms), WriteFlush(ms \o <<"Z">>) PROVE \E x \in Seq(MessageTypes) : HandledWith(x)
  <2>1. Complete(Next1, ms \o <<"Z">>) /\ ms \o <<"Z">> \in Seq(MessageTypes)
    BY <1>1, <1>4, StatementReply
  <2> QED BY <1>1, <1>2, <1>4, <2>1 DEF HandledWith, Written
<1>5. <<"I">> \o <<"Z">> = <<"I", "Z">> /\ <<>> \o <<"E", "Z">> = <<"E">> \o <<"Z">>
  <2>1. <<"I">> \o <<"Z">> = <<"I", "Z">>
    BY Pair
  <2>2. <<"E">> \o <<"Z">> = <<"E", "Z">>
    BY Pair
  <2>3. <<>> \o <<"E", "Z">> = <<"E", "Z">>
    OBVIOUS
  <2> QED BY <2>1, <2>2, <2>3
<1>6. \/ WriteFlush(<<"I", "Z">>)
      \/ \E o \in Outcomes : o.err /\ WriteFlush(o.ms \o <<"E", "Z">>)
      \/ \E o \in Outcomes : ~o.err /\ WriteFlush(o.ms \o <<"Z">>)
  BY DEF OnQuery
<1>7. CASE WriteFlush(<<"I", "Z">>)
  BY <1>4, <1>5, <1>7, StatementEnds
<1>8. CASE \E o \in Outcomes : o.err /\ WriteFlush(o.ms \o <<"E", "Z">>)
  BY <1>4, <1>5, <1>8, StatementEnds
<1>9. CASE \E o \in Outcomes : ~o.err /\ WriteFlush(o.ms \o <<"Z">>)
  BY <1>4, <1>9, StatementEnds
<1> QED BY <1>6, <1>7, <1>8, <1>9

\* Parse is answered with ParseComplete, kept in the buffer, or an error.
LEMMA ParseReply == ASSUME TypeOK, handleParse PROVE \E ms \in Seq(MessageTypes) : HandledWith(ms)
<1>1. /\ phase = "ready" /\ handled < Len(asked) /\ Next1.t = "Parse" /\ handled' = handled + 1
      /\ UNCHANGED kept /\ UNCHANGED portals
  BY DEF handleParse, Handling
<1>2. Next1.name \in Names /\ Next1.ref \in SQLs \cup {None}
  BY <1>1, NextFrame, FrameShape
<1>3. Complete(Next1, <<"1">>) /\ Complete(Next1, <<"E">>)
  BY <1>1, OneMessage DEF Ends
<1>4. stmts' \in [Names -> SQLs \cup {None}] /\ portals' \in [Names -> SQLs \cup {None}]
  BY <1>1, <1>2 DEF TypeOK, handleParse
<1>5. Write(<<"1">>, 0) \/ WriteFlush(<<"E">>)
  BY DEF handleParse
<1>6. <<"1">> \in Seq(MessageTypes) /\ <<"E">> \in Seq(MessageTypes) /\ 0 \in 0 .. Len(wbuf) + Len(<<"1">>)
  BY Messages DEF MessageTypes, TypeOK
<1>7. Written(<<"1">>) \/ Written(<<"E">>)
  BY <1>5, <1>6 DEF Written
<1> QED BY <1>1, <1>3, <1>4, <1>6, <1>7 DEF HandledWith

\* Bind is answered with BindComplete, kept in the buffer, or an error.
LEMMA BindReply == ASSUME TypeOK, handleBind PROVE \E ms \in Seq(MessageTypes) : HandledWith(ms)
<1>1. /\ phase = "ready" /\ handled < Len(asked) /\ Next1.t = "Bind" /\ handled' = handled + 1
      /\ UNCHANGED kept /\ UNCHANGED stmts
  BY DEF handleBind, Handling
<1>2. Next1.name \in Names /\ Next1.ref \in Names \cup {None}
  BY <1>1, NextFrame, FrameShape
<1>3. Complete(Next1, <<"2">>) /\ Complete(Next1, <<"E">>)
  BY <1>1, OneMessage DEF Ends
<1>4. stmts' \in [Names -> SQLs \cup {None}] /\ portals' \in [Names -> SQLs \cup {None}]
  BY <1>1, <1>2 DEF TypeOK, handleBind
<1>5. Write(<<"2">>, 0) \/ WriteFlush(<<"E">>)
  BY DEF handleBind
<1>6. <<"2">> \in Seq(MessageTypes) /\ <<"E">> \in Seq(MessageTypes) /\ 0 \in 0 .. Len(wbuf) + Len(<<"2">>)
  BY Messages DEF MessageTypes, TypeOK
<1>7. Written(<<"2">>) \/ Written(<<"E">>)
  BY <1>5, <1>6 DEF Written
<1> QED BY <1>1, <1>3, <1>4, <1>6, <1>7 DEF HandledWith

\* Execute is answered with the rows of the portal, which may stay in the buffer or spill, or an error.
LEMMA ExecuteReply == ASSUME TypeOK, handleExecute PROVE \E ms \in Seq(MessageTypes) : HandledWith(ms)
<1>1. /\ phase = "ready" /\ handled < Len(asked) /\ Next1.t = "Execute" /\ handled' = handled + 1
      /\ UNCHANGED kept /\ UNCHANGED <<stmts, portals>>
  BY DEF handleExecute, Handling
<1>2. stmts' \in [Names -> SQLs \cup {None}] /\ portals' \in [Names -> SQLs \cup {None}]
  BY <1>1 DEF TypeOK
<1>3. ASSUME NEW ms, Ended(ms), Written(ms) PROVE \E x \in Seq(MessageTypes) : HandledWith(x)
  <2>1. ms \in Seq(MessageTypes) /\ Complete(Next1, ms)
    BY <1>1, <1>3, StatementReply DEF Ended
  <2> QED BY <1>1, <1>2, <1>3, <2>1 DEF HandledWith
<1>4. ASSUME NEW ms, Ended(ms), NEW spill \in {0, Len(wbuf) + Len(ms) - 1}, Write(ms, spill)
      PROVE  Written(ms)
  <2>1. Len(ms) \in 1 .. 3 /\ Len(wbuf) \in Nat
    BY <1>4 DEF Ended, TypeOK
  <2>2. spill \in 0 .. Len(wbuf) + Len(ms)
    <3>1. spill = 0 \/ spill = Len(wbuf) + Len(ms) - 1
      BY <1>4
    <3> QED BY <2>1, <3>1
  <2> QED BY <1>4, <2>2 DEF Written
<1>5. <<>> \o <<"E">> = <<"E">>
  OBVIOUS
<1>6. \/ WriteFlush(<<"E">>)
      \/ \E o \in Outcomes : o.err /\ WriteFlush(o.ms \o <<"E">>)
      \/ \E o \in Outcomes : ~o.err /\ \E spill \in {0, Len(wbuf) + Len(o.ms) - 1} : Write(o.ms, spill)
  BY DEF handleExecute
<1>7. CASE WriteFlush(<<"E">>)
  BY <1>3, <1>7, StatementEnds DEF Written
<1>8. CASE \E o \in Outcomes : o.err /\ WriteFlush(o.ms \o <<"E">>)
  BY <1>5, <1>7, <1>8, StatementEnds
<1>9. CASE \E o \in Outcomes : ~o.err /\ \E spill \in {0, Len(wbuf) + Len(o.ms) - 1} : Write(o.ms, spill)
  <2>1. PICK o \in Outcomes : ~o.err /\ \E spill \in {0, Len(wbuf) + Len(o.ms) - 1} : Write(o.ms, spill)
    BY <1>9
  <2>2. Ended(o.ms)
    BY <2>1, StatementEnds
  <2> QED BY <1>3, <1>4, <2>1, <2>2
<1> QED BY <1>6, <1>7, <1>8, <1>9

\* The other frames are answered with what the protocol has for them, or not at all.
LEMMA OtherReply ==
  ASSUME TypeOK, handleDescribe \/ OnSync \/ OnClose \/ OnFlush \/ Unhandled
  PROVE  \E ms \in Seq(MessageTypes) : HandledWith(ms)
<1>0. stmts \in [Names -> SQLs \cup {None}] /\ portals \in [Names -> SQLs \cup {None}] /\ Len(wbuf) \in Nat
  BY DEF TypeOK
<1>1. ASSUME NEW t, Handling(t), UNCHANGED <<kept, stmts, portals>>, NEW ms \in Seq(MessageTypes),
             Complete(Next1, ms), WriteFlush(ms) \/ Write(ms, 0)
      PROVE  \E x \in Seq(MessageTypes) : HandledWith(x)
  <2>1. 0 \in 0 .. Len(wbuf) + Len(ms)
    BY <1>0
  <2>2. Written(ms)
    BY <1>1, <2>1 DEF Written
  <2> QED BY <1>0, <1>1, <2>2 DEF HandledWith, Handling
<1>2. ASSUME handleDescribe PROVE \E x \in Seq(MessageTypes) : HandledWith(x)
  <2>1. Next1.t = "Describe"
    BY <1>2 DEF handleDescribe, Handling
  <2>2. Complete(Next1, <<"n">>) /\ Complete(Next1, <<"E">>)
    BY <2>1, OneMessage DEF Ends
  <2>3. Complete(Next1, <<"t", "n">>)
    BY <2>1 DEF Complete, Ends
  <2>4. <<"n">> \in Seq(MessageTypes) /\ <<"E">> \in Seq(MessageTypes) /\ <<"t", "n">> \in Seq(MessageTypes)
    BY Messages DEF MessageTypes
  <2>5. WriteFlush(<<"n">>) \/ WriteFlush(<<"E">>) \/ WriteFlush(<<"t", "n">>)
    BY <1>2 DEF handleDescribe
  <2> QED BY <1>1, <1>2, <2>2, <2>3, <2>4, <2>5 DEF handleDescribe
<1>3. ASSUME OnSync PROVE \E x \in Seq(MessageTypes) : HandledWith(x)
  <2>1. Complete(Next1, <<"Z">>) /\ <<"Z">> \in Seq(MessageTypes)
    BY <1>3, Messages DEF OnSync, Handling, Complete, Ends, MessageTypes
  <2> QED BY <1>1, <1>3, <2>1 DEF OnSync
<1>4. ASSUME OnClose PROVE \E x \in Seq(MessageTypes) : HandledWith(x)
  <2>1. Complete(Next1, <<"3">>) /\ <<"3">> \in Seq(MessageTypes)
    BY <1>4, Messages, OneMessage DEF OnClose, Handling, Ends, MessageTypes
  <2> QED BY <1>1, <1>4, <2>1 DEF OnClose
<1>5. ASSUME OnFlush \/ Unhandled PROVE \E x \in Seq(MessageTypes) : HandledWith(x)
  <2>1. Complete(Next1, <<>>) /\ <<>> \in Seq(MessageTypes)
    BY <1>5, Messages DEF OnFlush, Unhandled, Handling, Complete, Ends
  <2> QED BY <1>1, <1>5, <2>1 DEF OnFlush, Unhandled
<1> QED BY <1>2, <1>3, <1>4, <1>5

-----------------------------------------------------------------------------
(* The steps.                                                               *)

\* Where nothing is handled or sent to the client, its replies stay as they are.
LEMMA RepliesKept ==
  ASSUME UNCHANGED <<received, flushed>>
  PROVE  [i \in 1 .. flushed |-> ReplyTo(i)]' = [i \in 1 .. flushed |-> ReplyTo(i)]
BY DEF ReplyTo

\* A frame handled with a complete reply: the invariant stays, and the client gets replies it can put together,
\* of this frame and the ones whose replies were in the buffer, or none.
LEMMA HandledStep ==
  ASSUME IInv, NEW ms \in Seq(MessageTypes), HandledWith(ms)
  PROVE  IInv' /\ [Replies!Next]_(Replies!vars)
<1>1. /\ phase = "ready" /\ handled < Len(asked) /\ handled' = handled + 1 /\ Complete(Next1, ms) /\ Written(ms)
      /\ UNCHANGED <<tls, database, identity, phase, asked>>
      /\ stmts' \in [Names -> SQLs \cup {None}] /\ portals' \in [Names -> SQLs \cup {None}]
  BY DEF HandledWith, kept, session
<1>2. TypeOK /\ AuthInv
  BY DEF IInv
<1>3. /\ received \in Seq(Tagged) /\ wbuf \in Seq(Tagged) /\ Len(asked) \in Nat /\ Len(asked) <= MaxFrames
      /\ handled \in Nat /\ handled + 1 \in 1 .. MaxFrames /\ handled + 1 <= Len(asked) /\ flushed \in 0 .. handled
  BY <1>1, <1>2, FramesAssumption DEF TypeOK
<1>4. /\ received' \in Seq(Tagged) /\ wbuf' \in Seq(Tagged) /\ Wire' = Wire \o Tag(ms)
      /\ Len(received) <= Len(received')
      /\ flushed' = flushed \/ (flushed' = handled + 1 /\ Len(received') = Len(Wire'))
  BY <1>1, <1>2, WireGrows
<1>5. /\ Tag(ms) \in Seq(Tagged) /\ Len(Tag(ms)) = Len(ms)
      /\ \A i \in 1 .. Len(ms) : Tag(ms)[i].m = ms[i] /\ Tag(ms)[i].of = handled + 1
  BY <1>3, TagTyped
<1>6. PICK pos : Framed(pos, Wire, handled, asked) /\ pos[flushed] <= Len(received)
  BY DEF IInv, FramingInv
<1>7. /\ Wire \in Seq(Tagged) /\ Len(received) <= Len(Wire) /\ \A j \in 1 .. Len(received) : received[j] = Wire[j]
      /\ Len(received) \in Nat /\ Len(Wire) \in Nat
  <2>1. received \in Seq(Tagged) /\ wbuf \in Seq(Tagged)
    BY <1>3
  <2> QED BY ONLY <2>1, Joined DEF Wire
<1>8. /\ Wire' \in Seq(Tagged) /\ Len(received') <= Len(Wire') /\ \A j \in 1 .. Len(received') : received'[j] = Wire'[j]
      /\ Len(received') \in Nat
  <2> DEFINE a == received'
             b == wbuf'
  <2>1. a \in Seq(Tagged) /\ b \in Seq(Tagged) /\ Wire' = a \o b
    BY <1>4 DEF Wire
  <2> HIDE DEF a, b
  <2>2. Len(a) <= Len(a \o b) /\ a \o b \in Seq(Tagged) /\ (\A j \in 1 .. Len(a) : a[j] = (a \o b)[j]) /\ Len(a) \in Nat
    BY <2>1, Joined
  <2> QED BY <2>1, <2>2 DEF a
<1>9. PICK p : /\ Framed(p, Wire', handled + 1, asked) /\ p[handled + 1] = Len(Wire')
               /\ \A i \in 0 .. handled : p[i] = pos[i]
               /\ \A i \in 1 .. handled : Block(p, Wire', i) = Block(pos, Wire, i)
  <2> DEFINE n == handled
             more == Tag(ms)
             log == Wire
  <2>1. log \in Seq(Tagged) /\ n \in Nat /\ Framed(pos, log, n, asked) /\ Complete(asked[n + 1], ms)
    BY <1>1, <1>3, <1>6, <1>7 DEF Next1
  <2>2. TaggedAs(more, ms, n + 1)
    BY <1>5 DEF TaggedAs
  <2> HIDE DEF n, more, log
  <2>3. \E q : /\ Framed(q, log \o more, n + 1, asked) /\ q[n + 1] = Len(log \o more)
               /\ \A i \in 0 .. n : q[i] = pos[i]
               /\ \A i \in 1 .. n : Block(q, log \o more, i) = Block(pos, log, i)
    BY <2>1, <2>2, ReplyFramed
  <2>4. Wire' = log \o more
    BY <1>4 DEF log, more
  <2> QED BY <2>3, <2>4 DEF n, log
<1>10. flushed' \in 0 .. handled + 1 /\ p[flushed'] <= Len(received') /\ flushed <= flushed'
  <2>1. CASE flushed' = flushed
    <3>1. p[flushed] = pos[flushed] /\ pos[flushed] \in 0 .. Len(Wire)
      BY <1>3, <1>6, <1>9 DEF Framed
    <3> QED BY <1>3, <1>4, <1>6, <1>7, <1>8, <2>1, <3>1
  <2>2. CASE flushed' = handled + 1 /\ Len(received') = Len(Wire')
    BY <1>3, <1>8, <1>9, <2>2
  <2> QED BY <1>4, <2>1, <2>2
<1>11. TypeOK'
  <2>1. handled' \in 0 .. Len(asked') /\ flushed' \in 0 .. handled'
    BY <1>1, <1>3, <1>10
  <2> QED BY <1>1, <1>2, <1>4, <2>1 DEF TypeOK
<1>12. AuthInv'
  BY <1>1, <1>2 DEF AuthInv
<1>13. FramingInv'
  <2>1. Framed(p, Wire', handled', asked') /\ p[flushed'] <= Len(received')
    BY <1>1, <1>9, <1>10
  <2> QED BY <2>1 DEF FramingInv
<1>14. [Replies!Next]_(Replies!vars)
  <2> DEFINE old == [i \in 1 .. flushed |-> ReplyTo(i)]
             new == [i \in 1 .. flushed' |-> ReplyOf(received', i)]
  <2>1. [i \in 1 .. flushed |-> ReplyTo(i)]' = new
    BY DEF ReplyTo, ReplyOf
  <2>2. ASSUME NEW i \in 1 .. flushed PROVE old[i] = Block(pos, Wire, i)
    <3>1. ReplyTo(i) = ReplyOf(received, i)
      BY DEF ReplyTo, ReplyOf
    <3> DEFINE rec == received
               log == Wire
               n == handled
               f == flushed
    <3>2. rec \in Seq(Tagged) /\ log \in Seq(Tagged) /\ n \in Nat /\ Framed(pos, log, n, asked) /\ f \in 0 .. n
          /\ pos[f] <= Len(rec) /\ Len(rec) <= Len(log) /\ (\A j \in 1 .. Len(rec) : rec[j] = log[j]) /\ i \in 1 .. f
      BY <1>3, <1>6, <1>7
    <3> HIDE DEF rec, log, n, f
    <3>3. ReplyOf(rec, i) = Block(pos, log, i)
      BY <3>2, ReplyIsBlock
    <3> QED BY <3>1, <3>3 DEF rec, log
  <2>3. ASSUME NEW i \in 1 .. flushed' PROVE new[i] = Block(p, Wire', i)
    <3> DEFINE rec == received'
               log == Wire'
               n == handled + 1
               f == flushed'
    <3>2. rec \in Seq(Tagged) /\ log \in Seq(Tagged) /\ n \in Nat /\ Framed(p, log, n, asked) /\ f \in 0 .. n
          /\ p[f] <= Len(rec) /\ Len(rec) <= Len(log) /\ (\A j \in 1 .. Len(rec) : rec[j] = log[j]) /\ i \in 1 .. f
      BY <1>3, <1>4, <1>8, <1>9, <1>10
    <3> HIDE DEF rec, log, n, f
    <3>3. ReplyOf(rec, i) = Block(p, log, i)
      BY <3>2, ReplyIsBlock
    <3> QED BY <3>3 DEF rec, log
  <2>4. ASSUME NEW i \in 1 .. flushed' PROVE Complete(asked[i], new[i])
    <3>1. i \in 1 .. handled + 1
      BY <1>3, <1>10
    <3>2. Complete(asked[i], Block(p, Wire', i))
      BY <1>9, <3>1 DEF Framed, Block
    <3> QED BY <2>3, <3>2
  <2>5. \A i \in 1 .. flushed : old[i] = new[i]
    <3> SUFFICES ASSUME NEW i \in 1 .. flushed PROVE old[i] = new[i]
      OBVIOUS
    <3>1. i \in 1 .. handled /\ i \in 1 .. flushed'
      BY <1>3, <1>10
    <3> HIDE DEF old, new
    <3> QED BY <1>9, <2>2, <2>3, <3>1
  <2>6. Len(old) = flushed /\ Len(new) = flushed' /\ SubSeq(new, 1, flushed) = old
    <3> DEFINE a == flushed
               b == flushed'
               S == {new[i] : i \in 1 .. flushed'}
    <3>1. a \in Nat /\ b \in Nat /\ a <= b
      BY <1>3, <1>10
    <3>2. new \in [1 .. b -> S]
      OBVIOUS
    <3>3. old \in [1 .. a -> S]
      <4>1. \A i \in 1 .. a : old[i] \in S
        <5>1. ASSUME NEW i \in 1 .. a PROVE old[i] \in S
          <6> HIDE DEF old, new
          <6>1. i \in 1 .. flushed'
            BY <3>1
          <6>2. old[i] = new[i]
            BY <2>5
          <6> QED BY <6>1, <6>2
        <5> QED BY <5>1
      <4>2. old = [i \in 1 .. a |-> old[i]]
        OBVIOUS
      <4> HIDE DEF S, old, new
      <4> QED BY <4>1, <4>2
    <3>4. \A i \in 1 .. a : old[i] = new[i]
      BY <2>5
    <3> HIDE DEF a, b, S, old, new
    <3>5. Len(old) = a /\ Len(new) = b /\ SubSeq(new, 1, a) = old
      BY <3>1, <3>2, <3>3, <3>4, Prefix
    <3> QED BY <3>5 DEF a, b
  <2>7. CASE flushed' = flushed
    <3>1. new = old
      BY <2>5, <2>7
    <3> QED BY <1>1, <2>1, <3>1 DEF Replies!vars
  <2>8. CASE flushed' # flushed
    <3>1. flushed < flushed' /\ flushed' <= Len(asked)
      BY <1>3, <1>10, <2>8
    <3>2. \A i \in flushed + 1 .. flushed' : Complete(asked[i], new[i])
      <4>1. \A i \in flushed + 1 .. flushed' : i \in 1 .. flushed'
        BY <1>3
      <4> HIDE DEF new
      <4> QED BY <2>4, <4>1
    <3> HIDE DEF new
    <3>3. Replies!Reply
      BY <1>1, <2>1, <2>6, <3>1, <3>2 DEF Replies!Reply
    <3> QED BY <3>3 DEF Replies!Next
  <2> QED BY <2>7, <2>8
<1> QED BY <1>11, <1>12, <1>13, <1>14 DEF IInv

\* Initially nothing was asked or written.
LEMMA SessionInitial == Init => IInv /\ Replies!Init
<1> SUFFICES ASSUME Init PROVE IInv /\ Replies!Init
  OBVIOUS
<1>1. /\ phase = "startup" /\ tls = FALSE /\ database = None /\ identity = None /\ asked = <<>> /\ handled = 0
      /\ wbuf = <<>> /\ received = <<>> /\ flushed = 0
      /\ stmts \in [Names -> SQLs \cup {None}] /\ portals \in [Names -> SQLs \cup {None}]
  BY DEF Init
<1>2. TypeOK
  <2>1. asked \in Seq(Frames) /\ Len(asked) = 0 /\ wbuf \in Seq(Tagged) /\ received \in Seq(Tagged)
    <3>1. ASSUME NEW S PROVE <<>> \in Seq(S) /\ Len(<<>>) = 0
      OBVIOUS
    <3> QED BY <1>1, <3>1
  <2>2. handled \in 0 .. Len(asked) /\ flushed \in 0 .. handled /\ Len(asked) <= MaxFrames
    BY <1>1, <2>1, FramesAssumption
  <2> QED BY <1>1, <2>1, <2>2 DEF TypeOK
<1>3. AuthInv
  BY <1>1 DEF AuthInv
<1>4. FramingInv
  <2> DEFINE pos == [i \in 0 .. 0 |-> 0]
  <2>1. Wire = <<>> /\ Len(Wire) = 0 /\ Len(received) = 0
    BY <1>1 DEF Wire
  <2>2. pos \in [0 .. 0 -> 0 .. 0] /\ pos[0] = 0
    OBVIOUS
  <2> HIDE DEF pos
  <2>3. Framed(pos, Wire, handled, asked)
    BY <1>1, <2>1, <2>2 DEF Framed
  <2>4. pos[flushed] <= Len(received)
    BY <1>1, <2>1, <2>2
  <2> QED BY <2>3, <2>4 DEF FramingInv
<1>5. Replies!Init
  <2>1. [i \in 1 .. flushed |-> ReplyTo(i)] = <<>>
    BY <1>1
  <2> QED BY <1>1, <2>1 DEF Replies!Init
<1> QED BY <1>2, <1>3, <1>4, <1>5 DEF IInv

\* The startup and the end of a session leave the loop's variables.
LEMMA LoopKept ==
  ASSUME IInv, UNCHANGED loop
  PROVE  /\ FramingInv' /\ UNCHANGED <<asked, handled>>
         /\ (tls' \in BOOLEAN /\ phase' \in {"startup", "password", "ready", "closed"}
               /\ {identity', database'} \subseteq Databases \cup {None}) => TypeOK'
         /\ [i \in 1 .. flushed |-> ReplyTo(i)]' = [i \in 1 .. flushed |-> ReplyTo(i)]
<1>1. UNCHANGED <<asked, handled, stmts, portals, wbuf, received, flushed>>
  BY DEF loop
<1>2. FramingInv'
  BY <1>1 DEF IInv, FramingInv, Wire
<1>3. ASSUME tls' \in BOOLEAN, phase' \in {"startup", "password", "ready", "closed"},
             {identity', database'} \subseteq Databases \cup {None}
      PROVE  TypeOK'
  BY <1>1, <1>3 DEF IInv, TypeOK
<1>4. [i \in 1 .. flushed |-> ReplyTo(i)]' = [i \in 1 .. flushed |-> ReplyTo(i)]
  BY <1>1, RepliesKept
<1> QED BY <1>1, <1>2, <1>3, <1>4

\* Every step keeps the invariant and is one of RequestReply, or changes nothing the client sees.
LEMMA SessionStep == IInv /\ [Next]_vars => IInv' /\ [Replies!Next]_(Replies!vars)
<1> SUFFICES ASSUME IInv, [Next]_vars PROVE IInv' /\ [Replies!Next]_(Replies!vars)
  OBVIOUS
<1>0. TypeOK /\ AuthInv /\ FramingInv
  BY DEF IInv
<1>t. tls \in BOOLEAN /\ phase \in {"startup", "password", "ready", "closed"}
      /\ {identity, database} \subseteq Databases \cup {None}
  BY <1>0 DEF TypeOK
<1>1. ASSUME UNCHANGED <<loop, phase, database, identity>>, tls' \in BOOLEAN
      PROVE  IInv' /\ [Replies!Next]_(Replies!vars)
  <2>1. AuthInv'
    BY <1>0, <1>1, LoopKept DEF AuthInv
  <2>2. TypeOK' /\ FramingInv'
    BY <1>t, <1>1, LoopKept
  <2>3. UNCHANGED Replies!vars
    BY <1>1, LoopKept DEF Replies!vars
  <2> QED BY <2>1, <2>2, <2>3 DEF IInv
<1>2. CASE SSLRequest
  BY <1>1, <1>2, ServerAssumption DEF SSLRequest
<1>3. ASSUME NEW db \in Databases, Startup(db) PROVE IInv' /\ [Replies!Next]_(Replies!vars)
  <2>1. phase = "startup" /\ phase' = (IF Server.auth THEN "password" ELSE "ready") /\ database' = db
        /\ identity' = (IF Server.auth THEN None ELSE db) /\ tls' = tls /\ UNCHANGED loop
    BY <1>3 DEF Startup
  <2>2. asked = <<>> /\ handled = 0
    BY <1>0, <2>1 DEF AuthInv
  <2>3. TypeOK' /\ FramingInv' /\ asked' = asked /\ handled' = handled
    <3>1. phase' \in {"startup", "password", "ready", "closed"} /\ {identity', database'} \subseteq Databases \cup {None}
      BY <2>1
    <3> QED BY <1>t, <2>1, <3>1, LoopKept
  <2>4. AuthInv'
    BY <2>1, <2>2, <2>3 DEF AuthInv
  <2>5. CASE Server.auth
    <3>1. UNCHANGED Replies!vars
      BY <2>1, <2>3, <2>5, LoopKept DEF Replies!vars
    <3> QED BY <2>3, <2>4, <3>1 DEF IInv
  <2>6. CASE ~Server.auth
    <3>1. Replies!Connect
      BY <2>1, <2>2, <2>3, <2>6, LoopKept DEF Replies!Connect
    <3> QED BY <2>3, <2>4, <3>1 DEF IInv, Replies!Next
  <2> QED BY <2>5, <2>6
<1>4. ASSUME NEW key \in Keys \cup {None}, Password(key) PROVE IInv' /\ [Replies!Next]_(Replies!vars)
  <2>1. phase = "password" /\ tls' = tls /\ database' = database /\ UNCHANGED loop
        /\ \/ (Authenticates(key, database) /\ phase' = "ready" /\ identity' = <<LookupAPIKey(key), database[2]>>)
           \/ (phase' = "closed" /\ identity' = identity)
    BY <1>4 DEF Password
  <2>2. asked = <<>> /\ handled = 0 /\ database \in Databases
    BY <1>0, <2>1 DEF AuthInv
  <2>3. CASE Authenticates(key, database) /\ phase' = "ready" /\ identity' = <<LookupAPIKey(key), database[2]>>
    <3>1. database[2] \in Warehouses /\ LookupAPIKey(key) # None /\ LookupAPIKey(key) = database[1]
      BY <2>3 DEF Authenticates
    <3>2. key \in Keys /\ KeyOwner[key] = database[1]
      BY <3>1 DEF LookupAPIKey
    <3>3. identity' = database
      BY <2>2, <2>3, <3>1, DatabasesAssumption
    <3>4. TypeOK' /\ FramingInv' /\ asked' = asked /\ handled' = handled
      BY <1>t, <2>1, <2>3, <3>3, LoopKept
    <3>5. AuthInv'
      BY <2>1, <2>2, <2>3, <3>1, <3>2, <3>3, <3>4 DEF AuthInv
    <3>6. Replies!Connect
      BY <2>1, <2>2, <2>3, <3>4, LoopKept DEF Replies!Connect
    <3> QED BY <3>4, <3>5, <3>6 DEF IInv, Replies!Next
  <2>4. CASE phase' = "closed" /\ identity' = identity
    <3>1. TypeOK' /\ FramingInv' /\ asked' = asked /\ handled' = handled
      BY <1>t, <2>1, <2>4, LoopKept
    <3>2. AuthInv'
      BY <2>2, <2>4, <3>1 DEF AuthInv
    <3>3. UNCHANGED Replies!vars
      BY <2>1, <2>4, <3>1, LoopKept DEF Replies!vars
    <3> QED BY <3>1, <3>2, <3>3 DEF IInv
  <2> QED BY <2>1, <2>3, <2>4
<1>5. ASSUME NEW f \in Frames, Send(f) PROVE IInv' /\ [Replies!Next]_(Replies!vars)
  <2>1. phase = "ready" /\ Len(asked) < MaxFrames /\ asked' = Append(asked, f)
        /\ UNCHANGED <<tls, database, identity, phase, handled, stmts, portals, wbuf, received, flushed>>
    BY <1>5 DEF Send, session
  <2>2. asked \in Seq(Frames) /\ handled \in 0 .. Len(asked) /\ Len(asked) \in Nat
    BY <1>0 DEF TypeOK
  <2>3. /\ asked' \in Seq(Frames) /\ Len(asked') = Len(asked) + 1
        /\ \A i \in 1 .. handled : asked'[i] = asked[i]
    BY <2>1, <2>2
  <2>4. TypeOK'
    <3>1. Len(asked') <= MaxFrames /\ handled' \in 0 .. Len(asked') /\ flushed' \in 0 .. handled'
      BY <1>0, <2>1, <2>2, <2>3, FramesAssumption DEF TypeOK
    <3> QED BY <1>0, <2>1, <2>3, <3>1 DEF TypeOK
  <2>5. AuthInv'
    BY <1>0, <2>1 DEF AuthInv
  <2>6. FramingInv'
    <3>1. PICK pos : Framed(pos, Wire, handled, asked) /\ pos[flushed] <= Len(received)
      BY <1>0 DEF FramingInv
    <3>2. Framed(pos, Wire, handled, asked')
      <4> DEFINE n == handled
                 log == Wire
      <4>1. n \in Nat /\ Framed(pos, log, n, asked) /\ \A i \in 1 .. n : asked'[i] = asked[i]
        BY <2>2, <2>3, <3>1
      <4> HIDE DEF n, log
      <4>2. Framed(pos, log, n, asked')
        BY <4>1, AskFramed
      <4> QED BY <4>2 DEF n, log
    <3> QED BY <2>1, <3>1, <3>2 DEF FramingInv, Wire
  <2>7. Replies!Ask
    <3>1. [i \in 1 .. flushed |-> ReplyTo(i)]' = [i \in 1 .. flushed |-> ReplyTo(i)]
      BY <2>1, RepliesKept
    <3> QED BY <2>1, <3>1 DEF Replies!Ask
  <2> QED BY <2>4, <2>5, <2>6, <2>7 DEF IInv, Replies!Next
<1>6. ASSUME phase' = "closed", phase # "closed", UNCHANGED <<session, loop>>
      PROVE  IInv' /\ [Replies!Next]_(Replies!vars)
  <2>1. TypeOK' /\ FramingInv' /\ asked' = asked /\ handled' = handled
    BY <1>t, <1>6, LoopKept DEF session
  <2>2. AuthInv'
    BY <1>0, <1>6, <2>1 DEF AuthInv, session
  <2>3. CASE phase = "ready"
    <3>1. Replies!Close
      BY <1>6, <2>1, <2>3, LoopKept DEF Replies!Close
    <3> QED BY <2>1, <2>2, <3>1 DEF IInv, Replies!Next
  <2>4. CASE phase # "ready"
    <3>1. UNCHANGED Replies!vars
      BY <1>6, <2>1, <2>4, LoopKept DEF Replies!vars
    <3> QED BY <2>1, <2>2, <3>1 DEF IInv
  <2> QED BY <2>3, <2>4
<1>7. CASE RunQueryLoop
  <2>1. CASE Terminate
    BY <1>6, <2>1 DEF Terminate
  <2>2. CASE \E ms \in Seq(MessageTypes) : HandledWith(ms)
    BY <2>2, HandledStep
  <2>3. Terminate \/ \E ms \in Seq(MessageTypes) : HandledWith(ms)
    BY <1>0, <1>7, QueryReply, ParseReply, BindReply, ExecuteReply, OtherReply DEF RunQueryLoop
  <2> QED BY <2>1, <2>2, <2>3
<1>8. CASE Disconnect
  BY <1>6, <1>8 DEF Disconnect
<1>9. CASE UNCHANGED vars
  <2>1. UNCHANGED <<loop, phase, database, identity>> /\ tls' \in BOOLEAN
    BY <1>t, <1>9 DEF vars, session, loop
  <2> QED BY <1>1, <2>1
<1> QED BY <1>2, <1>3, <1>4, <1>5, <1>7, <1>8, <1>9 DEF Next

-----------------------------------------------------------------------------
(* The theorems.                                                            *)

\* The invariant holds throughout a session.
THEOREM SessionInvariance == Spec => []IInv
BY SessionInitial, SessionStep, PTL DEF Spec

\* The session's maps, buffer and counters keep their types.
THEOREM SessionTypeCorrect == Spec => []TypeOK
<1>1. IInv => TypeOK
  BY DEF IInv
<1> QED BY <1>1, SessionInvariance, PTL

\* handleSession: where an Authenticator is configured, a frame is handled only in a session of the customer
\* and warehouse its startup message named, opened with a key of that customer.
THEOREM FramesOfKeyOwner == Spec => []HandledForKeyOwner
<1>1. IInv => HandledForKeyOwner
  BY DEF IInv, AuthInv, HandledForKeyOwner
<1> QED BY <1>1, SessionInvariance, PTL

\* runQueryLoop implements the safety part of RequestReply: whatever the client pipelines, wherever the buffer
\* is flushed or spills, it receives the replies in the order of its frames, each whole and legal.
THEOREM RepliesInOrder == Spec => Replies!Init /\ [][Replies!Next]_(Replies!vars)
BY SessionInitial, SessionStep, SessionInvariance, PTL DEF Spec

=============================================================================
