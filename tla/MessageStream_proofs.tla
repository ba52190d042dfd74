------------------------ MODULE MessageStream_proofs ------------------------
(***************************************************************************)
(* Theorems about MessageStream, for any handlers, peers, known senders    *)
(* and messages.                                                           *)
(***************************************************************************)
EXTENDS MessageStream, SequenceTheorems, FiniteSetTheorems, TLAPS

(* The messages a handler still has for its client. *)
Msgs(s) ==
  {s.outbound[i] : i \in DOMAIN s.outbound}
    \cup {m \in {s.response} : "Write" \in s.ops}

(* What writing, reading on and closing leave alone. *)
Same(s, t) ==
  /\ t.phase = s.phase /\ t.request = s.request
  /\ "Accept" \in t.ops <=> "Accept" \in s.ops

(* A stream on which no message has been read holds nothing but the Read.  *)
Unread(s) ==
  s.phase = "Streaming" /\ s.request = NoMsg =>
    /\ ~s.wp /\ s.pending \in {"Read", "Finish"}
    /\ s.pending = "Read" => s.ops \subseteq {"Read"}

-----------------------------------------------------------------------------
(* The functions on one handler's fields: what they return and what they   *)
(* keep.                                                                   *)
LEMMA IssueLemma ==
  ASSUME NEW s \in SessionType, NEW op \in Ops
  PROVE  /\ Issue(s, op) \in SessionType
         /\ Issue(s, op).ops = s.ops \cup {op}
         /\ Issue(s, op).outbound = s.outbound /\ Issue(s, op).response = s.response
         /\ Issue(s, op).phase = s.phase
         /\ Issue(s, op).request = s.request /\ Issue(s, op).pending = s.pending
         /\ Issue(s, op).wp = s.wp /\ Issue(s, op).peer = s.peer
<1>1. CASE op \in s.ops
  <2>1. Issue(s, op) = [s EXCEPT !.ub = "sameOpTwice"]
    BY <1>1 DEF Issue
  <2>2. "sameOpTwice" \in {"none", "sameOpTwice", "popOfEmpty", "destroyedInUse"}
    OBVIOUS
  <2>3. Issue(s, op) \in SessionType
    BY <2>1, <2>2, Zenon DEF SessionType
  <2>4. /\ Issue(s, op).ops = s.ops
        /\ Issue(s, op).outbound = s.outbound /\ Issue(s, op).response = s.response
        /\ Issue(s, op).phase = s.phase
        /\ Issue(s, op).request = s.request /\ Issue(s, op).pending = s.pending
        /\ Issue(s, op).wp = s.wp /\ Issue(s, op).peer = s.peer
    BY <2>1, Zenon DEF SessionType
  <2> QED
    BY <1>1, <2>3, <2>4
<1>2. CASE op \notin s.ops
  <2>1. Issue(s, op) = [s EXCEPT !.ops = s.ops \cup {op}]
    BY <1>2 DEF Issue
  <2>2. s.ops \cup {op} \in SUBSET Ops
    BY DEF SessionType
  <2>3. Issue(s, op) \in SessionType
    BY <2>1, <2>2, Zenon DEF SessionType
  <2>4. /\ Issue(s, op).ops = s.ops \cup {op}
        /\ Issue(s, op).outbound = s.outbound /\ Issue(s, op).response = s.response
        /\ Issue(s, op).phase = s.phase
        /\ Issue(s, op).request = s.request /\ Issue(s, op).pending = s.pending
        /\ Issue(s, op).wp = s.wp /\ Issue(s, op).peer = s.peer
    BY <2>1, Zenon DEF SessionType
  <2> QED
    BY <2>3, <2>4
<1> QED
  BY <1>1, <1>2

LEMMA ReadNextLemma ==
  ASSUME NEW s \in SessionType
  PROVE  /\ ReadNext(s) \in SessionType /\ Same(s, ReadNext(s))
         /\ Msgs(ReadNext(s)) = Msgs(s) /\ ReadNext(s).wp = s.wp
         /\ ReadNext(s).pending = "Read" /\ ReadNext(s).ops = s.ops \cup {"Read"}
<1> DEFINE t == [s EXCEPT !.pending = "Read"]
<1>1. t \in SessionType
  <2>1. "Read" \in {"Read", "Write", "Finish"}
    OBVIOUS
  <2> QED
    BY <2>1, Zenon DEF SessionType
<1>2. /\ t.phase = s.phase /\ t.request = s.request /\ t.outbound = s.outbound
      /\ t.response = s.response /\ t.ops = s.ops /\ t.wp = s.wp /\ t.pending = "Read"
  BY Zenon DEF SessionType
<1>3. ReadNext(s) = Issue(t, "Read") /\ "Read" \in Ops
  BY DEF ReadNext, Ops
<1> HIDE DEF t
<1> QED
  BY <1>1, <1>2, <1>3, IssueLemma DEF Same, Msgs

LEMMA FinishOpLemma ==
  ASSUME NEW s \in SessionType
  PROVE  /\ FinishOp(s) \in SessionType /\ Same(s, FinishOp(s))
         /\ Msgs(FinishOp(s)) = Msgs(s) /\ FinishOp(s).wp = s.wp
         /\ FinishOp(s).pending = "Finish"
<1> DEFINE t == [s EXCEPT !.pending = "Finish"]
<1>1. t \in SessionType
  <2>1. "Finish" \in {"Read", "Write", "Finish"}
    OBVIOUS
  <2> QED
    BY <2>1, Zenon DEF SessionType
<1>2. /\ t.phase = s.phase /\ t.request = s.request /\ t.outbound = s.outbound
      /\ t.response = s.response /\ t.ops = s.ops /\ t.wp = s.wp /\ t.pending = "Finish"
  BY Zenon DEF SessionType
<1>3. FinishOp(s) = Issue(t, "Finish") /\ "Finish" \in Ops
  BY DEF FinishOp, Ops
<1> HIDE DEF t
<1> QED
  BY <1>1, <1>2, <1>3, IssueLemma DEF Same, Msgs

(* enqueue_outgoing: the message is the only one that is added, and what   *)
(* is written is the first of the queue.                                   *)
LEMMA EnqueueLemma ==
  ASSUME NEW s \in SessionType, NEW m \in Messages
  PROVE  /\ Enqueue(s, m) \in SessionType /\ Same(s, Enqueue(s, m))
         /\ Msgs(Enqueue(s, m)) \subseteq Msgs(s) \cup {m}
<1> DEFINE o == Append(s.outbound, m)
           q == [s EXCEPT !.outbound = Append(@, m)]
           t == [q EXCEPT !.response = Head(q.outbound), !.wp = TRUE, !.pending = "Write"]
<1>1. /\ o \in Seq(Messages) /\ Head(o) \in Messages \cup {NoMsg}
      /\ \A i \in DOMAIN o : o[i] \in {s.outbound[j] : j \in DOMAIN s.outbound} \cup {m}
      /\ 1 \in DOMAIN o /\ Head(o) = o[1]
  <2>1. s.outbound \in Seq(Messages)
    BY DEF SessionType
  <2> QED
    BY <2>1
<1>2. q = [s EXCEPT !.outbound = o]
  BY Zenon DEF SessionType
<1>3. q \in SessionType
  BY <1>1, <1>2, Zenon DEF SessionType
<1>4. /\ q.phase = s.phase /\ q.request = s.request /\ q.outbound = o
      /\ q.response = s.response /\ q.ops = s.ops
  BY <1>2, Zenon DEF SessionType
<1>5. CASE s.wp
  <2>1. Enqueue(s, m) = q
    BY <1>5 DEF Enqueue
  <2> HIDE DEF q, o
  <2> QED
    BY <1>1, <1>3, <1>4, <2>1 DEF Same, Msgs
<1>6. CASE ~s.wp
  <2>1. Enqueue(s, m) = Issue(t, "Write") /\ "Write" \in Ops
    BY <1>6 DEF Enqueue, Ops
  <2>2. t = [q EXCEPT !.response = Head(o), !.wp = TRUE, !.pending = "Write"]
    BY <1>4
  <2> HIDE DEF q, o
  <2>3. "Write" \in {"Read", "Write", "Finish"} /\ TRUE \in BOOLEAN
    OBVIOUS
  <2>4. t \in SessionType
    BY <1>1, <1>3, <2>2, <2>3, Zenon DEF SessionType
  <2>5. /\ t.phase = q.phase /\ t.request = q.request /\ t.outbound = q.outbound
        /\ t.response = Head(o) /\ t.ops = q.ops
    BY <1>3, <2>2, Zenon DEF SessionType
  <2> HIDE DEF t
  <2>6. /\ Enqueue(s, m) \in SessionType
        /\ Enqueue(s, m).ops = s.ops \cup {"Write"} /\ Enqueue(s, m).outbound = o
        /\ Enqueue(s, m).response = Head(o)
        /\ Enqueue(s, m).phase = s.phase /\ Enqueue(s, m).request = s.request
    BY <1>4, <2>1, <2>4, <2>5, IssueLemma
  <2> QED
    BY <1>1, <2>6 DEF Same, Msgs
<1> QED
  BY <1>5, <1>6

(* begin_shutdown_after_read_closed *)
LEMMA ReadClosedLemma ==
  ASSUME NEW s \in SessionType
  PROVE  /\ ReadClosed(s) \in SessionType /\ Same(s, ReadClosed(s))
         /\ Msgs(ReadClosed(s)) \subseteq Msgs(s)
         /\ ~s.wp => ReadClosed(s).pending = "Finish" /\ ~ReadClosed(s).wp
<1> DEFINE q == [s EXCEPT !.active = FALSE, !.peer = NoPeer, !.outbound = <<>>,
                          !.closing = s.wp]
<1>1. /\ FALSE \in BOOLEAN /\ s.wp \in BOOLEAN /\ <<>> \in Seq(Messages)
      /\ NoPeer \in Peers \cup {NoPeer}
  BY DEF SessionType
<1>2. q \in SessionType
  BY <1>1, Zenon DEF SessionType
<1>3. /\ q.phase = s.phase /\ q.request = s.request /\ q.outbound = <<>>
      /\ q.response = s.response /\ q.ops = s.ops /\ q.wp = s.wp
  BY Zenon DEF SessionType
<1>4. ReadClosed(s) = IF s.wp THEN q ELSE FinishOp(q)
  BY DEF ReadClosed
<1> HIDE DEF q
<1>5. Same(s, q) /\ Msgs(q) \subseteq Msgs(s)
  BY <1>3 DEF Same, Msgs
<1>6. CASE s.wp
  BY <1>2, <1>4, <1>5, <1>6
<1>7. CASE ~s.wp
  BY <1>2, <1>3, <1>4, <1>5, <1>7, FinishOpLemma DEF Same
<1> QED
  BY <1>6, <1>7

(* shutdown_with_status *)
LEMMA RejectLemma ==
  ASSUME NEW s \in SessionType
  PROVE  /\ Reject(s) \in SessionType /\ Same(s, Reject(s))
         /\ Msgs(Reject(s)) \subseteq Msgs(s)
         /\ Reject(s).pending = "Finish" /\ ~Reject(s).wp
<1> DEFINE q == [s EXCEPT !.active = FALSE, !.peer = NoPeer, !.outbound = <<>>,
                          !.wp = FALSE, !.closing = FALSE]
<1>1. FALSE \in BOOLEAN /\ <<>> \in Seq(Messages) /\ NoPeer \in Peers \cup {NoPeer}
  OBVIOUS
<1>2. q \in SessionType
  BY <1>1, Zenon DEF SessionType
<1>3. /\ q.phase = s.phase /\ q.request = s.request /\ q.outbound = <<>>
      /\ q.response = s.response /\ q.ops = s.ops /\ q.wp = FALSE
  BY Zenon DEF SessionType
<1>4. Reject(s) = FinishOp(q)
  BY DEF Reject
<1> HIDE DEF q
<1>5. Same(s, q) /\ Msgs(q) \subseteq Msgs(s)
  BY <1>3 DEF Same, Msgs
<1> QED
  BY <1>2, <1>3, <1>4, <1>5, FinishOpLemma DEF Same

(* handle_write_completion *)
LEMMA DrainedLemma ==
  ASSUME NEW s \in SessionType
  PROVE  /\ Drained(s) \in SessionType /\ Same(s, Drained(s))
         /\ Msgs(Drained(s)) \subseteq Msgs(s)
<1> DEFINE q == [s EXCEPT !.outbound = <<>>, !.wp = FALSE, !.closing = FALSE]
<1>1. FALSE \in BOOLEAN /\ <<>> \in Seq(Messages)
  OBVIOUS
<1>2. q \in SessionType
  BY <1>1, Zenon DEF SessionType
<1>3. /\ q.phase = s.phase /\ q.request = s.request /\ q.outbound = <<>>
      /\ q.response = s.response /\ q.ops = s.ops
  BY Zenon DEF SessionType
<1>4. Drained(s) = IF s.closing THEN FinishOp(q) ELSE q
  BY DEF Drained
<1> HIDE DEF q
<1>5. Same(s, q) /\ Msgs(q) \subseteq Msgs(s)
  BY <1>3 DEF Same, Msgs
<1>6. CASE s.closing
  BY <1>2, <1>4, <1>5, <1>6, FinishOpLemma DEF Same
<1>7. CASE ~s.closing
  BY <1>2, <1>4, <1>5, <1>7
<1> QED
  BY <1>6, <1>7

LEMMA WrittenLemma ==
  ASSUME NEW s \in SessionType, NEW ok \in BOOLEAN
  PROVE  /\ Written(s, ok) \in SessionType /\ Same(s, Written(s, ok))
         /\ Msgs(Written(s, ok)) \subseteq Msgs(s)
<1> DEFINE rest == Tail(s.outbound)
           u == [s EXCEPT !.ub = "popOfEmpty"]
           t == [s EXCEPT !.outbound = rest, !.response = Head(rest), !.pending = "Write"]
<1>1. CASE ~ok \/ (s.outbound # <<>> /\ rest = <<>>)
  <2>1. Written(s, ok) = Drained(s)
    BY <1>1 DEF Written
  <2> QED
    BY <2>1, DrainedLemma
<1>2. CASE ok /\ s.outbound = <<>>
  <2>1. Written(s, ok) = u
    BY <1>2 DEF Written
  <2>2. "popOfEmpty" \in {"none", "sameOpTwice", "popOfEmpty", "destroyedInUse"}
    OBVIOUS
  <2>3. u \in SessionType
    BY <2>2, Zenon DEF SessionType
  <2>4. /\ u.phase = s.phase /\ u.request = s.request /\ u.outbound = s.outbound
        /\ u.response = s.response /\ u.ops = s.ops
    BY Zenon DEF SessionType
  <2> HIDE DEF u
  <2> QED
    BY <2>1, <2>3, <2>4 DEF Same, Msgs
<1>3. CASE ok /\ s.outbound # <<>> /\ rest # <<>>
  <2>1. Written(s, ok) = Issue(t, "Write") /\ "Write" \in Ops
    BY <1>3 DEF Written, Ops
  <2>2. /\ rest \in Seq(Messages) /\ Head(rest) \in Messages \cup {NoMsg}
        /\ \A i \in DOMAIN rest : rest[i] \in {s.outbound[j] : j \in DOMAIN s.outbound}
        /\ 1 \in DOMAIN rest /\ Head(rest) = rest[1]
    <3>1. s.outbound \in Seq(Messages)
      BY DEF SessionType
    <3> QED
      BY <1>3, <3>1
  <2> HIDE DEF rest
  <2>3. "Write" \in {"Read", "Write", "Finish"}
    OBVIOUS
  <2>4. t \in SessionType
    BY <2>2, <2>3, Zenon DEF SessionType
  <2>5. /\ t.phase = s.phase /\ t.request = s.request /\ t.outbound = rest
        /\ t.response = Head(rest) /\ t.ops = s.ops
    BY Zenon DEF SessionType
  <2> HIDE DEF t
  <2>6. /\ Written(s, ok) \in SessionType
        /\ Written(s, ok).ops = s.ops \cup {"Write"} /\ Written(s, ok).outbound = rest
        /\ Written(s, ok).response = Head(rest)
        /\ Written(s, ok).phase = s.phase /\ Written(s, ok).request = s.request
    BY <2>1, <2>4, <2>5, IssueLemma
  <2> QED
    BY <2>2, <2>6 DEF Same, Msgs
<1> HIDE DEF rest, t, u
<1> QED
  BY <1>1, <1>2, <1>3

(* What gRPC's completion leaves of the handler's fields. *)
LEMMA CompletedLemma ==
  ASSUME TypeOK, NEW h \in Handlers, NEW op \in Ops, NEW ok \in BOOLEAN,
         op = "Read" /\ ok => inbox[h] # <<>>
  PROVE  LET c == Completed(h, op, ok)
         IN  /\ c \in SessionType /\ c.ops = sess[h].ops \ {op}
             /\ c.request = IF op = "Read" /\ ok THEN Head(inbox[h]) ELSE sess[h].request
             /\ op = "Read" /\ ok => c.request \in Messages
             /\ c.phase = sess[h].phase /\ c.pending = sess[h].pending /\ c.wp = sess[h].wp
             /\ Msgs(c) \subseteq Msgs(sess[h])
<1> DEFINE r == IF op = "Read" /\ ok THEN Head(inbox[h]) ELSE sess[h].request
           o == sess[h].ops \ {op}
           c == [sess[h] EXCEPT !.ops = o, !.request = r]
<1>1. sess[h] \in SessionType /\ inbox[h] \in Seq(Messages)
  BY DEF TypeOK
<1>2. op = "Read" /\ ok => r \in Messages
  BY <1>1
<1>3. r \in Messages \cup {NoMsg} /\ o \in SUBSET Ops
  BY <1>1, <1>2 DEF SessionType
<1>4. Completed(h, op, ok) = c
  BY <1>1, Zenon DEF Completed, SessionType
<1> HIDE DEF o, r
<1>5. c \in SessionType
  BY <1>1, <1>3, Zenon DEF SessionType
<1>6. /\ c.phase = sess[h].phase /\ c.pending = sess[h].pending /\ c.wp = sess[h].wp
      /\ c.request = r /\ c.ops = o /\ c.outbound = sess[h].outbound
      /\ c.response = sess[h].response
  BY <1>1, Zenon DEF SessionType
<1> HIDE DEF c
<1>7. Msgs(c) \subseteq Msgs(sess[h])
  BY <1>6 DEF Msgs, o
<1> QED
  BY <1>2, <1>4, <1>5, <1>6, <1>7 DEF r, o

(* route_to_recipient: the message is queued on the stream registered for  *)
(* its recipient, or nowhere.                                              *)
LEMMA RouteLemma ==
  ASSUME NEW S \in [Handlers -> SessionType],
         NEW R \in [Peers -> Handlers \cup {NoHandler}],
         NEW m \in Messages, m.rcpt # Self, NEW v
  PROVE  LET D == Route(S, R, m, v)
         IN  /\ D.s \in [Handlers -> SessionType]
             /\ D.r \in [Peers -> Handlers \cup {NoHandler}]
             /\ \A x \in Handlers :
                  \/ D.s[x] = S[x]
                  \/ R[m.rcpt] = x /\ Same(S[x], D.s[x]) /\ Msgs(D.s[x]) \subseteq Msgs(S[x]) \cup {m}
             /\ \A p \in Peers : D.r[p] \in {R[p], NoHandler}
<1>1. m.rcpt \in Peers /\ NoHandler \notin Handlers
  BY PeersAssumption, MessagesAssumption
<1> DEFINE g == R[m.rcpt]
<1>2. CASE ~v \/ g = NoHandler
  <2>1. Route(S, R, m, v) = [s |-> S, r |-> R]
    BY <1>2 DEF Route
  <2> QED
    BY <2>1
<1>3. CASE v /\ g # NoHandler /\ ~S[g].active
  <2>1. Route(S, R, m, v) = [s |-> S, r |-> [R EXCEPT ![m.rcpt] = NoHandler]]
    BY <1>3 DEF Route
  <2> QED
    BY <1>1, <2>1
<1>4. CASE v /\ g # NoHandler /\ S[g].active
  <2>1. g \in Handlers
    BY <1>1, <1>4
  <2>2. Route(S, R, m, v) = [s |-> [S EXCEPT ![g] = Enqueue(S[g], m)], r |-> R]
    BY <1>4 DEF Route
  <2>3. /\ Enqueue(S[g], m) \in SessionType /\ Same(S[g], Enqueue(S[g], m))
        /\ Msgs(Enqueue(S[g], m)) \subseteq Msgs(S[g]) \cup {m}
    BY <2>1, EnqueueLemma
  <2> HIDE DEF g
  <2>4. \A x \in Handlers : [S EXCEPT ![g] = Enqueue(S[g], m)][x] =
                              IF x = g THEN Enqueue(S[g], m) ELSE S[x]
    BY <2>1
  <2> QED
    BY <2>1, <2>2, <2>3, <2>4 DEF g
<1> QED
  BY <1>2, <1>3, <1>4

(* register_session and dispatch_signed_message_recipient: the handler is  *)
(* registered for the sender, and the message is queued on it or on the    *)
(* stream registered for the recipient.                                    *)
(* The handler x is the one m is for, when it came on h's stream. *)
Receives(R, h, m, x) ==
  (x = h /\ m.rcpt \in {Self, m.sender}) \/ (m.rcpt # Self /\ R[m.rcpt] = x)

(* What dispatching m, that came on h's stream, leaves of S and R. *)
Dispatched(S, R, h, m, D) ==
  /\ D.s \in [Handlers -> SessionType]
  /\ D.r \in [Peers -> Handlers \cup {NoHandler}]
  /\ \A x \in Handlers :
       /\ Same(S[x], D.s[x])
       /\ Msgs(D.s[x]) \subseteq Msgs(S[x]) \cup {m}
       /\ D.s[x] = S[x] \/ x = h \/ Receives(R, h, m, x)
       /\ Msgs(D.s[x]) \subseteq Msgs(S[x]) \/ Receives(R, h, m, x)
  /\ \A p \in Peers : D.r[p] \in {R[p], NoHandler} \/ (p = m.sender /\ D.r[p] = h)

LEMMA DispatchLemma ==
  ASSUME NEW S \in [Handlers -> SessionType],
         NEW R \in [Peers -> Handlers \cup {NoHandler}],
         NEW h \in Handlers, NEW m \in Messages, NEW v,
         NEW D, D = Dispatch(S, R, h, m, v)
  PROVE  Dispatched(S, R, h, m, D)
<1> DEFINE s1 == [S[h] EXCEPT !.peer = m.sender]
           S1 == [S EXCEPT ![h] = s1]
           R1 == [R EXCEPT ![m.sender] = h]
<1>1. m.sender \in Peers /\ S[h] \in SessionType
  BY MessagesAssumption
<1>2. s1 \in SessionType
  <2>1. m.sender \in Peers \cup {NoPeer}
    BY <1>1
  <2> QED
    BY <1>1, <2>1, Zenon DEF SessionType
<1>3. Same(S[h], s1) /\ Msgs(s1) = Msgs(S[h])
  <2>1. /\ s1.phase = S[h].phase /\ s1.request = S[h].request /\ s1.ops = S[h].ops
        /\ s1.outbound = S[h].outbound /\ s1.response = S[h].response
    BY <1>1, Zenon DEF SessionType
  <2> HIDE DEF s1
  <2> QED
    BY <2>1 DEF Same, Msgs
<1>4. [S EXCEPT ![h].peer = m.sender] = S1
  BY Zenon
<1>5. Dispatch(S, R, h, m, v) =
        IF m.rcpt = Self THEN [s |-> [S1 EXCEPT ![h] = Enqueue(S1[h], m)], r |-> R1]
        ELSE Route(S1, R1, m, v)
  BY <1>4, Zenon DEF Dispatch
<1> HIDE DEF s1
<1>6. /\ S1 \in [Handlers -> SessionType] /\ R1 \in [Peers -> Handlers \cup {NoHandler}]
      /\ S1[h] = s1 /\ \A x \in Handlers : x # h => S1[x] = S[x]
      /\ \A p \in Peers : R1[p] = IF p = m.sender THEN h ELSE R[p]
  BY <1>1, <1>2
<1> HIDE DEF S1, R1
<1>7. \A x \in Handlers : Same(S[x], S1[x]) /\ Msgs(S1[x]) = Msgs(S[x])
  BY <1>3, <1>6 DEF Same
<1>8. CASE m.rcpt = Self
  <2>1. /\ Enqueue(s1, m) \in SessionType /\ Same(s1, Enqueue(s1, m))
        /\ Msgs(Enqueue(s1, m)) \subseteq Msgs(s1) \cup {m}
    BY <1>2, EnqueueLemma
  <2>2. /\ [S1 EXCEPT ![h] = Enqueue(S1[h], m)] \in [Handlers -> SessionType]
        /\ \A x \in Handlers : [S1 EXCEPT ![h] = Enqueue(S1[h], m)][x] =
                                 IF x = h THEN Enqueue(s1, m) ELSE S[x]
    BY <1>6, <2>1
  <2>3. D = [s |-> [S1 EXCEPT ![h] = Enqueue(S1[h], m)], r |-> R1]
    BY <1>5, <1>8
  <2> QED
    BY <1>3, <1>6, <1>8, <2>1, <2>2, <2>3 DEF Same, Receives, Dispatched
<1>9. CASE m.rcpt # Self
  <2>1. D = Route(S1, R1, m, v)
    BY <1>5, <1>9
  <2>2. /\ D.s \in [Handlers -> SessionType]
        /\ D.r \in [Peers -> Handlers \cup {NoHandler}]
        /\ \A x \in Handlers :
             \/ D.s[x] = S1[x]
             \/ R1[m.rcpt] = x /\ Same(S1[x], D.s[x]) /\ Msgs(D.s[x]) \subseteq Msgs(S1[x]) \cup {m}
        /\ \A p \in Peers : D.r[p] \in {R1[p], NoHandler}
    <3> DEFINE Q == Route(S1, R1, m, v)
    <3>1. /\ Q.s \in [Handlers -> SessionType]
          /\ Q.r \in [Peers -> Handlers \cup {NoHandler}]
          /\ \A x \in Handlers :
               \/ Q.s[x] = S1[x]
               \/ /\ R1[m.rcpt] = x /\ Same(S1[x], Q.s[x])
                  /\ Msgs(Q.s[x]) \subseteq Msgs(S1[x]) \cup {m}
          /\ \A p \in Peers : Q.r[p] \in {R1[p], NoHandler}
      BY <1>6, <1>9, RouteLemma
    <3>2. D = Q
      BY <2>1
    <3> QED
      BY <3>1, <3>2
  <2>3. m.rcpt \in Peers
    BY <1>9, MessagesAssumption
  <2>4. \A x \in Handlers :
          /\ Same(S[x], D.s[x])
          /\ Msgs(D.s[x]) \subseteq Msgs(S[x]) \cup {m}
          /\ D.s[x] = S[x] \/ x = h \/ Receives(R, h, m, x)
          /\ Msgs(D.s[x]) \subseteq Msgs(S[x]) \/ Receives(R, h, m, x)
    BY <1>6, <1>7, <1>9, <2>2, <2>3 DEF Same, Receives
  <2> QED
    BY <1>6, <2>2, <2>4 DEF Dispatched
<1> QED
  BY <1>8, <1>9

-----------------------------------------------------------------------------
(* Before its stream is connected a handler has requested an RPC, and      *)
(* nothing else has.                                                       *)
AcceptInv ==
  \A h \in Handlers :
    /\ "Accept" \in sess[h].ops => sess[h].phase = "Accepted"
    /\ sess[h].phase = "Accepted" =>
         sess[h].ops = {"Accept"} /\ Msgs(sess[h]) = {} /\ ~sess[h].wp

OneInv ==
  serverUp =>
    /\ \E h \in Handlers : "Accept" \in sess[h].ops
    /\ \A g, h \in Handlers : "Accept" \in sess[g].ops /\ "Accept" \in sess[h].ops => g = h

(* A peer is registered with a stream on which it was authenticated.       *)
RegistryInv ==
  \A p \in Peers, h \in Handlers : registry[p] = h =>
    sess[h].phase = "Streaming" /\ sess[h].request # NoMsg /\ p \in authed[h]

MsgsInv ==
  \A h \in Handlers : \A m \in Msgs(sess[h]) : m \in Genuine /\ Addressee(h, m)

UnreadInv == \A h \in Handlers : Unread(sess[h])

IInv == TypeOK /\ AcceptInv /\ OneInv /\ RegistryInv /\ MsgsInv /\ UnreadInv

LEMMA FreeLemma ==
  /\ Free \in SessionType /\ Free.phase = "free" /\ Free.ops = {} /\ Msgs(Free) = {}
  /\ Acceptor \in SessionType /\ Acceptor.phase = "Accepted" /\ Acceptor.ops = {"Accept"}
  /\ Msgs(Acceptor) = {} /\ ~Acceptor.wp
<1>1. /\ Free \in SessionType /\ Free.phase = "free" /\ Free.ops = {} /\ Msgs(Free) = {}
  BY DEF Free, SessionType, Ops, Msgs
<1>2. "Accepted" \in {"free", "Accepted", "Streaming"} /\ {"Accept"} \in SUBSET Ops
  BY DEF Ops
<1>3. Acceptor \in SessionType
  BY <1>1, <1>2, Zenon DEF Acceptor, SessionType
<1>4. /\ Acceptor.phase = "Accepted" /\ Acceptor.ops = {"Accept"}
      /\ Acceptor.outbound = Free.outbound /\ Acceptor.wp = Free.wp
  BY <1>1, Zenon DEF Acceptor, SessionType
<1>5. Free.outbound = <<>> /\ ~Free.wp
  BY DEF Free
<1>6. Msgs(Acceptor) = {}
  BY <1>4, <1>5 DEF Msgs
<1> QED
  BY <1>1, <1>3, <1>4, <1>5, <1>6

LEMMA InitInv == Init => IInv
<1> SUFFICES ASSUME Init PROVE IInv
  OBVIOUS
<1>1. PICK first \in Handlers : sess = [h \in Handlers |-> IF h = first THEN Acceptor ELSE Free]
  BY DEF Init
<1>2. /\ registry = [p \in Peers |-> NoHandler] /\ serverUp = TRUE
      /\ client = [h \in Handlers |-> "none"] /\ inbox = [h \in Handlers |-> <<>>]
      /\ sent = 0 /\ authed = [h \in Handlers |-> {}]
      /\ delivered = [h \in Handlers |-> FALSE]
  BY DEF Init
<1>3. TypeOK
  BY <1>1, <1>2, FreeLemma DEF TypeOK
<1>4. AcceptInv /\ OneInv
  BY <1>1, FreeLemma DEF AcceptInv, OneInv
<1>5. RegistryInv /\ MsgsInv /\ UnreadInv
  BY <1>1, <1>2, FreeLemma, PeersAssumption DEF RegistryInv, MsgsInv, UnreadInv, Unread
<1> QED
  BY <1>3, <1>4, <1>5 DEF IInv

(* The end of a process call: handlers that nothing holds are destroyed.   *)
(* What the fields and the registry satisfy when process returns, they     *)
(* still satisfy then.                                                     *)
LEMMA ReapedLemma ==
  ASSUME NEW S \in [Handlers -> SessionType],
         NEW R \in [Peers -> Handlers \cup {NoHandler}]
  PROVE  /\ Reaped(S, R) \in [Handlers -> SessionType]
         /\ \A x \in Handlers :
              \/ Reaped(S, R)[x] = S[x]
              \/ /\ \A p \in Peers : R[p] # x
                 /\ ~S[x].ref
                 /\ \/ Reaped(S, R)[x] = Free /\ S[x].ops = {}
                    \/ /\ S[x].ops # {} /\ Same(S[x], Reaped(S, R)[x])
                       /\ Reaped(S, R)[x].ops = S[x].ops /\ Reaped(S, R)[x].wp = S[x].wp
                       /\ Reaped(S, R)[x].pending = S[x].pending
                       /\ Msgs(Reaped(S, R)[x]) = Msgs(S[x])
<1> DEFINE u(x) == [S[x] EXCEPT !.ub = "destroyedInUse"]
<1>1. \A x \in Handlers : Reaped(S, R)[x] =
        IF S[x].phase = "free" \/ Held(S, R, x) THEN S[x]
        ELSE IF S[x].ops = {} THEN Free ELSE u(x)
  BY Zenon DEF Reaped
<1>2. \A x \in Handlers : u(x) \in SessionType
  <2> TAKE x \in Handlers
  <2>1. "destroyedInUse" \in {"none", "sameOpTwice", "popOfEmpty", "destroyedInUse"}
    OBVIOUS
  <2>2. S[x] \in SessionType
    OBVIOUS
  <2> QED
    BY <2>1, <2>2, Zenon DEF SessionType
<1>3. \A x \in Handlers :
        /\ u(x).phase = S[x].phase /\ u(x).request = S[x].request /\ u(x).ops = S[x].ops
        /\ u(x).outbound = S[x].outbound /\ u(x).response = S[x].response
        /\ u(x).wp = S[x].wp /\ u(x).pending = S[x].pending
  <2> TAKE x \in Handlers
  <2>1. S[x] \in SessionType
    OBVIOUS
  <2> QED
    BY <2>1, Zenon DEF SessionType
<1> HIDE DEF u
<1>4. Reaped(S, R) = [x \in Handlers |-> Reaped(S, R)[x]]
  BY DEF Reaped
<1>5. \A x \in Handlers : Reaped(S, R)[x] \in SessionType
  BY <1>1, <1>2, FreeLemma
<1>6. Reaped(S, R) \in [Handlers -> SessionType]
  BY <1>4, <1>5
<1>7. \A x \in Handlers : Same(S[x], u(x)) /\ Msgs(u(x)) = Msgs(S[x])
  BY <1>3 DEF Same, Msgs
<1> QED
  BY <1>1, <1>3, <1>6, <1>7 DEF Held

(* What the handlers' fields S, the registry R and the authenticated       *)
(* senders A satisfy when process is about to return.                      *)
Sound(S, R, A) ==
  /\ \A x \in Handlers :
       /\ "Accept" \in S[x].ops => S[x].phase = "Accepted"
       /\ S[x].phase = "Accepted" =>
            /\ Msgs(S[x]) = {} /\ ~S[x].wp
            /\ S[x].ops = {"Accept"} \/ (S[x].ops = {} /\ ~S[x].ref)
  /\ serverUp =>
       /\ \E x \in Handlers : "Accept" \in S[x].ops
       /\ \A x, y \in Handlers : "Accept" \in S[x].ops /\ "Accept" \in S[y].ops => x = y
  /\ \A p \in Peers, x \in Handlers : R[p] = x =>
       S[x].phase = "Streaming" /\ S[x].request # NoMsg /\ p \in A[x]
  /\ \A x \in Handlers : \A m \in Msgs(S[x]) :
       m \in Genuine /\ IF m.rcpt = Self THEN m.sender \in A[x] ELSE m.rcpt \in A[x]
  /\ \A x \in Handlers : Unread(S[x])

LEMMA ReturnLemma ==
  ASSUME IInv, NEW h \in Handlers, NEW op \in Ops, NEW ok \in BOOLEAN,
         op = "Read" /\ ok => inbox[h] # <<>>,
         NEW S \in [Handlers -> SessionType],
         NEW R \in [Peers -> Handlers \cup {NoHandler}],
         Return(h, op, ok, S, R),
         authed' \in [Handlers -> SUBSET Peers], delivered' \in [Handlers -> BOOLEAN],
         Sound(S, R, authed')
  PROVE  IInv'
<1> DEFINE T == Reaped(S, R)
           gone == {x \in Handlers : sess[x].phase # "free" /\ T[x].phase = "free"}
<1>1. /\ sess' = T /\ registry' = R /\ UNCHANGED <<serverUp, sent>>
      /\ client' = [x \in Handlers |->
           IF x \in gone THEN "none"
           ELSE IF x = h /\ op = "Accept" THEN "open" ELSE client[x]]
      /\ inbox' = [x \in Handlers |->
           IF x \in gone THEN <<>>
           ELSE IF x = h /\ op = "Read" /\ ok THEN Tail(inbox[x]) ELSE inbox[x]]
  BY Zenon DEF Return
<1>2. /\ T \in [Handlers -> SessionType]
      /\ \A x \in Handlers :
           \/ T[x] = S[x]
           \/ /\ \A p \in Peers : R[p] # x
              /\ ~S[x].ref
              /\ \/ T[x] = Free /\ S[x].ops = {}
                 \/ /\ S[x].ops # {} /\ Same(S[x], T[x])
                    /\ T[x].ops = S[x].ops /\ T[x].wp = S[x].wp
                    /\ T[x].pending = S[x].pending /\ Msgs(T[x]) = Msgs(S[x])
  BY ReapedLemma
<1> HIDE DEF T, gone
<1>3. TypeOK'
  <2>1. client' \in [Handlers -> {"none", "open", "halfClosed", "broken"}]
    BY <1>1 DEF IInv, TypeOK
  <2>2. inbox' \in [Handlers -> Seq(Messages)]
    BY <1>1 DEF IInv, TypeOK
  <2> QED
    BY <1>1, <1>2, <2>1, <2>2 DEF IInv, TypeOK
<1>4. \A x \in Handlers : "Accept" \in T[x].ops <=> "Accept" \in S[x].ops
  BY <1>2, FreeLemma
<1>5. OneInv'
  BY <1>1, <1>4 DEF OneInv, Sound
<1>6. AcceptInv'
  <2> SUFFICES ASSUME NEW x \in Handlers
               PROVE  /\ "Accept" \in T[x].ops => T[x].phase = "Accepted"
                      /\ T[x].phase = "Accepted" =>
                           T[x].ops = {"Accept"} /\ Msgs(T[x]) = {} /\ ~T[x].wp
    BY <1>1 DEF AcceptInv
  <2>1. T[x] = Free => T[x].phase # "Accepted"
    BY FreeLemma
  <2>2. S[x].ops = {} /\ ~S[x].ref /\ S[x].phase = "Accepted" => T[x] = Free
    <3> SUFFICES ASSUME S[x].ops = {}, ~S[x].ref, S[x].phase = "Accepted"
                 PROVE  T[x] = Free
      OBVIOUS
    <3>1. ~Held(S, R, x)
      BY DEF Held, Sound
    <3> QED
      BY <3>1 DEF T, Reaped
  <2> QED
    BY <1>2, <1>4, <2>1, <2>2 DEF Same, Sound
<1>7. RegistryInv'
  BY <1>1, <1>2 DEF RegistryInv, Sound
<1>8. MsgsInv'
  <2>1. \A x \in Handlers : Msgs(T[x]) \subseteq Msgs(S[x])
    BY <1>2, FreeLemma
  <2> QED
    BY <1>1, <2>1 DEF MsgsInv, Addressee, Sound
<1>9. UnreadInv'
  <2>1. \A x \in Handlers : Unread(T[x])
    BY <1>2, FreeLemma DEF Unread, Same, Sound
  <2> QED
    BY <1>1, <2>1 DEF UnreadInv
<1> QED
  BY <1>3, <1>5, <1>6, <1>7, <1>8, <1>9 DEF IInv

(* A step of one stream that adds nothing to what its client is written    *)
(* and registers nothing.                                                  *)
LEMMA OwnStep ==
  ASSUME IInv, NEW h \in Handlers, NEW op \in Ops, NEW ok \in BOOLEAN, Delivers(h, op, ok),
         sess[h].phase = "Streaming",
         NEW t \in SessionType, t.phase = "Streaming", "Accept" \notin t.ops,
         Msgs(t) \subseteq Msgs(sess[h]), Unread(t),
         t.request = NoMsg => sess[h].request = NoMsg,
         NEW R \in [Peers -> Handlers \cup {NoHandler}],
         \A p \in Peers : R[p] \in {registry[p], NoHandler},
         Return(h, op, ok, [sess EXCEPT ![h] = t], R),
         UNCHANGED <<authed, delivered>>
  PROVE  IInv'
<1> DEFINE S == [sess EXCEPT ![h] = t]
<1>1. /\ S \in [Handlers -> SessionType] /\ S[h] = t
      /\ \A x \in Handlers : x # h => S[x] = sess[x]
  BY DEF IInv, TypeOK
<1>2. "Accept" \notin sess[h].ops
  BY DEF IInv, AcceptInv
<1>3. Return(h, op, ok, S, R)
  OBVIOUS
<1> HIDE DEF S
<1>4. Sound(S, R, authed')
  <2>1. \A x \in Handlers :
          /\ "Accept" \in S[x].ops => S[x].phase = "Accepted"
          /\ S[x].phase = "Accepted" =>
               S[x].ops = {"Accept"} /\ Msgs(S[x]) = {} /\ ~S[x].wp
    BY <1>1 DEF IInv, AcceptInv
  <2>2. serverUp =>
          /\ \E x \in Handlers : "Accept" \in S[x].ops
          /\ \A x, y \in Handlers : "Accept" \in S[x].ops /\ "Accept" \in S[y].ops => x = y
    BY <1>1, <1>2 DEF IInv, OneInv
  <2>3. \A p \in Peers, x \in Handlers : R[p] = x =>
          S[x].phase = "Streaming" /\ S[x].request # NoMsg /\ p \in authed'[x]
    BY <1>1, PeersAssumption DEF IInv, RegistryInv
  <2>4. \A x \in Handlers : \A m \in Msgs(S[x]) : m \in Genuine /\ Addressee(x, m)'
    BY <1>1 DEF IInv, MsgsInv, Addressee
  <2>5. \A x \in Handlers : Unread(S[x])
    BY <1>1 DEF IInv, UnreadInv
  <2> QED
    BY <2>1, <2>2, <2>3, <2>4, <2>5 DEF Sound, Addressee
<1>5. authed' \in [Handlers -> SUBSET Peers] /\ delivered' \in [Handlers -> BOOLEAN]
  BY DEF IInv, TypeOK
<1>6. op = "Read" /\ ok => inbox[h] # <<>>
  BY DEF Delivers
<1> QED
  BY <1>1, <1>3, <1>4, <1>5, <1>6, ReturnLemma

LEMMA UnregisterLemma ==
  ASSUME IInv, NEW s
  PROVE  /\ Unregister(registry, s) \in [Peers -> Handlers \cup {NoHandler}]
         /\ \A p \in Peers : Unregister(registry, s)[p] \in {registry[p], NoHandler}
  BY DEF Unregister, IInv, TypeOK

(* The handler as its completion finds it, when its stream is connected.   *)
LEMMA FoundLemma ==
  ASSUME IInv, NEW h \in Handlers, NEW op \in Ops, NEW ok \in BOOLEAN, Delivers(h, op, ok),
         sess[h].phase = "Streaming"
  PROVE  LET c == Completed(h, op, ok)
         IN  /\ c \in SessionType /\ c.phase = "Streaming" /\ c.pending = sess[h].pending
             /\ "Accept" \notin c.ops /\ Msgs(c) \subseteq Msgs(sess[h])
             /\ c.request = NoMsg => sess[h].request = NoMsg /\ ~c.wp
             /\ c.request \in Messages \cup {NoMsg}
             /\ c.pending = "Read" /\ ok => c.request \in Messages
<1> DEFINE c == Completed(h, op, ok)
<1>1. /\ op \in sess[h].ops
      /\ op = "Read" /\ ok => inbox[h] # <<>>
  BY DEF Delivers
<1>2. TypeOK
  BY DEF IInv
<1>3. /\ c \in SessionType /\ c.ops = sess[h].ops \ {op}
      /\ c.request = IF op = "Read" /\ ok THEN Head(inbox[h]) ELSE sess[h].request
      /\ op = "Read" /\ ok => c.request \in Messages
      /\ c.phase = sess[h].phase /\ c.pending = sess[h].pending /\ c.wp = sess[h].wp
      /\ Msgs(c) \subseteq Msgs(sess[h])
  BY <1>1, <1>2, CompletedLemma
<1> HIDE DEF c
<1>4. "Accept" \notin sess[h].ops
  BY DEF IInv, AcceptInv
<1>5. Unread(sess[h])
  BY DEF IInv, UnreadInv
<1>6. sess[h].request \in Messages \cup {NoMsg} /\ NoMsg \notin Messages
  BY <1>2, MessagesAssumption DEF TypeOK, SessionType
<1>7. /\ c.request = NoMsg => sess[h].request = NoMsg /\ ~c.wp
      /\ c.request \in Messages \cup {NoMsg}
      /\ c.pending = "Read" /\ ok => c.request \in Messages
  BY <1>1, <1>3, <1>5, <1>6 DEF Unread
<1> QED
  BY <1>3, <1>4, <1>7 DEF c

LEMMA WriteStep ==
  ASSUME IInv, NEW h \in Handlers, NEW op \in Ops, NEW ok \in BOOLEAN, Delivers(h, op, ok),
         HandleWrite(h, op, ok)
  PROVE  IInv'
<1> DEFINE c == Completed(h, op, ok)
           t == Written(c, ok)
<1>1. /\ sess[h].phase = "Streaming" /\ sess[h].pending = "Write"
      /\ Return(h, op, ok, [sess EXCEPT ![h] = t], registry)
      /\ UNCHANGED <<authed, delivered>>
  BY DEF HandleWrite
<1>2. /\ c \in SessionType /\ c.phase = "Streaming" /\ "Accept" \notin c.ops
      /\ Msgs(c) \subseteq Msgs(sess[h])
      /\ c.request = NoMsg => sess[h].request = NoMsg
  BY <1>1, FoundLemma
<1> HIDE DEF c
<1>3. t \in SessionType /\ Same(c, t) /\ Msgs(t) \subseteq Msgs(c)
  BY <1>2, WrittenLemma
<1> HIDE DEF t
<1>4. sess[h].request # NoMsg
  BY <1>1 DEF IInv, UnreadInv, Unread
<1>5. Unread(t) /\ t.phase = "Streaming" /\ "Accept" \notin t.ops
  BY <1>2, <1>3, <1>4 DEF Unread, Same
<1>6. registry \in [Peers -> Handlers \cup {NoHandler}]
  BY DEF IInv, TypeOK
<1> QED
  BY <1>1, <1>2, <1>3, <1>5, <1>6, OwnStep DEF Same

LEMMA FinishStep ==
  ASSUME IInv, NEW h \in Handlers, NEW op \in Ops, NEW ok \in BOOLEAN, Delivers(h, op, ok),
         HandleFinish(h, op, ok)
  PROVE  IInv'
<1> DEFINE c == Completed(h, op, ok)
           t == [c EXCEPT !.active = FALSE, !.peer = NoPeer, !.ref = FALSE]
<1>1. /\ sess[h].phase = "Streaming" /\ sess[h].pending = "Finish"
      /\ Return(h, op, ok, [sess EXCEPT ![h] = t], Unregister(registry, c))
      /\ UNCHANGED <<authed, delivered>>
  BY DEF HandleFinish
<1>2. /\ c \in SessionType /\ c.phase = "Streaming" /\ c.pending = "Finish"
      /\ "Accept" \notin c.ops /\ Msgs(c) \subseteq Msgs(sess[h])
      /\ c.request = NoMsg => sess[h].request = NoMsg /\ ~c.wp
  BY <1>1, FoundLemma
<1> HIDE DEF c
<1>3. t \in SessionType
  <2>1. FALSE \in BOOLEAN /\ NoPeer \in Peers \cup {NoPeer}
    OBVIOUS
  <2> QED
    BY <1>2, <2>1, Zenon DEF SessionType
<1>4. /\ t.phase = c.phase /\ t.request = c.request /\ t.ops = c.ops /\ t.wp = c.wp
      /\ t.outbound = c.outbound /\ t.response = c.response /\ t.pending = c.pending
  BY <1>2, Zenon DEF SessionType
<1> HIDE DEF t
<1>5. Unread(t) /\ Msgs(t) = Msgs(c)
  BY <1>2, <1>4 DEF Unread, Msgs
<1> QED
  BY <1>1, <1>2, <1>3, <1>4, <1>5, OwnStep, UnregisterLemma

(* The Read failed: the stream is over, or will be when its Write is. *)
LEMMA ReadFailedStep ==
  ASSUME IInv, NEW h \in Handlers, NEW op \in Ops, Delivers(h, op, FALSE),
         sess[h].phase = "Streaming", sess[h].pending = "Read", ReadFailed(h, op)
  PROVE  IInv'
<1> DEFINE c == Completed(h, op, FALSE)
           t == ReadClosed(c)
<1>1. /\ sess[h].phase = "Streaming" /\ sess[h].pending = "Read"
      /\ Return(h, op, FALSE, [sess EXCEPT ![h] = t], Unregister(registry, c))
      /\ UNCHANGED <<authed, delivered>>
  BY DEF ReadFailed
<1>3. /\ c \in SessionType /\ c.phase = "Streaming"
      /\ "Accept" \notin c.ops /\ Msgs(c) \subseteq Msgs(sess[h])
      /\ c.request = NoMsg => sess[h].request = NoMsg /\ ~c.wp
  BY <1>1, FoundLemma
<1> HIDE DEF c
<1>4. /\ t \in SessionType /\ Same(c, t) /\ Msgs(t) \subseteq Msgs(c)
      /\ ~c.wp => t.pending = "Finish" /\ ~t.wp
  BY <1>3, ReadClosedLemma
<1> HIDE DEF t
<1>5. Unread(t) /\ t.phase = "Streaming" /\ "Accept" \notin t.ops
  BY <1>3, <1>4 DEF Unread, Same
<1>6. Return(h, op, FALSE, [sess EXCEPT ![h] = t], Unregister(registry, c))
  BY <1>1
<1> QED
  BY <1>1, <1>3, <1>4, <1>5, <1>6, OwnStep, UnregisterLemma DEF Same

(* A message that is refused ends the stream. *)
LEMMA RejectStep ==
  ASSUME IInv, NEW h \in Handlers, NEW op \in Ops, Delivers(h, op, TRUE),
         sess[h].phase = "Streaming", sess[h].pending = "Read", ReadRefused(h, op)
  PROVE  IInv'
<1> DEFINE c == Completed(h, op, TRUE)
           t == Reject(c)
<1>1. /\ sess[h].phase = "Streaming" /\ sess[h].pending = "Read"
      /\ Return(h, op, TRUE, [sess EXCEPT ![h] = t], Unregister(registry, c))
      /\ UNCHANGED <<authed, delivered>>
  BY DEF ReadRefused
<1>3. /\ c \in SessionType /\ c.phase = "Streaming"
      /\ "Accept" \notin c.ops /\ Msgs(c) \subseteq Msgs(sess[h])
      /\ c.request = NoMsg => sess[h].request = NoMsg /\ ~c.wp
  BY <1>1, FoundLemma
<1> HIDE DEF c
<1>4. /\ t \in SessionType /\ Same(c, t) /\ Msgs(t) \subseteq Msgs(c)
      /\ t.pending = "Finish" /\ ~t.wp
  BY <1>3, RejectLemma
<1> HIDE DEF t
<1>5. Unread(t) /\ t.phase = "Streaming" /\ "Accept" \notin t.ops
  BY <1>3, <1>4 DEF Unread, Same
<1>6. Return(h, op, TRUE, [sess EXCEPT ![h] = t], Unregister(registry, c))
  BY <1>1
<1> QED
  BY <1>1, <1>3, <1>4, <1>5, <1>6, OwnStep, UnregisterLemma DEF Same

(* A message that is accepted is dispatched, and the stream reads on. *)
LEMMA DispatchStep ==
  ASSUME IInv, NEW h \in Handlers, NEW op \in Ops, Delivers(h, op, TRUE),
         sess[h].phase = "Streaming", sess[h].pending = "Read",
         NEW v \in BOOLEAN, ReadAccepted(h, op, v), Authentic(Completed(h, op, TRUE).request)
  PROVE  IInv'
<1> DEFINE c == Completed(h, op, TRUE)
           m == c.request
           S == [sess EXCEPT ![h] = c]
           D == Dispatch(S, registry, h, m, v)
           S2 == [D.s EXCEPT ![h] = ReadNext(D.s[h])]
           A == [authed EXCEPT ![h] = authed[h] \cup {m.sender}]
<1>1. /\ sess[h].phase = "Streaming" /\ sess[h].pending = "Read"
      /\ Return(h, op, TRUE, S2, D.r) /\ authed' = A
      /\ delivered' = [x \in Handlers |-> delivered[x] \/ x \in Enqueued(S, D.s)]
  BY Zenon DEF ReadAccepted
<1>2. /\ c \in SessionType /\ c.phase = "Streaming" /\ c.pending = sess[h].pending
      /\ "Accept" \notin c.ops /\ Msgs(c) \subseteq Msgs(sess[h])
      /\ c.pending = "Read" => m \in Messages
  BY <1>1, FoundLemma
<1>3. m \in Messages /\ m.sender \in Peers /\ m.sender # Self /\ m \in Genuine /\ m # NoMsg
  BY <1>1, <1>2, MessagesAssumption, PeersAssumption DEF Authentic, Genuine
<1> HIDE DEF c, m
<1>4. /\ S \in [Handlers -> SessionType] /\ S[h] = c
      /\ \A x \in Handlers : x # h => S[x] = sess[x]
  BY <1>2 DEF IInv, TypeOK
<1>5. registry \in [Peers -> Handlers \cup {NoHandler}]
  BY DEF IInv, TypeOK
<1>D. D = Dispatch(S, registry, h, m, v)
  OBVIOUS
<1> HIDE DEF S, D
<1>6. /\ D.s \in [Handlers -> SessionType]
      /\ D.r \in [Peers -> Handlers \cup {NoHandler}]
      /\ \A x \in Handlers :
           /\ Same(S[x], D.s[x])
           /\ Msgs(D.s[x]) \subseteq Msgs(S[x]) \cup {m}
           /\ D.s[x] = S[x] \/ x = h \/ Receives(registry, h, m, x)
           /\ Msgs(D.s[x]) \subseteq Msgs(S[x]) \/ Receives(registry, h, m, x)
      /\ \A p \in Peers : D.r[p] \in {registry[p], NoHandler} \/ (p = m.sender /\ D.r[p] = h)
  <2>1. m \in Messages /\ S \in [Handlers -> SessionType]
    BY <1>3, <1>4
  <2>2. Dispatched(S, registry, h, m, D)
    BY <1>5, <1>D, <2>1, DispatchLemma
  <2> QED
    BY <2>2 DEF Dispatched
<1>7. /\ S2 \in [Handlers -> SessionType]
      /\ Same(D.s[h], S2[h]) /\ Msgs(S2[h]) = Msgs(D.s[h])
      /\ \A x \in Handlers : x # h => S2[x] = D.s[x]
  BY <1>6, ReadNextLemma
<1> HIDE DEF S2
<1>8. \A x \in Handlers : Same(S[x], S2[x]) /\ Msgs(S2[x]) = Msgs(D.s[x])
  BY <1>6, <1>7 DEF Same
<1>9. /\ A \in [Handlers -> SUBSET Peers]
      /\ A[h] = authed[h] \cup {m.sender}
      /\ \A x \in Handlers : authed[x] \subseteq A[x]
  BY <1>3 DEF IInv, TypeOK
<1> HIDE DEF A
<1>10. \A x \in Handlers : m.rcpt # Self /\ registry[m.rcpt] = x =>
         sess[x].phase = "Streaming" /\ sess[x].request # NoMsg /\ m.rcpt \in authed[x]
  BY <1>3, MessagesAssumption DEF IInv, RegistryInv
<1>11. Sound(S2, D.r, A)
  <2>1. \A x \in Handlers :
          /\ "Accept" \in S2[x].ops <=> "Accept" \in sess[x].ops
          /\ S2[x].phase = sess[x].phase
    BY <1>1, <1>2, <1>4, <1>8 DEF Same, IInv, AcceptInv
  <2>2. \A x \in Handlers : S2[x].phase = "Accepted" => S2[x] = sess[x]
    BY <1>1, <1>4, <1>6, <1>7, <1>10, <2>1 DEF Receives
  <2>3. \A x \in Handlers :
          /\ "Accept" \in S2[x].ops => S2[x].phase = "Accepted"
          /\ S2[x].phase = "Accepted" =>
               S2[x].ops = {"Accept"} /\ Msgs(S2[x]) = {} /\ ~S2[x].wp
    BY <2>1, <2>2 DEF IInv, AcceptInv
  <2>4. serverUp =>
          /\ \E x \in Handlers : "Accept" \in S2[x].ops
          /\ \A x, y \in Handlers : "Accept" \in S2[x].ops /\ "Accept" \in S2[y].ops => x = y
    BY <2>1 DEF IInv, OneInv
  <2>5. \A p \in Peers, x \in Handlers : D.r[p] = x =>
          S2[x].phase = "Streaming" /\ S2[x].request # NoMsg /\ p \in A[x]
    <3> SUFFICES ASSUME NEW p \in Peers, NEW x \in Handlers, D.r[p] = x
                 PROVE  S2[x].phase = "Streaming" /\ S2[x].request # NoMsg /\ p \in A[x]
      OBVIOUS
    <3>1. (p = m.sender /\ x = h) \/ registry[p] = x
      BY <1>6, PeersAssumption
    <3>2. S2[x].request = S[x].request
      BY <1>8 DEF Same
    <3>3. S[h].request = m
      BY <1>4 DEF m
    <3> QED
      BY <1>1, <1>3, <1>4, <1>9, <2>1, <3>1, <3>2, <3>3 DEF IInv, RegistryInv
  <2>6. \A x \in Handlers : \A k \in Msgs(S2[x]) :
          k \in Genuine /\ IF k.rcpt = Self THEN k.sender \in A[x] ELSE k.rcpt \in A[x]
    <3> SUFFICES ASSUME NEW x \in Handlers, NEW k \in Msgs(S2[x])
                 PROVE  /\ k \in Genuine
                        /\ IF k.rcpt = Self THEN k.sender \in A[x] ELSE k.rcpt \in A[x]
      OBVIOUS
    <3>1. CASE k \in Msgs(S[x])
      <4>1. k \in Msgs(sess[x])
        BY <1>2, <1>4, <3>1
      <4> QED
        BY <1>9, <4>1 DEF IInv, MsgsInv, Addressee
    <3>2. CASE k \notin Msgs(S[x])
      <4>1. k = m
        BY <1>6, <1>8, <3>2
      <4>2. Receives(registry, h, m, x)
        BY <1>6, <1>8, <3>2
      <4> QED
        BY <1>3, <1>9, <1>10, <4>1, <4>2 DEF Receives
    <3> QED
      BY <3>1, <3>2
  <2>7. \A x \in Handlers : Unread(S2[x])
    <3> SUFFICES ASSUME NEW x \in Handlers, S2[x].request = NoMsg PROVE S2[x] = sess[x]
      BY DEF IInv, UnreadInv, Unread
    <3>1. S[x].request = NoMsg
      BY <1>8 DEF Same
    <3>2. x # h
      BY <1>3, <1>4, <3>1 DEF m
    <3> QED
      BY <1>4, <1>6, <1>7, <1>10, <3>1, <3>2 DEF Receives
  <2> QED
    BY <2>3, <2>4, <2>5, <2>6, <2>7 DEF Sound
<1>12. authed' \in [Handlers -> SUBSET Peers] /\ delivered' \in [Handlers -> BOOLEAN]
  BY <1>1, <1>9
<1>13. op = "Read" => inbox[h] # <<>>
  BY DEF Delivers
<1> QED
  BY <1>1, <1>6, <1>7, <1>11, <1>12, <1>13, ReturnLemma

(* A stream is connected: its handler reads, its clone waits for the next. *)
LEMMA ConnectedStep ==
  ASSUME IInv, NEW h \in Handlers, NEW op \in Ops, Delivers(h, op, TRUE),
         Connect(h, op, TRUE)
  PROVE  IInv'
<1> DEFINE c == Completed(h, op, TRUE)
           t0 == [c EXCEPT !.phase = "Streaming", !.active = TRUE]
           t == ReadNext(t0)
<1>1. PICK n \in Handlers :
        /\ sess[n].phase = "free"
        /\ Return(h, op, TRUE, [sess EXCEPT ![h] = t, ![n] = Acceptor], registry)
  BY DEF Connect
<1>2. /\ sess[h].phase = "Accepted" /\ authed' = [authed EXCEPT ![h] = {}]
      /\ delivered' = [delivered EXCEPT ![h] = FALSE]
  BY DEF Connect
<1>3. /\ sess[h].ops = {"Accept"} /\ Msgs(sess[h]) = {} /\ ~sess[h].wp /\ op = "Accept"
      /\ n # h
  BY <1>1, <1>2 DEF IInv, AcceptInv, Delivers
<1>4. c \in SessionType /\ c.ops = {} /\ ~c.wp /\ Msgs(c) = {}
  <2>1. TypeOK
    BY DEF IInv
  <2>2. op = "Accept"
    BY <1>3
  <2>3. /\ c \in SessionType /\ c.ops = sess[h].ops \ {op}
        /\ c.phase = sess[h].phase /\ c.wp = sess[h].wp /\ Msgs(c) \subseteq Msgs(sess[h])
    BY <2>1, <2>2, CompletedLemma
  <2> HIDE DEF c
  <2> QED
    BY <1>3, <2>3
<1> HIDE DEF c
<1>5. t0 \in SessionType
  <2>1. "Streaming" \in {"free", "Accepted", "Streaming"} /\ TRUE \in BOOLEAN
    OBVIOUS
  <2> QED
    BY <1>4, <2>1, Zenon DEF SessionType
<1>6. /\ t0.phase = "Streaming" /\ t0.ops = c.ops /\ t0.wp = c.wp
      /\ t0.outbound = c.outbound /\ t0.response = c.response
  BY <1>4, Zenon DEF SessionType
<1> HIDE DEF t0
<1>7. /\ t \in SessionType /\ t.phase = "Streaming" /\ t.ops = {"Read"} /\ Msgs(t) = {}
      /\ Unread(t)
  <2>1. Msgs(t0) = Msgs(c)
    BY <1>6 DEF Msgs
  <2>2. /\ t \in SessionType /\ Same(t0, t) /\ Msgs(t) = Msgs(t0) /\ t.wp = t0.wp
        /\ t.pending = "Read" /\ t.ops = t0.ops \cup {"Read"}
    BY <1>5, ReadNextLemma
  <2> HIDE DEF t
  <2> QED
    BY <1>4, <1>6, <2>1, <2>2 DEF Same, Unread
<1> HIDE DEF t
<1> DEFINE S == [sess EXCEPT ![h] = t, ![n] = Acceptor]
<1>8. /\ S \in [Handlers -> SessionType] /\ S[h] = t /\ S[n] = Acceptor
      /\ \A x \in Handlers : x # h /\ x # n => S[x] = sess[x]
  BY <1>3, <1>7, FreeLemma DEF IInv, TypeOK
<1>9. Return(h, op, TRUE, S, registry)
  BY <1>1
<1> HIDE DEF S
<1>10. /\ authed' \in [Handlers -> SUBSET Peers] /\ delivered' \in [Handlers -> BOOLEAN]
       /\ \A x \in Handlers : x # h => authed'[x] = authed[x]
       /\ registry \in [Peers -> Handlers \cup {NoHandler}]
  BY <1>2 DEF IInv, TypeOK
<1>11. Unread(Acceptor)
  BY FreeLemma DEF Unread
<1>12. Sound(S, registry, authed')
  <2>1. \A x \in Handlers :
          /\ "Accept" \in S[x].ops => S[x].phase = "Accepted"
          /\ S[x].phase = "Accepted" =>
               S[x].ops = {"Accept"} /\ Msgs(S[x]) = {} /\ ~S[x].wp
    BY <1>7, <1>8, FreeLemma DEF IInv, AcceptInv
  <2>2. serverUp => \A x \in Handlers : "Accept" \in S[x].ops <=> x = n
    BY <1>3, <1>7, <1>8, FreeLemma DEF IInv, OneInv
  <2>3. \A p \in Peers, x \in Handlers : registry[p] = x =>
          S[x].phase = "Streaming" /\ S[x].request # NoMsg /\ p \in authed'[x]
    BY <1>1, <1>2, <1>8, <1>10 DEF IInv, RegistryInv
  <2>4. \A x \in Handlers : \A m \in Msgs(S[x]) :
          m \in Genuine /\ IF m.rcpt = Self THEN m.sender \in authed'[x]
                                            ELSE m.rcpt \in authed'[x]
    BY <1>7, <1>8, <1>10, FreeLemma DEF IInv, MsgsInv, Addressee
  <2>5. \A x \in Handlers : Unread(S[x])
    BY <1>7, <1>8, <1>11 DEF IInv, UnreadInv
  <2> QED
    BY <1>1, <2>1, <2>2, <2>3, <2>4, <2>5 DEF Sound
<1> QED
  BY <1>3, <1>8, <1>9, <1>10, <1>12, ReturnLemma

(* The server is shut down: the waiting handler is released. *)
LEMMA ReleasedStep ==
  ASSUME IInv, NEW h \in Handlers, NEW op \in Ops, Delivers(h, op, FALSE),
         Connect(h, op, FALSE)
  PROVE  IInv'
<1> DEFINE c == Completed(h, op, FALSE)
           t == [c EXCEPT !.ref = FALSE]
           S == [sess EXCEPT ![h] = t]
<1>1. /\ sess[h].phase = "Accepted" /\ Return(h, op, FALSE, S, registry)
      /\ authed' = [authed EXCEPT ![h] = {}]
      /\ delivered' = [delivered EXCEPT ![h] = FALSE]
  BY DEF Connect
<1>2. /\ sess[h].ops = {"Accept"} /\ Msgs(sess[h]) = {} /\ ~sess[h].wp /\ op = "Accept"
      /\ ~serverUp
  BY <1>1 DEF IInv, AcceptInv, Delivers, TypeOK
<1>3. /\ c \in SessionType /\ c.ops = {} /\ ~c.wp /\ Msgs(c) = {} /\ c.phase = "Accepted"
  <2>1. TypeOK
    BY DEF IInv
  <2>2. op = "Accept"
    BY <1>1, <1>2
  <2>3. /\ c \in SessionType /\ c.ops = sess[h].ops \ {op}
        /\ c.phase = sess[h].phase /\ c.wp = sess[h].wp /\ Msgs(c) \subseteq Msgs(sess[h])
    BY <2>1, <2>2, CompletedLemma
  <2> HIDE DEF c
  <2> QED
    BY <1>1, <1>2, <2>3
<1> HIDE DEF c
<1>4. t \in SessionType
  BY <1>3, Zenon DEF SessionType
<1>5. /\ t.phase = c.phase /\ t.ops = c.ops /\ t.wp = c.wp /\ t.ref = FALSE
      /\ t.outbound = c.outbound /\ t.response = c.response
  BY <1>3, Zenon DEF SessionType
<1> HIDE DEF t
<1>6. Msgs(t) = {} /\ Unread(t)
  BY <1>3, <1>5 DEF Msgs, Unread
<1>7. /\ S \in [Handlers -> SessionType] /\ S[h] = t
      /\ \A x \in Handlers : x # h => S[x] = sess[x]
  BY <1>4 DEF IInv, TypeOK
<1> HIDE DEF S
<1>8. /\ authed' \in [Handlers -> SUBSET Peers] /\ delivered' \in [Handlers -> BOOLEAN]
      /\ \A x \in Handlers : x # h => authed'[x] = authed[x]
      /\ registry \in [Peers -> Handlers \cup {NoHandler}]
  BY <1>1 DEF IInv, TypeOK
<1>9. Sound(S, registry, authed')
  <2>1. \A x \in Handlers :
          /\ "Accept" \in S[x].ops => S[x].phase = "Accepted"
          /\ S[x].phase = "Accepted" =>
               /\ Msgs(S[x]) = {} /\ ~S[x].wp
               /\ S[x].ops = {"Accept"} \/ (S[x].ops = {} /\ ~S[x].ref)
    BY <1>3, <1>5, <1>6, <1>7 DEF IInv, AcceptInv
  <2>2. \A p \in Peers, x \in Handlers : registry[p] = x =>
          S[x].phase = "Streaming" /\ S[x].request # NoMsg /\ p \in authed'[x]
    BY <1>1, <1>7, <1>8 DEF IInv, RegistryInv
  <2>3. \A x \in Handlers : \A m \in Msgs(S[x]) :
          m \in Genuine /\ IF m.rcpt = Self THEN m.sender \in authed'[x]
                                            ELSE m.rcpt \in authed'[x]
    BY <1>6, <1>7, <1>8 DEF IInv, MsgsInv, Addressee
  <2>4. \A x \in Handlers : Unread(S[x])
    BY <1>6, <1>7 DEF IInv, UnreadInv
  <2> QED
    BY <1>2, <2>1, <2>2, <2>3, <2>4 DEF Sound
<1> QED
  BY <1>1, <1>2, <1>7, <1>8, <1>9, ReturnLemma

(* What clients and the operator of the server do changes no handler. *)
LEMMA OutsideStep ==
  ASSUME IInv, UNCHANGED <<sess, registry, authed, delivered>>, serverUp' => serverUp,
         serverUp' \in BOOLEAN, inbox' \in [Handlers -> Seq(Messages)], sent' \in Nat,
         client' \in [Handlers -> {"none", "open", "halfClosed", "broken"}]
  PROVE  IInv'
<1>1. TypeOK'
  BY DEF IInv, TypeOK
<1>2. AcceptInv' /\ OneInv'
  BY DEF IInv, AcceptInv, OneInv
<1>3. RegistryInv' /\ MsgsInv' /\ UnreadInv'
  BY DEF IInv, RegistryInv, MsgsInv, UnreadInv, Addressee
<1> QED
  BY <1>1, <1>2, <1>3 DEF IInv

LEMMA StepInv == IInv /\ [Next]_vars => IInv'
<1> SUFFICES ASSUME IInv, [Next]_vars PROVE IInv'
  OBVIOUS
<1>1. ASSUME NEW h \in Handlers, ClientSend(h) PROVE IInv'
  <2>1. PICK m \in Messages : inbox' = [inbox EXCEPT ![h] = Append(@, m)]
    BY <1>1 DEF ClientSend
  <2>2. inbox' \in [Handlers -> Seq(Messages)]
    BY <2>1 DEF IInv, TypeOK
  <2> QED
    BY <1>1, <2>2, OutsideStep DEF ClientSend, IInv, TypeOK
<1>2. ASSUME NEW h \in Handlers, ClientHalfClose(h) PROVE IInv'
  BY <1>2, OutsideStep DEF ClientHalfClose, IInv, TypeOK
<1>3. ASSUME NEW h \in Handlers, ClientBreak(h) PROVE IInv'
  BY <1>3, OutsideStep DEF ClientBreak, IInv, TypeOK
<1>4. ASSUME NEW h \in Handlers, Completion(h) PROVE IInv'
  <2>1. PICK op \in Ops, ok \in BOOLEAN : Delivers(h, op, ok) /\ Process(h, op, ok)
    BY <1>4 DEF Completion
  <2>2. CASE Connect(h, op, ok)
    BY <2>1, <2>2, ConnectedStep, ReleasedStep
  <2>3. CASE HandleRead(h, op, ok)
    <3>1. CASE ~ok
      BY <2>1, <2>3, <3>1, ReadFailedStep DEF HandleRead
    <3>2. CASE ok
      <4>1. sess[h].phase = "Streaming" /\ sess[h].pending = "Read" /\ Delivers(h, op, TRUE)
        BY <2>1, <2>3, <3>2 DEF HandleRead
      <4>2. PICK first, again \in Verdicts(Completed(h, op, TRUE).request) :
              IF first THEN ReadAccepted(h, op, again) ELSE ReadRefused(h, op)
        BY <2>3, <3>2 DEF HandleRead
      <4>3. again \in BOOLEAN /\ (first => Authentic(Completed(h, op, TRUE).request))
        BY <4>2 DEF Verdicts
      <4> QED
        BY <4>1, <4>2, <4>3, RejectStep, DispatchStep
    <3> QED
      BY <3>1, <3>2
  <2>4. CASE HandleWrite(h, op, ok)
    BY <2>1, <2>4, WriteStep
  <2>5. CASE HandleFinish(h, op, ok)
    BY <2>1, <2>5, FinishStep
  <2> QED
    BY <2>1, <2>2, <2>3, <2>4, <2>5 DEF Process
<1>5. CASE Shutdown
  BY <1>5, OutsideStep DEF Shutdown, IInv, TypeOK
<1>6. CASE UNCHANGED vars
  BY <1>6, OutsideStep DEF vars, IInv, TypeOK
<1> QED
  BY <1>1, <1>2, <1>3, <1>4, <1>5, <1>6 DEF Next

(* The inductive invariant holds in every behaviour of the streams, even   *)
(* of those in which a handler comes to undefined behaviour: up to there.  *)
THEOREM Invariance == Spec => []IInv
<1>1. Init => IInv
  BY InitInv
<1>2. IInv /\ [Next]_vars => IInv'
  BY StepInv
<1> QED
  BY <1>1, <1>2, PTL DEF Spec

(* message_stream.cc:107-122: while the server is up exactly one handler   *)
(* waits for the next stream, for any number of handlers and clients.      *)
THEOREM Acceptance == Spec => []OneAcceptor
<1>1. IInv => OneAcceptor
  <2> SUFFICES ASSUME IInv, serverUp
               PROVE  Cardinality({h \in Handlers : "Accept" \in sess[h].ops}) = 1
    BY DEF OneAcceptor
  <2>1. PICK h \in Handlers : "Accept" \in sess[h].ops
    BY DEF IInv, OneInv
  <2>2. {x \in Handlers : "Accept" \in sess[x].ops} = {h}
    BY <2>1 DEF IInv, OneInv
  <2> QED
    BY <2>2, FS_Singleton
<1> QED
  BY <1>1, Invariance, PTL

(* recipient_dispatch.cc, stream_router.cc: whatever a client is written   *)
(* was signed by the known peer it names as its sender.                    *)
THEOREM Authenticity == Spec => []DeliveredAuthentic
<1>1. IInv => DeliveredAuthentic
  BY DEF IInv, MsgsInv, Msgs, DeliveredAuthentic
<1> QED
  BY <1>1, Invariance, PTL

(* stream_router.cc: a message is written only to a stream on which its    *)
(* recipient was authenticated, or the node's own to the stream it came on.*)
THEOREM Addressing == Spec => []DeliveredToAddressee
<1>1. IInv => DeliveredToAddressee
  BY DEF IInv, MsgsInv, Msgs, DeliveredToAddressee
<1> QED
  BY <1>1, Invariance, PTL

(* The types of the handlers' fields, the registry and the clients. *)
THEOREM Types == Spec => []TypeOK
<1>1. IInv => TypeOK
  BY DEF IInv
<1> QED
  BY <1>1, Invariance, PTL

-----------------------------------------------------------------------------
(* What a stream's queue and closing satisfy, and what a stream is like    *)
(* for whose client nothing was enqueued.                                  *)

(* A stream that closes is not active, an active one reads on, and its     *)
(* queue goes with a Write.                                                *)
Flows(s) ==
  /\ s.pending = "Read" => "Read" \in s.ops
  /\ s.wp => "Write" \in s.ops
  /\ s.outbound # <<>> => s.wp

Open(s) ==
  /\ s.closing \/ s.pending = "Finish" => ~s.active
  /\ s.active /\ s.ub = "none" => Flows(s)

Quiet(s) ==
  /\ s.ub = "none" /\ ~s.wp /\ ~s.closing /\ s.outbound = <<>>
  /\ s.pending \in {"Read", "Finish"}
  /\ s.ops = IF s.ref THEN {s.pending} ELSE {}

OpenInv  == \A h \in Handlers : sess[h].phase = "Streaming" => Open(sess[h])
QuietInv == \A h \in Handlers :
              sess[h].phase = "Streaming" /\ ~delivered[h] => Quiet(sess[h])
FreshInv == \A h \in Handlers :
              /\ sess[h].phase = "Accepted" => sess[h] = Acceptor
              /\ sess[h].phase = "free" => sess[h] = Free

FlowInv == OpenInv /\ QuietInv /\ FreshInv

(* The fields that only closing changes. *)
Steady(s, t) == t.active = s.active /\ t.closing = s.closing /\ t.ref = s.ref

LEMMA IssueFlow ==
  ASSUME NEW s \in SessionType, NEW op \in Ops
  PROVE  /\ Steady(s, Issue(s, op))
         /\ Issue(s, op).ub = IF op \in s.ops THEN "sameOpTwice" ELSE s.ub
<1>1. CASE op \in s.ops
  <2>1. Issue(s, op) = [s EXCEPT !.ub = "sameOpTwice"]
    BY <1>1 DEF Issue
  <2>2. /\ Issue(s, op).active = s.active /\ Issue(s, op).closing = s.closing
        /\ Issue(s, op).ref = s.ref /\ Issue(s, op).ub = "sameOpTwice"
    BY <2>1, Zenon DEF SessionType
  <2> QED
    BY <1>1, <2>2 DEF Steady
<1>2. CASE op \notin s.ops
  <2>1. Issue(s, op) = [s EXCEPT !.ops = s.ops \cup {op}]
    BY <1>2 DEF Issue
  <2>2. /\ Issue(s, op).active = s.active /\ Issue(s, op).closing = s.closing
        /\ Issue(s, op).ref = s.ref /\ Issue(s, op).ub = s.ub
    BY <2>1, Zenon DEF SessionType
  <2> QED
    BY <1>2, <2>2 DEF Steady
<1> QED
  BY <1>1, <1>2

LEMMA ReadNextFlow ==
  ASSUME NEW s \in SessionType
  PROVE  LET t == ReadNext(s)
         IN  /\ Steady(s, t) /\ t.outbound = s.outbound
             /\ t.ub = IF "Read" \in s.ops THEN "sameOpTwice" ELSE s.ub
<1> DEFINE q == [s EXCEPT !.pending = "Read"]
<1>1. q \in SessionType
  <2>1. "Read" \in {"Read", "Write", "Finish"}
    OBVIOUS
  <2> QED
    BY <2>1, Zenon DEF SessionType
<1>2. /\ q.active = s.active /\ q.closing = s.closing /\ q.ref = s.ref /\ q.ub = s.ub
      /\ q.outbound = s.outbound /\ q.ops = s.ops
  BY Zenon DEF SessionType
<1>3. ReadNext(s) = Issue(q, "Read") /\ "Read" \in Ops
  BY DEF ReadNext, Ops
<1> HIDE DEF q
<1> QED
  BY <1>1, <1>2, <1>3, IssueLemma, IssueFlow DEF Steady

LEMMA FinishOpFlow ==
  ASSUME NEW s \in SessionType
  PROVE  LET t == FinishOp(s)
         IN  /\ Steady(s, t) /\ t.outbound = s.outbound
             /\ t.ops = s.ops \cup {"Finish"}
             /\ t.ub = IF "Finish" \in s.ops THEN "sameOpTwice" ELSE s.ub
<1> DEFINE q == [s EXCEPT !.pending = "Finish"]
<1>1. q \in SessionType
  <2>1. "Finish" \in {"Read", "Write", "Finish"}
    OBVIOUS
  <2> QED
    BY <2>1, Zenon DEF SessionType
<1>2. /\ q.active = s.active /\ q.closing = s.closing /\ q.ref = s.ref /\ q.ub = s.ub
      /\ q.outbound = s.outbound /\ q.ops = s.ops
  BY Zenon DEF SessionType
<1>3. FinishOp(s) = Issue(q, "Finish") /\ "Finish" \in Ops
  BY DEF FinishOp, Ops
<1> HIDE DEF q
<1> QED
  BY <1>1, <1>2, <1>3, IssueLemma, IssueFlow DEF Steady

(* A queued message has a Write, or its stream ends in undefined behaviour. *)
LEMMA EnqueueFlow ==
  ASSUME NEW s \in SessionType, NEW m \in Messages
  PROVE  LET t == Enqueue(s, m)
         IN  /\ Steady(s, t) /\ t.wp /\ Len(t.outbound) > Len(s.outbound)
             /\ IF s.wp
                THEN t.ops = s.ops /\ t.pending = s.pending /\ t.ub = s.ub
                ELSE /\ t.ops = s.ops \cup {"Write"} /\ t.pending = "Write"
                     /\ t.ub = IF "Write" \in s.ops THEN "sameOpTwice" ELSE s.ub
<1> DEFINE o == Append(s.outbound, m)
           q == [s EXCEPT !.outbound = Append(@, m)]
           t == [q EXCEPT !.response = Head(q.outbound), !.wp = TRUE, !.pending = "Write"]
<1>1. /\ o \in Seq(Messages) /\ Head(o) \in Messages \cup {NoMsg}
      /\ Len(o) > Len(s.outbound)
  <2>1. s.outbound \in Seq(Messages)
    BY DEF SessionType
  <2> QED
    BY <2>1
<1>2. q = [s EXCEPT !.outbound = o]
  BY Zenon DEF SessionType
<1>3. q \in SessionType
  BY <1>1, <1>2, Zenon DEF SessionType
<1>4. /\ q.active = s.active /\ q.closing = s.closing /\ q.ref = s.ref /\ q.ub = s.ub
      /\ q.outbound = o /\ q.ops = s.ops /\ q.pending = s.pending /\ q.wp = s.wp
  BY <1>2, Zenon DEF SessionType
<1>5. CASE s.wp
  <2>1. Enqueue(s, m) = q
    BY <1>5 DEF Enqueue
  <2> HIDE DEF q, o
  <2> QED
    BY <1>1, <1>4, <1>5, <2>1 DEF Steady
<1>6. CASE ~s.wp
  <2>1. Enqueue(s, m) = Issue(t, "Write") /\ "Write" \in Ops
    BY <1>6 DEF Enqueue, Ops
  <2>2. t = [q EXCEPT !.response = Head(o), !.wp = TRUE, !.pending = "Write"]
    BY <1>4
  <2> HIDE DEF q, o
  <2>3. "Write" \in {"Read", "Write", "Finish"} /\ TRUE \in BOOLEAN
    OBVIOUS
  <2>4. t \in SessionType
    BY <1>1, <1>3, <2>2, <2>3, Zenon DEF SessionType
  <2>5. /\ t.active = q.active /\ t.closing = q.closing /\ t.ref = q.ref /\ t.ub = q.ub
        /\ t.outbound = q.outbound /\ t.ops = q.ops /\ t.pending = "Write" /\ t.wp = TRUE
    BY <1>3, <2>2, Zenon DEF SessionType
  <2> HIDE DEF t
  <2> QED
    BY <1>1, <1>4, <1>6, <2>1, <2>4, <2>5, IssueLemma, IssueFlow DEF Steady
<1> QED
  BY <1>5, <1>6

(* begin_shutdown_after_read_closed and shutdown_with_status: the stream   *)
(* is not active any more, and nothing is queued.                          *)
LEMMA ReadClosedFlow ==
  ASSUME NEW s \in SessionType
  PROVE  LET t == ReadClosed(s)
         IN  /\ ~t.active /\ t.outbound = <<>> /\ t.ref = s.ref
             /\ ~s.wp => /\ t.pending = "Finish" /\ t.ops = s.ops \cup {"Finish"}
                         /\ ~t.wp /\ ~t.closing
                         /\ t.ub = IF "Finish" \in s.ops THEN "sameOpTwice" ELSE s.ub
<1> DEFINE q == [s EXCEPT !.active = FALSE, !.peer = NoPeer, !.outbound = <<>>,
                          !.closing = s.wp]
<1>1. /\ FALSE \in BOOLEAN /\ s.wp \in BOOLEAN /\ <<>> \in Seq(Messages)
      /\ NoPeer \in Peers \cup {NoPeer}
  BY DEF SessionType
<1>2. q \in SessionType
  BY <1>1, Zenon DEF SessionType
<1>3. /\ q.active = FALSE /\ q.closing = s.wp /\ q.ref = s.ref /\ q.ub = s.ub
      /\ q.outbound = <<>> /\ q.ops = s.ops /\ q.wp = s.wp
  BY Zenon DEF SessionType
<1>4. ReadClosed(s) = IF s.wp THEN q ELSE FinishOp(q)
  BY DEF ReadClosed
<1> HIDE DEF q
<1>5. CASE s.wp
  BY <1>3, <1>4, <1>5
<1>6. CASE ~s.wp
  BY <1>2, <1>3, <1>4, <1>6, FinishOpLemma, FinishOpFlow DEF Steady
<1> QED
  BY <1>5, <1>6

LEMMA RejectFlow ==
  ASSUME NEW s \in SessionType
  PROVE  LET t == Reject(s)
         IN  /\ ~t.active /\ t.outbound = <<>> /\ ~t.wp /\ ~t.closing /\ t.ref = s.ref
             /\ t.pending = "Finish" /\ t.ops = s.ops \cup {"Finish"}
             /\ t.ub = IF "Finish" \in s.ops THEN "sameOpTwice" ELSE s.ub
<1> DEFINE q == [s EXCEPT !.active = FALSE, !.peer = NoPeer, !.outbound = <<>>,
                          !.wp = FALSE, !.closing = FALSE]
<1>1. FALSE \in BOOLEAN /\ <<>> \in Seq(Messages) /\ NoPeer \in Peers \cup {NoPeer}
  OBVIOUS
<1>2. q \in SessionType
  BY <1>1, Zenon DEF SessionType
<1>3. /\ q.active = FALSE /\ q.closing = FALSE /\ q.ref = s.ref /\ q.ub = s.ub
      /\ q.outbound = <<>> /\ q.ops = s.ops /\ q.wp = FALSE
  BY Zenon DEF SessionType
<1>4. Reject(s) = FinishOp(q)
  BY DEF Reject
<1> HIDE DEF q
<1> QED
  BY <1>2, <1>3, <1>4, FinishOpLemma, FinishOpFlow DEF Steady

(* handle_write_completion: a queue that is left has the next Write.       *)
LEMMA WrittenFlow ==
  ASSUME NEW s \in SessionType, NEW ok \in BOOLEAN, s.pending = "Write",
         s.closing => ~s.active, s.active => (s.outbound # <<>> => s.wp)
  PROVE  Open(Written(s, ok))
<1> DEFINE rest == Tail(s.outbound)
           d == [s EXCEPT !.outbound = <<>>, !.wp = FALSE, !.closing = FALSE]
           u == [s EXCEPT !.ub = "popOfEmpty"]
           t == [s EXCEPT !.outbound = rest, !.response = Head(rest), !.pending = "Write"]
<1>1. CASE ~ok \/ (s.outbound # <<>> /\ rest = <<>>)
  <2>1. Written(s, ok) = IF s.closing THEN FinishOp(d) ELSE d
    BY <1>1 DEF Written, Drained
  <2>2. FALSE \in BOOLEAN /\ <<>> \in Seq(Messages)
    OBVIOUS
  <2>3. d \in SessionType
    BY <2>2, Zenon DEF SessionType
  <2>4. /\ d.active = s.active /\ d.closing = FALSE /\ d.outbound = <<>> /\ d.wp = FALSE
        /\ d.pending = s.pending
    BY Zenon DEF SessionType
  <2> HIDE DEF d
  <2>5. CASE s.closing
    BY <2>1, <2>3, <2>4, <2>5, FinishOpLemma, FinishOpFlow DEF Open, Steady
  <2>6. CASE ~s.closing
    BY <2>1, <2>4, <2>6 DEF Open, Flows
  <2> QED
    BY <2>5, <2>6
<1>2. CASE ok /\ s.outbound = <<>>
  <2>1. Written(s, ok) = u
    BY <1>2 DEF Written
  <2>2. u.active = s.active /\ u.closing = s.closing /\ u.pending = s.pending
        /\ u.ub = "popOfEmpty"
    BY Zenon DEF SessionType
  <2> HIDE DEF u
  <2> QED
    BY <2>1, <2>2 DEF Open
<1>3. CASE ok /\ s.outbound # <<>> /\ rest # <<>>
  <2>1. Written(s, ok) = Issue(t, "Write") /\ "Write" \in Ops
    BY <1>3 DEF Written, Ops
  <2>2. rest \in Seq(Messages) /\ Head(rest) \in Messages \cup {NoMsg}
    <3>1. s.outbound \in Seq(Messages)
      BY DEF SessionType
    <3> QED
      BY <1>3, <3>1
  <2> HIDE DEF rest
  <2>3. "Write" \in {"Read", "Write", "Finish"}
    OBVIOUS
  <2>4. t \in SessionType
    BY <2>2, <2>3, Zenon DEF SessionType
  <2>5. /\ t.active = s.active /\ t.closing = s.closing /\ t.pending = "Write"
        /\ t.wp = s.wp /\ t.ops = s.ops
    BY Zenon DEF SessionType
  <2> HIDE DEF t
  <2>6. LET w == Issue(t, "Write")
        IN  /\ w.active = s.active /\ w.closing = s.closing /\ w.pending = "Write"
            /\ w.wp = s.wp /\ "Write" \in w.ops
    BY <2>1, <2>4, <2>5, IssueLemma, IssueFlow DEF Steady
  <2>7. s.active => s.wp
    BY <1>3
  <2> QED
    BY <2>1, <2>6, <2>7 DEF Open, Flows
<1> HIDE DEF rest, u, t
<1> QED
  BY <1>1, <1>2, <1>3

(* The handler as its completion finds it. *)
Found(h, op, c) ==
  /\ c \in SessionType /\ c.phase = "Streaming" /\ c.pending = sess[h].pending
  /\ c.ops = sess[h].ops \ {op} /\ c.ub = "none"
  /\ c.closing \/ c.pending = "Finish" => ~c.active
  /\ c.active => /\ c.outbound # <<>> => c.wp
                 /\ c.pending = "Read" /\ op # "Read" => "Read" \in c.ops
                 /\ c.wp /\ op = "Read" => "Write" \in c.ops
  /\ ~delivered[h] => /\ c.ref /\ ~c.wp /\ ~c.closing /\ c.outbound = <<>>
                      /\ c.pending \in {"Read", "Finish"} /\ c.ops = {}

LEMMA FoundFlow ==
  ASSUME IInv, FlowInv, Defined, NEW h \in Handlers, NEW op \in Ops, NEW ok \in BOOLEAN,
         Delivers(h, op, ok), sess[h].phase = "Streaming"
  PROVE  Found(h, op, Completed(h, op, ok))
<1> DEFINE c == Completed(h, op, ok)
<1>1. c \in SessionType /\ c.phase = "Streaming"
  BY FoundLemma
<1>2. /\ c.ops = sess[h].ops \ {op} /\ c.pending = sess[h].pending /\ c.wp = sess[h].wp
      /\ c.active = sess[h].active /\ c.closing = sess[h].closing
      /\ c.ref = sess[h].ref /\ c.ub = sess[h].ub /\ c.outbound = sess[h].outbound
  <2>1. sess[h] \in SessionType
    BY DEF IInv, TypeOK
  <2> QED
    BY <2>1, Zenon DEF Completed, SessionType
<1>3. /\ Open(sess[h]) /\ sess[h].ub = "none" /\ op \in sess[h].ops
      /\ ~delivered[h] => Quiet(sess[h])
  BY DEF FlowInv, OpenInv, QuietInv, Defined, Delivers
<1> HIDE DEF c
<1>4. ~delivered[h] => c.ref /\ c.ops = {}
  <2> SUFFICES ASSUME ~delivered[h] PROVE c.ref /\ c.ops = {}
    OBVIOUS
  <2>1. sess[h].ops = IF sess[h].ref THEN {sess[h].pending} ELSE {}
    BY <1>3 DEF Quiet
  <2> QED
    BY <1>2, <1>3, <2>1
<1> HIDE DEF c
<1>5. Found(h, op, c)
  BY <1>1, <1>2, <1>3, <1>4 DEF Open, Flows, Quiet, Found
<1> QED
  BY <1>5 DEF c

LEMMA FreeFlow ==
  /\ Acceptor.ref /\ ~Acceptor.active /\ ~Acceptor.closing /\ Acceptor.ub = "none"
  /\ Acceptor.outbound = <<>> /\ ~Acceptor.wp /\ ~Free.active
<1>1. /\ ~Free.active /\ ~Free.closing /\ Free.ub = "none" /\ Free.outbound = <<>>
      /\ ~Free.wp
  BY DEF Free
<1>2. /\ Acceptor.ref = TRUE /\ Acceptor.active = Free.active
      /\ Acceptor.closing = Free.closing /\ Acceptor.ub = Free.ub
      /\ Acceptor.outbound = Free.outbound /\ Acceptor.wp = Free.wp
  BY FreeLemma, Zenon DEF Acceptor, SessionType
<1> QED
  BY <1>1, <1>2

(* The end of a process call destroys no quiet stream that is in use.      *)
LEMMA ReapedFlow ==
  ASSUME NEW S \in [Handlers -> SessionType],
         NEW R \in [Peers -> Handlers \cup {NoHandler}], NEW x \in Handlers
  PROVE  LET t == Reaped(S, R)[x]
         IN  \/ t = S[x] \/ t = Free
             \/ /\ ~S[x].ref /\ S[x].ops # {} /\ S[x].phase # "free" /\ t.ub = "destroyedInUse"
                /\ t.phase = S[x].phase /\ t.active = S[x].active /\ t.closing = S[x].closing
                /\ t.pending = S[x].pending /\ t.ops = S[x].ops
<1> DEFINE u == [S[x] EXCEPT !.ub = "destroyedInUse"]
<1>1. Reaped(S, R)[x] = IF S[x].phase = "free" \/ Held(S, R, x) THEN S[x]
                        ELSE IF S[x].ops = {} THEN Free ELSE u
  BY Zenon DEF Reaped
<1>2. /\ u.phase = S[x].phase /\ u.active = S[x].active /\ u.closing = S[x].closing
      /\ u.pending = S[x].pending /\ u.ops = S[x].ops /\ u.ub = "destroyedInUse"
  <2>1. S[x] \in SessionType
    OBVIOUS
  <2> QED
    BY <2>1, Zenon DEF SessionType
<1> HIDE DEF u
<1> QED
  BY <1>1, <1>2 DEF Held

(* Where a handler has asked to finish its stream it asks for nothing more. *)
Final ==
  \A x \in Handlers : sess[x].phase = "Streaming" /\ sess[x].pending = "Finish"
    => sess'[x].ops \subseteq sess[x].ops

LEMMA ReturnFlow ==
  ASSUME NEW h \in Handlers, NEW op \in Ops, NEW ok \in BOOLEAN,
         NEW S \in [Handlers -> SessionType],
         NEW R \in [Peers -> Handlers \cup {NoHandler}],
         Return(h, op, ok, S, R),
         \A x \in Handlers :
           /\ S[x].phase = "Streaming" => Open(S[x])
           /\ S[x].phase = "Streaming" /\ ~delivered'[x] => Quiet(S[x])
           /\ S[x].phase = "Accepted" =>
                \/ S[x] = Acceptor
                \/ S[x].ops = {} /\ ~S[x].ref /\ \A p \in Peers : R[p] # x
           /\ S[x].phase = "free" => S[x] = Free
  PROVE  FlowInv' /\ \A x \in Handlers : sess'[x].ops \subseteq S[x].ops
<1> DEFINE T == Reaped(S, R)
<1>1. sess' = T
  BY DEF Return
<1> SUFFICES ASSUME NEW x \in Handlers
             PROVE  /\ T[x].phase = "Streaming" => Open(T[x])
                    /\ T[x].phase = "Streaming" /\ ~delivered'[x] => Quiet(T[x])
                    /\ T[x].phase = "Accepted" => T[x] = Acceptor
                    /\ T[x].phase = "free" => T[x] = Free
                    /\ T[x].ops \subseteq S[x].ops
  BY <1>1 DEF FlowInv, OpenInv, QuietInv, FreshInv
<1>2. \/ T[x] = S[x] \/ T[x] = Free
      \/ /\ ~S[x].ref /\ S[x].ops # {} /\ S[x].phase # "free" /\ T[x].ub = "destroyedInUse"
         /\ T[x].phase = S[x].phase /\ T[x].active = S[x].active
         /\ T[x].closing = S[x].closing /\ T[x].pending = S[x].pending
         /\ T[x].ops = S[x].ops
  BY ReapedFlow
<1>3. S[x].phase = "Accepted" /\ S[x].ops = {} /\ ~S[x].ref /\ (\A p \in Peers : R[p] # x)
        => T[x] = Free
  <2> SUFFICES ASSUME S[x].phase = "Accepted", S[x].ops = {}, ~S[x].ref,
                      \A p \in Peers : R[p] # x
               PROVE  T[x] = Free
    OBVIOUS
  <2>1. ~Held(S, R, x)
    BY DEF Held
  <2> QED
    BY <2>1 DEF Reaped
<1> HIDE DEF T
<1>4. CASE T[x] = S[x]
  BY <1>3, <1>4, FreeLemma
<1>5. CASE T[x] = Free
  <2>1. Free.phase = "free" /\ Free.ops = {}
    BY FreeLemma
  <2> QED
    BY <1>5, <2>1
<1>6. CASE /\ ~S[x].ref /\ S[x].ops # {} /\ S[x].phase # "free" /\ T[x].ub = "destroyedInUse"
           /\ T[x].phase = S[x].phase /\ T[x].active = S[x].active
           /\ T[x].closing = S[x].closing /\ T[x].pending = S[x].pending
           /\ T[x].ops = S[x].ops
  <2>1. S[x].phase = "Accepted" => FALSE
    BY <1>6, FreeFlow
  <2>2. S[x].phase = "Streaming" => Open(T[x])
    BY <1>6 DEF Open
  <2>3. S[x].phase = "Streaming" => delivered'[x]
    BY <1>6 DEF Quiet
  <2> QED
    BY <1>6, <2>1, <2>2, <2>3
<1> QED
  BY <1>2, <1>4, <1>5, <1>6

(* A step of one stream. *)
LEMMA OwnFlow ==
  ASSUME IInv, FlowInv, NEW h \in Handlers, NEW op \in Ops, NEW ok \in BOOLEAN,
         NEW t \in SessionType, t.phase = "Streaming", Open(t), ~delivered[h] => Quiet(t),
         sess[h].pending = "Finish" => t.ops \subseteq sess[h].ops,
         NEW R \in [Peers -> Handlers \cup {NoHandler}],
         Return(h, op, ok, [sess EXCEPT ![h] = t], R), delivered' = delivered
  PROVE  FlowInv' /\ Final
<1> DEFINE S == [sess EXCEPT ![h] = t]
<1>1. /\ S \in [Handlers -> SessionType] /\ S[h] = t
      /\ \A x \in Handlers : x # h => S[x] = sess[x]
  BY DEF IInv, TypeOK
<1>2. Return(h, op, ok, S, R)
  OBVIOUS
<1> HIDE DEF S
<1>3. \A x \in Handlers :
        /\ S[x].phase = "Streaming" => Open(S[x])
        /\ S[x].phase = "Streaming" /\ ~delivered'[x] => Quiet(S[x])
        /\ S[x].phase = "Accepted" => S[x] = Acceptor
        /\ S[x].phase = "free" => S[x] = Free
  BY <1>1 DEF FlowInv, OpenInv, QuietInv, FreshInv
<1>4. FlowInv' /\ \A x \in Handlers : sess'[x].ops \subseteq S[x].ops
  BY <1>1, <1>2, <1>3, ReturnFlow
<1> QED
  BY <1>1, <1>4 DEF Final

LEMMA WriteFlow ==
  ASSUME IInv, FlowInv, Defined, NEW h \in Handlers, NEW op \in Ops, NEW ok \in BOOLEAN,
         Delivers(h, op, ok), HandleWrite(h, op, ok)
  PROVE  FlowInv' /\ Final
<1> DEFINE c == Completed(h, op, ok)
           t == Written(c, ok)
<1>1. /\ sess[h].phase = "Streaming" /\ sess[h].pending = "Write"
      /\ Return(h, op, ok, [sess EXCEPT ![h] = t], registry) /\ delivered' = delivered
  BY DEF HandleWrite
<1>2. /\ c \in SessionType /\ c.phase = "Streaming" /\ c.pending = "Write"
      /\ c.closing => ~c.active
      /\ c.active => (c.outbound # <<>> => c.wp)
      /\ delivered[h]
  <2>1. Found(h, op, c)
    BY <1>1, FoundFlow, Zenon
  <2> HIDE DEF c
  <2> QED
    BY <1>1, <2>1 DEF Found
<1> HIDE DEF c
<1>3. t \in SessionType /\ t.phase = "Streaming" /\ Open(t)
  BY <1>2, WrittenLemma, WrittenFlow DEF Same
<1> HIDE DEF t
<1>4. registry \in [Peers -> Handlers \cup {NoHandler}]
  BY DEF IInv, TypeOK
<1> QED
  BY <1>1, <1>2, <1>3, <1>4, OwnFlow

LEMMA FinishFlow ==
  ASSUME IInv, FlowInv, Defined, NEW h \in Handlers, NEW op \in Ops, NEW ok \in BOOLEAN,
         Delivers(h, op, ok), HandleFinish(h, op, ok)
  PROVE  FlowInv' /\ Final
<1> DEFINE c == Completed(h, op, ok)
           t == [c EXCEPT !.active = FALSE, !.peer = NoPeer, !.ref = FALSE]
<1>1. /\ sess[h].phase = "Streaming" /\ sess[h].pending = "Finish"
      /\ Return(h, op, ok, [sess EXCEPT ![h] = t], Unregister(registry, c))
      /\ delivered' = delivered
  BY DEF HandleFinish
<1>2. /\ c \in SessionType /\ c.phase = "Streaming" /\ c.pending = "Finish"
      /\ c.ub = "none" /\ c.ops \subseteq sess[h].ops
      /\ ~delivered[h] => ~c.wp /\ ~c.closing /\ c.outbound = <<>> /\ c.ops = {}
  <2>1. Found(h, op, c)
    BY <1>1, FoundFlow, Zenon
  <2> HIDE DEF c
  <2> QED
    BY <1>1, <2>1 DEF Found
<1> HIDE DEF c
<1>3. t \in SessionType
  <2>1. FALSE \in BOOLEAN /\ NoPeer \in Peers \cup {NoPeer}
    OBVIOUS
  <2> QED
    BY <1>2, <2>1, Zenon DEF SessionType
<1>4. /\ t.phase = c.phase /\ t.ops = c.ops /\ t.wp = c.wp /\ t.pending = c.pending
      /\ t.outbound = c.outbound /\ t.closing = c.closing /\ t.ub = c.ub
      /\ t.active = FALSE /\ t.ref = FALSE
  BY <1>2, Zenon DEF SessionType
<1> HIDE DEF t
<1>5. Open(t) /\ (~delivered[h] => Quiet(t))
  BY <1>2, <1>4 DEF Open, Quiet
<1> QED
  BY <1>1, <1>2, <1>3, <1>4, <1>5, OwnFlow, UnregisterLemma

LEMMA ReadFailedFlow ==
  ASSUME IInv, FlowInv, Defined, NEW h \in Handlers, NEW op \in Ops, Delivers(h, op, FALSE),
         sess[h].phase = "Streaming", sess[h].pending = "Read", ReadFailed(h, op)
  PROVE  FlowInv' /\ Final
<1> DEFINE c == Completed(h, op, FALSE)
           t == ReadClosed(c)
<1>1. /\ sess[h].phase = "Streaming" /\ sess[h].pending = "Read"
      /\ Return(h, op, FALSE, [sess EXCEPT ![h] = t], Unregister(registry, c))
      /\ delivered' = delivered
  BY DEF ReadFailed
<1>3. /\ c \in SessionType /\ c.phase = "Streaming" /\ c.ub = "none"
      /\ ~delivered[h] => c.ref /\ ~c.wp /\ c.ops = {}
  <2>1. Found(h, op, c)
    BY <1>1, FoundFlow, Zenon
  <2> HIDE DEF c
  <2> QED
    BY <2>1 DEF Found
<1> HIDE DEF c
<1>4. t \in SessionType /\ t.phase = "Streaming"
  BY <1>3, ReadClosedLemma DEF Same
<1>5. /\ ~t.active /\ t.outbound = <<>> /\ t.ref = c.ref
      /\ ~c.wp => /\ t.pending = "Finish" /\ t.ops = c.ops \cup {"Finish"}
                  /\ ~t.wp /\ ~t.closing
                  /\ t.ub = IF "Finish" \in c.ops THEN "sameOpTwice" ELSE c.ub
  BY <1>3, ReadClosedFlow
<1> HIDE DEF t
<1>6. Open(t) /\ (~delivered[h] => Quiet(t))
  BY <1>3, <1>5 DEF Open, Quiet
<1>7. Return(h, op, FALSE, [sess EXCEPT ![h] = t], Unregister(registry, c))
  BY <1>1
<1> QED
  BY <1>1, <1>4, <1>6, <1>7, OwnFlow, UnregisterLemma

LEMMA RejectedFlow ==
  ASSUME IInv, FlowInv, Defined, NEW h \in Handlers, NEW op \in Ops, Delivers(h, op, TRUE),
         sess[h].phase = "Streaming", sess[h].pending = "Read", ReadRefused(h, op)
  PROVE  FlowInv' /\ Final
<1> DEFINE c == Completed(h, op, TRUE)
           t == Reject(c)
<1>1. /\ sess[h].phase = "Streaming" /\ sess[h].pending = "Read"
      /\ Return(h, op, TRUE, [sess EXCEPT ![h] = t], Unregister(registry, c))
      /\ delivered' = delivered
  BY DEF ReadRefused
<1>3. /\ c \in SessionType /\ c.phase = "Streaming" /\ c.ub = "none"
      /\ ~delivered[h] => c.ref /\ c.ops = {}
  <2>1. Found(h, op, c)
    BY <1>1, FoundFlow, Zenon
  <2> HIDE DEF c
  <2> QED
    BY <2>1 DEF Found
<1> HIDE DEF c
<1>4. t \in SessionType /\ t.phase = "Streaming"
  BY <1>3, RejectLemma DEF Same
<1>5. /\ ~t.active /\ t.outbound = <<>> /\ ~t.wp /\ ~t.closing /\ t.ref = c.ref
      /\ t.pending = "Finish" /\ t.ops = c.ops \cup {"Finish"}
      /\ t.ub = IF "Finish" \in c.ops THEN "sameOpTwice" ELSE c.ub
  BY <1>3, RejectFlow
<1> HIDE DEF t
<1>6. Open(t) /\ (~delivered[h] => Quiet(t))
  BY <1>3, <1>5 DEF Open, Quiet
<1>7. Return(h, op, TRUE, [sess EXCEPT ![h] = t], Unregister(registry, c))
  BY <1>1
<1> QED
  BY <1>1, <1>4, <1>6, <1>7, OwnFlow, UnregisterLemma

(* register_session and dispatch_signed_message_recipient: a message is    *)
(* queued on the stream it came on or on another that is active.           *)
LEMMA DispatchFlow ==
  ASSUME NEW S \in [Handlers -> SessionType],
         NEW R \in [Peers -> Handlers \cup {NoHandler}],
         NEW h \in Handlers, NEW m \in Messages, NEW v,
         NEW D, D = Dispatch(S, R, h, m, v),
         NEW s1, s1 = [S[h] EXCEPT !.peer = m.sender]
  PROVE  /\ D.s[h] \in {s1, Enqueue(s1, m)}
         /\ \A x \in Handlers \ {h} :
              D.s[x] = S[x] \/ (D.s[x] = Enqueue(S[x], m) /\ S[x].active)
<1> DEFINE S1 == [S EXCEPT ![h] = s1]
           R1 == [R EXCEPT ![m.sender] = h]
<1>1. [S EXCEPT ![h].peer = m.sender] = S1
  BY Zenon
<1>2. D = IF m.rcpt = Self THEN [s |-> [S1 EXCEPT ![h] = Enqueue(S1[h], m)], r |-> R1]
          ELSE Route(S1, R1, m, v)
  BY <1>1, Zenon DEF Dispatch
<1>3. /\ S1[h] = s1 /\ \A x \in Handlers \ {h} : S1[x] = S[x]
      /\ DOMAIN S1 = Handlers
  OBVIOUS
<1>4. m.sender \in Peers /\ (m.rcpt # Self => m.rcpt \in Peers)
  BY MessagesAssumption
<1>5. R1 \in [Peers -> Handlers \cup {NoHandler}]
  BY <1>4
<1> HIDE DEF S1, R1
<1>6. CASE m.rcpt = Self
  <2>1. \A x \in Handlers :
          [S1 EXCEPT ![h] = Enqueue(S1[h], m)][x] = IF x = h THEN Enqueue(S1[h], m) ELSE S1[x]
    BY <1>3
  <2>2. D.s = [S1 EXCEPT ![h] = Enqueue(S1[h], m)]
    BY <1>2, <1>6
  <2> QED
    BY <1>3, <2>1, <2>2
<1>7. CASE m.rcpt # Self
  <2> DEFINE g == R1[m.rcpt]
  <2>1. \/ D.s = S1
        \/ g # NoHandler /\ S1[g].active /\ D.s = [S1 EXCEPT ![g] = Enqueue(S1[g], m)]
    BY <1>2, <1>7 DEF Route
  <2>2. g \in Handlers \cup {NoHandler}
    BY <1>4, <1>5, <1>7
  <2> HIDE DEF g
  <2>3. CASE D.s = S1
    BY <1>3, <2>3
  <2>4. CASE g # NoHandler /\ S1[g].active /\ D.s = [S1 EXCEPT ![g] = Enqueue(S1[g], m)]
    <3>1. \A x \in Handlers : D.s[x] = IF x = g THEN Enqueue(S1[g], m) ELSE S1[x]
      BY <1>3, <2>2, <2>4
    <3> QED
      BY <1>3, <2>4, <3>1
  <2> QED
    BY <2>1, <2>3, <2>4
<1> QED
  BY <1>6, <1>7

(* A message queued for another stream leaves it open.                     *)
LEMMA OtherOpen ==
  ASSUME NEW s \in SessionType, NEW m \in Messages, Open(s), s.active, s.ub = "none"
  PROVE  Open(Enqueue(s, m))
<1> DEFINE t == Enqueue(s, m)
<1>1. /\ t.active = s.active /\ t.closing = s.closing /\ t.wp
      /\ IF s.wp THEN t.ops = s.ops /\ t.pending = s.pending
                 ELSE t.ops = s.ops \cup {"Write"} /\ t.pending = "Write"
  BY EnqueueFlow DEF Steady
<1> HIDE DEF t
<1>2. Open(t)
  BY <1>1 DEF Open, Flows
<1> QED
  BY <1>2 DEF t

(* The stream that reads on after its message was dispatched.              *)
LEMMA ReadOnOpen ==
  ASSUME NEW c \in SessionType, NEW m \in Messages, NEW op \in Ops,
         c.closing => ~c.active,
         c.active => /\ c.outbound # <<>> => c.wp
                     /\ op # "Read" => "Read" \in c.ops
                     /\ c.wp /\ op = "Read" => "Write" \in c.ops,
         NEW e \in SessionType, e \in {c, Enqueue(c, m)}
  PROVE  Open(ReadNext(e))
<1> DEFINE t == ReadNext(e)
<1>1. /\ t.active = e.active /\ t.closing = e.closing /\ t.outbound = e.outbound
      /\ t.ub = IF "Read" \in e.ops THEN "sameOpTwice" ELSE e.ub
      /\ t.wp = e.wp /\ t.pending = "Read" /\ t.ops = e.ops \cup {"Read"}
  BY ReadNextFlow, ReadNextLemma DEF Steady
<1>2. /\ e.active = c.active /\ e.closing = c.closing
      /\ \/ e.ops = c.ops /\ e.wp = c.wp /\ e.outbound = c.outbound
         \/ c.wp /\ e.wp /\ e.ops = c.ops
         \/ e.wp /\ e.ops = c.ops \cup {"Write"}
  BY EnqueueFlow DEF Steady
<1> HIDE DEF t
<1>3. Open(t)
  BY <1>1, <1>2 DEF Open, Flows
<1> QED
  BY <1>3 DEF t

LEMMA DispatchedFlow ==
  ASSUME IInv, FlowInv, Defined, NEW h \in Handlers, NEW op \in Ops, Delivers(h, op, TRUE),
         sess[h].phase = "Streaming", sess[h].pending = "Read", 
         NEW v \in BOOLEAN, ReadAccepted(h, op, v), Authentic(Completed(h, op, TRUE).request)
  PROVE  FlowInv' /\ Final
<1> DEFINE c == Completed(h, op, TRUE)
           m == c.request
           S == [sess EXCEPT ![h] = c]
           D == Dispatch(S, registry, h, m, v)
           S2 == [D.s EXCEPT ![h] = ReadNext(D.s[h])]
           s1 == [c EXCEPT !.peer = m.sender]
<1>1. /\ sess[h].phase = "Streaming" /\ sess[h].pending = "Read"
      /\ Return(h, op, TRUE, S2, D.r)
      /\ delivered' = [x \in Handlers |-> delivered[x] \/ x \in Enqueued(S, D.s)]
  BY Zenon DEF ReadAccepted
<1>F. Found(h, op, c)
  BY <1>1, FoundFlow, Zenon
<1>2. /\ c \in SessionType /\ c.phase = "Streaming" /\ c.pending = "Read" /\ c.ub = "none"
      /\ c.closing => ~c.active
      /\ c.active => /\ c.outbound # <<>> => c.wp
                     /\ op # "Read" => "Read" \in c.ops
                     /\ c.wp /\ op = "Read" => "Write" \in c.ops
      /\ ~delivered[h] => c.ref /\ ~c.wp /\ ~c.closing /\ c.outbound = <<>> /\ c.ops = {}
  <2> HIDE DEF c
  <2> QED
    BY <1>1, <1>F DEF Found
<1>3. m \in Messages
  <2>1. c.pending = "Read" => c.request \in Messages
    BY <1>1, FoundLemma
  <2> HIDE DEF c
  <2> QED
    BY <1>2, <2>1
<1>4. m.sender \in Peers \cup {NoPeer}
  BY <1>3, MessagesAssumption
<1> HIDE DEF c, m
<1>6. /\ s1 \in SessionType
      /\ s1.phase = c.phase /\ s1.active = c.active /\ s1.closing = c.closing
      /\ s1.ref = c.ref /\ s1.ub = c.ub /\ s1.outbound = c.outbound /\ s1.ops = c.ops
      /\ s1.wp = c.wp
  BY <1>2, <1>4, Zenon DEF SessionType
<1>7. /\ S \in [Handlers -> SessionType] /\ S[h] = c
      /\ \A x \in Handlers : x # h => S[x] = sess[x]
  BY <1>2 DEF IInv, TypeOK
<1>8. registry \in [Peers -> Handlers \cup {NoHandler}] /\ s1 = [S[h] EXCEPT !.peer = m.sender]
  BY <1>7 DEF IInv, TypeOK
<1>D. D = Dispatch(S, registry, h, m, v)
  OBVIOUS
<1> HIDE DEF S, D, s1
<1>9. /\ D.s \in [Handlers -> SessionType] /\ D.r \in [Peers -> Handlers \cup {NoHandler}]
      /\ \A x \in Handlers : Same(S[x], D.s[x])
  <2>1. Dispatched(S, registry, h, m, D)
    BY <1>3, <1>7, <1>8, <1>D, DispatchLemma
  <2> QED
    BY <2>1 DEF Dispatched
<1>10. /\ D.s[h] \in {s1, Enqueue(s1, m)}
       /\ \A x \in Handlers \ {h} :
            D.s[x] = S[x] \/ (D.s[x] = Enqueue(S[x], m) /\ S[x].active)
  BY <1>3, <1>7, <1>8, <1>D, DispatchFlow
<1>11. /\ S2 \in [Handlers -> SessionType] /\ S2[h] = ReadNext(D.s[h])
       /\ \A x \in Handlers : x # h => S2[x] = D.s[x]
       /\ \A x \in Handlers : S2[x].phase = S[x].phase
  BY <1>9, ReadNextLemma DEF Same
<1> HIDE DEF S2
<1>12. Open(S2[h])
  BY <1>2, <1>3, <1>6, <1>9, <1>10, <1>11, ReadOnOpen
<1>13. ASSUME ~delivered'[h] PROVE Quiet(S2[h])
  <2>1. ~delivered[h] /\ h \notin Enqueued(S, D.s)
    BY <1>1, <1>13
  <2>2. Len(Enqueue(s1, m).outbound) > Len(s1.outbound)
    BY <1>3, <1>6, EnqueueFlow
  <2>3. D.s[h] = s1
    BY <1>6, <1>7, <1>10, <2>1, <2>2 DEF Enqueued
  <2> DEFINE t == ReadNext(s1)
  <2>4. /\ t.active = s1.active /\ t.closing = s1.closing /\ t.outbound = s1.outbound
        /\ t.ref = s1.ref /\ t.ub = IF "Read" \in s1.ops THEN "sameOpTwice" ELSE s1.ub
        /\ t.wp = s1.wp /\ t.pending = "Read" /\ t.ops = s1.ops \cup {"Read"}
    BY <1>6, ReadNextFlow, ReadNextLemma DEF Steady
  <2>5. S2[h] = t
    BY <1>11, <2>3
  <2> HIDE DEF t
  <2> QED
    BY <1>2, <1>6, <2>1, <2>4, <2>5 DEF Quiet
<1>14. ASSUME NEW x \in Handlers, x # h
       PROVE  /\ sess[x].phase = "Streaming" => Open(S2[x])
              /\ sess[x].phase = "Streaming" /\ ~delivered'[x] => Quiet(S2[x])
              /\ sess[x].phase = "Accepted" => S2[x] = Acceptor
              /\ sess[x].phase = "free" => S2[x] = Free
  <2>1. /\ sess[x] \in SessionType /\ S2[x] = D.s[x] /\ S[x] = sess[x]
        /\ sess[x].ub = "none"
    BY <1>7, <1>11, <1>14 DEF IInv, TypeOK, Defined
  <2>2. CASE D.s[x] = S[x]
    <3>1. delivered[x] => delivered'[x]
      BY <1>1
    <3> QED
      BY <2>1, <2>2, <3>1 DEF FlowInv, OpenInv, QuietInv, FreshInv
  <2>3. CASE D.s[x] = Enqueue(S[x], m) /\ S[x].active
    <3>1. sess[x].phase # "Accepted" /\ sess[x].phase # "free"
      BY <2>1, <2>3, FreeFlow DEF FlowInv, FreshInv
    <3>2. sess[x].phase = "Streaming" => Open(S2[x])
      BY <1>3, <2>1, <2>3, OtherOpen DEF FlowInv, OpenInv
    <3>3. x \in Enqueued(S, D.s)
      BY <1>3, <2>1, <2>3, EnqueueFlow DEF Enqueued
    <3> QED
      BY <1>1, <3>1, <3>2, <3>3
  <2> QED
    BY <1>10, <1>14, <2>2, <2>3
<1>15. \A x \in Handlers :
         /\ S2[x].phase = "Streaming" => Open(S2[x])
         /\ S2[x].phase = "Streaming" /\ ~delivered'[x] => Quiet(S2[x])
         /\ S2[x].phase = "Accepted" => S2[x] = Acceptor
         /\ S2[x].phase = "free" => S2[x] = Free
  BY <1>2, <1>7, <1>11, <1>12, <1>13, <1>14
<1>16. FlowInv' /\ \A x \in Handlers : sess'[x].ops \subseteq S2[x].ops
  BY <1>1, <1>9, <1>11, <1>15, ReturnFlow
<1>17. ASSUME NEW x \in Handlers, sess[x].phase = "Streaming", sess[x].pending = "Finish"
       PROVE  S2[x] = sess[x]
  <2>1. x # h /\ ~sess[x].active
    BY <1>1, <1>17 DEF FlowInv, OpenInv, Open
  <2> QED
    BY <1>7, <1>10, <1>11, <2>1
<1> QED
  BY <1>16, <1>17 DEF Final

(* A stream is connected: it is open and quiet, and its clone is fresh.    *)
LEMMA ConnectedFlow ==
  ASSUME IInv, FlowInv, Defined, NEW h \in Handlers, NEW op \in Ops, NEW ok \in BOOLEAN,
         ok, Delivers(h, op, ok), Connect(h, op, ok)
  PROVE  FlowInv' /\ Final
<1> DEFINE c == Completed(h, op, ok)
           t0 == [c EXCEPT !.phase = "Streaming", !.active = TRUE]
           t == ReadNext(t0)
<1>1. PICK n \in Handlers :
        /\ sess[n].phase = "free"
        /\ Return(h, op, ok, [sess EXCEPT ![h] = t, ![n] = Acceptor], registry)
  BY DEF Connect
<1>2. sess[h].phase = "Accepted" /\ delivered' = [delivered EXCEPT ![h] = FALSE]
  BY DEF Connect
<1>3. sess[h] = Acceptor /\ op = "Accept" /\ n # h
  BY <1>1, <1>2, FreeLemma DEF FlowInv, FreshInv, Delivers
<1>4. c \in SessionType
  <2>1. TypeOK /\ op # "Read"
    BY <1>3 DEF IInv
  <2> QED
    BY <2>1, CompletedLemma
<1>5. /\ c.ref /\ ~c.closing /\ c.ub = "none" /\ c.outbound = <<>> /\ ~c.wp /\ c.ops = {}
  <2>1. /\ c.ops = sess[h].ops \ {op} /\ c.wp = sess[h].wp /\ c.closing = sess[h].closing
        /\ c.ref = sess[h].ref /\ c.ub = sess[h].ub /\ c.outbound = sess[h].outbound
    <3>1. sess[h] \in SessionType
      BY DEF IInv, TypeOK
    <3> QED
      BY <3>1, Zenon DEF Completed, SessionType
  <2> HIDE DEF c
  <2> QED
    BY <1>3, <2>1, FreeLemma, FreeFlow
<1> HIDE DEF c
<1>6. t0 \in SessionType
  <2>1. "Streaming" \in {"free", "Accepted", "Streaming"} /\ TRUE \in BOOLEAN
    OBVIOUS
  <2> QED
    BY <1>4, <2>1, Zenon DEF SessionType
<1>7. /\ t0.phase = "Streaming" /\ t0.ops = c.ops /\ t0.wp = c.wp /\ t0.closing = c.closing
      /\ t0.outbound = c.outbound /\ t0.ref = c.ref /\ t0.ub = c.ub
  BY <1>4, Zenon DEF SessionType
<1> HIDE DEF t0
<1>8. t \in SessionType /\ t.phase = "Streaming" /\ Open(t) /\ Quiet(t)
  <2>1. /\ t \in SessionType /\ t.phase = t0.phase /\ t.wp = t0.wp /\ t.pending = "Read"
        /\ t.ops = t0.ops \cup {"Read"} /\ t.closing = t0.closing
        /\ t.outbound = t0.outbound /\ t.ref = t0.ref
        /\ t.ub = IF "Read" \in t0.ops THEN "sameOpTwice" ELSE t0.ub
    BY <1>6, ReadNextLemma, ReadNextFlow DEF Same, Steady
  <2> HIDE DEF t
  <2> QED
    BY <1>5, <1>7, <2>1 DEF Open, Flows, Quiet
<1> HIDE DEF t
<1> DEFINE S == [sess EXCEPT ![h] = t, ![n] = Acceptor]
<1>9. /\ S \in [Handlers -> SessionType] /\ S[h] = t /\ S[n] = Acceptor
      /\ \A x \in Handlers : x # h /\ x # n => S[x] = sess[x]
  BY <1>3, <1>8, FreeLemma DEF IInv, TypeOK
<1>10. Return(h, op, ok, S, registry) /\ registry \in [Peers -> Handlers \cup {NoHandler}]
  BY <1>1 DEF IInv, TypeOK
<1> HIDE DEF S
<1>11. \A x \in Handlers :
         /\ S[x].phase = "Streaming" => Open(S[x])
         /\ S[x].phase = "Streaming" /\ ~delivered'[x] => Quiet(S[x])
         /\ S[x].phase = "Accepted" => S[x] = Acceptor
         /\ S[x].phase = "free" => S[x] = Free
  <2>1. \A x \in Handlers : x # h => delivered'[x] = delivered[x]
    BY <1>2 DEF IInv, TypeOK
  <2> QED
    BY <1>8, <1>9, <2>1, FreeLemma DEF FlowInv, OpenInv, QuietInv, FreshInv
<1>12. FlowInv' /\ \A x \in Handlers : sess'[x].ops \subseteq S[x].ops
  BY <1>9, <1>10, <1>11, ReturnFlow
<1> QED
  BY <1>1, <1>2, <1>9, <1>12 DEF Final

LEMMA ReleasedFlow ==
  ASSUME IInv, FlowInv, Defined, NEW h \in Handlers, NEW op \in Ops, NEW ok \in BOOLEAN,
         ~ok, Delivers(h, op, ok), Connect(h, op, ok)
  PROVE  FlowInv' /\ Final
<1> DEFINE c == Completed(h, op, ok)
           t == [c EXCEPT !.ref = FALSE]
           S == [sess EXCEPT ![h] = t]
<1>1. /\ sess[h].phase = "Accepted" /\ Return(h, op, ok, S, registry)
      /\ delivered' = [delivered EXCEPT ![h] = FALSE]
  BY DEF Connect
<1>2. sess[h] = Acceptor /\ op = "Accept"
  BY <1>1, FreeLemma DEF FlowInv, FreshInv, Delivers
<1>3. c \in SessionType /\ c.ops = {} /\ c.phase = "Accepted"
  <2>1. TypeOK /\ op # "Read"
    BY <1>2 DEF IInv
  <2>2. c \in SessionType /\ c.ops = sess[h].ops \ {op} /\ c.phase = sess[h].phase
    BY <2>1, CompletedLemma
  <2> HIDE DEF c
  <2> QED
    BY <1>2, <2>2, FreeLemma
<1> HIDE DEF c
<1>4. t \in SessionType /\ t.phase = c.phase /\ t.ops = c.ops /\ t.ref = FALSE
  BY <1>3, Zenon DEF SessionType
<1> HIDE DEF t
<1>5. /\ S \in [Handlers -> SessionType] /\ S[h] = t
      /\ \A x \in Handlers : x # h => S[x] = sess[x]
  BY <1>4 DEF IInv, TypeOK
<1>6. registry \in [Peers -> Handlers \cup {NoHandler}]
  BY DEF IInv, TypeOK
<1> HIDE DEF S
<1>7. \A p \in Peers : registry[p] # h
  BY <1>1 DEF IInv, RegistryInv
<1>8. \A x \in Handlers :
        /\ S[x].phase = "Streaming" => Open(S[x])
        /\ S[x].phase = "Streaming" /\ ~delivered'[x] => Quiet(S[x])
        /\ S[x].phase = "Accepted" =>
             S[x] = Acceptor \/ (S[x].ops = {} /\ ~S[x].ref /\ \A p \in Peers : registry[p] # x)
        /\ S[x].phase = "free" => S[x] = Free
  <2>1. \A x \in Handlers : x # h => delivered'[x] = delivered[x]
    BY <1>1 DEF IInv, TypeOK
  <2> QED
    BY <1>3, <1>4, <1>5, <1>7, <2>1 DEF FlowInv, OpenInv, QuietInv, FreshInv
<1>9. FlowInv' /\ \A x \in Handlers : sess'[x].ops \subseteq S[x].ops
  BY <1>1, <1>5, <1>6, <1>8, ReturnFlow
<1> QED
  BY <1>1, <1>5, <1>9 DEF Final

LEMMA InitFlow == Init => FlowInv
<1> SUFFICES ASSUME Init, NEW h \in Handlers
             PROVE  \/ sess[h] = Free /\ sess[h].phase = "free"
                    \/ sess[h] = Acceptor /\ sess[h].phase = "Accepted"
  BY FreeLemma DEF FlowInv, OpenInv, QuietInv, FreshInv
<1> QED
  BY FreeLemma DEF Init

LEMMA StepFlow == IInv /\ FlowInv /\ [Next]_vars => FlowInv' /\ Final
<1> SUFFICES ASSUME IInv, FlowInv, [Next]_vars PROVE FlowInv' /\ Final
  OBVIOUS
<1>1. ASSUME UNCHANGED <<sess, delivered>> PROVE FlowInv' /\ Final
  BY <1>1 DEF FlowInv, OpenInv, QuietInv, FreshInv, Final
<1>2. ASSUME Defined, NEW h \in Handlers, Completion(h) PROVE FlowInv' /\ Final
  <2>1. PICK op \in Ops, ok \in BOOLEAN : Delivers(h, op, ok) /\ Process(h, op, ok)
    BY <1>2 DEF Completion
  <2>2. CASE Connect(h, op, ok)
    BY <1>2, <2>1, <2>2, ConnectedFlow, ReleasedFlow
  <2>3. CASE HandleRead(h, op, ok)
    <3>1. CASE ~ok
      BY <1>2, <2>1, <2>3, <3>1, ReadFailedFlow DEF HandleRead
    <3>2. CASE ok
      <4>1. sess[h].phase = "Streaming" /\ sess[h].pending = "Read" /\ Delivers(h, op, TRUE)
        BY <2>1, <2>3, <3>2 DEF HandleRead
      <4>2. PICK first, again \in Verdicts(Completed(h, op, TRUE).request) :
              IF first THEN ReadAccepted(h, op, again) ELSE ReadRefused(h, op)
        BY <2>3, <3>2 DEF HandleRead
      <4>3. again \in BOOLEAN /\ (first => Authentic(Completed(h, op, TRUE).request))
        BY <4>2 DEF Verdicts
      <4> QED
        BY <1>2, <4>1, <4>2, <4>3, RejectedFlow, DispatchedFlow
    <3> QED
      BY <3>1, <3>2
  <2>4. CASE HandleWrite(h, op, ok)
    BY <1>2, <2>1, <2>4, WriteFlow
  <2>5. CASE HandleFinish(h, op, ok)
    BY <1>2, <2>1, <2>5, FinishFlow
  <2> QED
    BY <2>1, <2>2, <2>3, <2>4, <2>5 DEF Process
<1> QED
  BY <1>1, <1>2 DEF Next, ClientSend, ClientHalfClose, ClientBreak, Shutdown, vars

LEMMA Flow == Spec => []FlowInv
<1>1. Init => IInv /\ FlowInv
  BY InitInv, InitFlow
<1>2. IInv /\ FlowInv /\ [Next]_vars => (IInv /\ FlowInv)'
  BY StepInv, StepFlow
<1> QED
  BY <1>1, <1>2, PTL DEF Spec

(* message_stream.cc:155-204: as long as nothing is enqueued for a         *)
(* stream's client, its handler has exactly the operation pending_ names   *)
(* outstanding until its Finish completes, whatever the other streams do.  *)
THEOREM Quietness == Spec => []QuietStreamsSound
<1>1. FlowInv => QuietStreamsSound
  BY DEF FlowInv, QuietInv, Quiet, QuietStreamsSound
<1> QED
  BY <1>1, Flow, PTL

(* enqueue_outgoing and handle_write_completion: the messages queued for   *)
(* an active stream wait for a Write that is outstanding.                  *)
THEOREM NoStall == Spec => []NoIdleQueue
<1>1. IInv /\ FlowInv => NoIdleQueue
  <2> SUFFICES ASSUME IInv, FlowInv, NEW h \in Handlers, Defined, sess[h].active,
                      sess[h].outbound # <<>>
               PROVE  "Write" \in sess[h].ops
    BY DEF NoIdleQueue
  <2>1. sess[h].phase = "Streaming"
    BY FreeFlow DEF FlowInv, FreshInv, IInv, TypeOK, SessionType
  <2> QED
    BY <2>1 DEF FlowInv, OpenInv, Open, Flows, Defined
<1> QED
  BY <1>1, Flow, Invariance, PTL

(* finish_stream, enqueue_outgoing: once a handler has asked gRPC to finish *)
(* its stream no step, of its own or of another stream, makes it ask for   *)
(* an operation on it again.                                               *)
THEOREM Finality == Spec => NothingAfterFinish
<1>1. IInv /\ FlowInv /\ [Next]_vars
        => [\A h \in Handlers : sess[h].phase = "Streaming" /\ sess[h].pending = "Finish"
              => sess'[h].ops \subseteq sess[h].ops]_vars
  BY StepFlow DEF Final
<1> QED
  BY <1>1, Flow, Invariance, PTL DEF Spec, NothingAfterFinish
=============================================================================
