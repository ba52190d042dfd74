---------------------------- MODULE MessageStream ----------------------------
(***************************************************************************)
(* The message service's bidirectional stream: MessageStreamHandler        *)
(* (minion/message/message_stream.cc), the registry of streams             *)
(* (stream_router.cc), the choice of a recipient (recipient_dispatch.cc)   *)
(* and the check of a message's sender (common/peer).                      *)
(*                                                                         *)
(* One thread takes completions from one queue and calls process on the    *)
(* handler a completion is tagged with.  A handler has up to one Read and  *)
(* one Write outstanding at once, but a single field, pending_, that tells *)
(* process which of the two the completion is for; the model dispatches on *)
(* that field as the code does, whatever operation completed.              *)
(*                                                                         *)
(* `ub` is set where the program's behaviour stops being defined: an       *)
(* operation issued while the same one is outstanding (gRPC aborts), a     *)
(* pop_front on an empty deque, a handler destroyed while it is the tag of *)
(* an outstanding operation.  Nothing is modelled after that.              *)
(*                                                                         *)
(* A peer's verifier keeps one context for every message it is given, by   *)
(* the streams and by the other users of the store (module AuthStore), so  *)
(* a genuine message may be refused; an exception of the library ends the  *)
(* process, which here is a behaviour that goes no further.                *)
(***************************************************************************)
EXTENDS Integers, Sequences, FiniteSets

CONSTANTS
  Handlers,     \* handler objects that can exist at the same time (bound)
  Peers,        \* peer ids
  Known,        \* peers whose certificate the AuthStore holds
  Self,         \* the node's own id, or the empty recipient
  Messages,     \* signed messages clients send (bound)
  MaxMsgs,      \* messages sent by all clients together (bound)
  NoPeer, NoHandler, NoMsg

ASSUME PeersAssumption ==
  /\ Known \subseteq Peers
  /\ Self \notin Peers /\ NoPeer \notin Peers
  /\ NoHandler \notin Handlers
ASSUME MessagesAssumption ==
  /\ Messages \subseteq [sender : Peers, rcpt : Peers \cup {Self}, valid : BOOLEAN]
  /\ NoMsg \notin Messages

Ops == {"Accept", "Read", "Write", "Finish"}

VARIABLES
  sess,         \* handler -> its fields and the operations gRPC holds for it
  registry,     \* by_peer_: peer -> handler or NoHandler
  serverUp,     \* the server has not been shut down
  client,       \* handler -> "none" | "open" | "halfClosed" | "broken"
  inbox,        \* handler -> messages sent on the stream and not read
  sent,         \* number of messages clients have sent
  authed,       \* history: handler -> senders authenticated on the stream
  delivered     \* history: handler -> a message was ever enqueued for its client

vars == <<sess, registry, serverUp, client, inbox, sent, authed, delivered>>

(* Memory that is not a handler. *)
Free ==
  [phase |-> "free", pending |-> "Read", ref |-> FALSE, active |-> FALSE,
   peer |-> NoPeer, outbound |-> <<>>, wp |-> FALSE, closing |-> FALSE,
   request |-> NoMsg, response |-> NoMsg, ops |-> {}, ub |-> "none"]

(* A handler after its first process: armed with itself, RPC requested. *)
UnboundAcceptor == [Free EXCEPT !.phase = "Accepted", !.ref = TRUE]  \* faulty: not bound

Acceptor == [Free EXCEPT !.phase = "Accepted", !.ref = TRUE, !.ops = {"Accept"}]

Init ==
  \E first \in Handlers :
    /\ sess      = [h \in Handlers |-> IF h = first THEN Acceptor ELSE Free]
    /\ registry  = [p \in Peers |-> NoHandler]
    /\ serverUp  = TRUE
    /\ client    = [h \in Handlers |-> "none"]
    /\ inbox     = [h \in Handlers |-> <<>>]
    /\ sent      = 0
    /\ authed    = [h \in Handlers |-> {}]
    /\ delivered = [h \in Handlers |-> FALSE]

Defined == \A h \in Handlers : sess[h].ub = "none"

-----------------------------------------------------------------------------
(* The clients and gRPC.                                                   *)

ClientSend(h) ==
  /\ client[h] = "open" /\ sent < MaxMsgs
  /\ \E m \in Messages : inbox' = [inbox EXCEPT ![h] = Append(@, m)]
  /\ sent' = sent + 1
  /\ UNCHANGED <<sess, registry, serverUp, client, authed, delivered>>

ClientHalfClose(h) ==
  /\ client[h] = "open"
  /\ client' = [client EXCEPT ![h] = "halfClosed"]
  /\ UNCHANGED <<sess, registry, serverUp, inbox, sent, authed, delivered>>

ClientBreak(h) ==
  /\ client[h] \in {"open", "halfClosed"}
  /\ client' = [client EXCEPT ![h] = "broken"]
  /\ UNCHANGED <<sess, registry, serverUp, inbox, sent, authed, delivered>>

Shutdown ==
  /\ serverUp /\ serverUp' = FALSE
  /\ UNCHANGED <<sess, registry, client, inbox, sent, authed, delivered>>

(* The `ok` flag with which gRPC may deliver the completion of op. *)
Delivers(h, op, ok) ==
  /\ op \in sess[h].ops
  /\ op = "Accept" => /\ ok = serverUp
                      /\ ok => \E n \in Handlers : sess[n].phase = "free"
  /\ op = "Read" => IF ok THEN inbox[h] # <<>>
                    ELSE \/ client[h] = "broken"
                         \/ client[h] = "halfClosed" /\ inbox[h] = <<>>
  /\ op \in {"Write", "Finish"} => ok \/ client[h] = "broken"

(* The handler as the completion finds it: the operation is over, and a    *)
(* successful Read has filled `request`.                                   *)
Completed(h, op, ok) ==
  [sess[h] EXCEPT !.ops = @ \ {op},
                  !.request = IF op = "Read" /\ ok THEN Head(inbox[h]) ELSE @]

-----------------------------------------------------------------------------
(* MessageStreamHandler on one handler's fields.                           *)

Issue(s, op) ==
  IF op \in s.ops THEN [s EXCEPT !.ub = "sameOpTwice"]
                  ELSE [s EXCEPT !.ops = @ \cup {op}]

ReadNext(s) == Issue([s EXCEPT !.pending = "Read"], "Read")
FinishOp(s) == Issue([s EXCEPT !.pending = "Finish"], "Finish")

(* enqueue_outgoing *)
Enqueue(s, m) ==
  LET q == [s EXCEPT !.outbound = Append(@, m)]
  IN  IF s.wp THEN q
      ELSE Issue([q EXCEPT !.response = Head(q.outbound), !.wp = TRUE,
                           !.pending = "Write"], "Write")

(* begin_shutdown_after_read_closed *)
ReadClosedStillActive(s) ==     \* faulty: session_active_ is not reset
  LET q == [s EXCEPT !.peer = NoPeer, !.outbound = <<>>, !.closing = s.wp]
  IN  IF s.wp THEN q ELSE FinishOp(q)

ReadClosed(s) ==
  LET q == [s EXCEPT !.active = FALSE, !.peer = NoPeer, !.outbound = <<>>,
                     !.closing = s.wp]
  IN  IF s.wp THEN q ELSE FinishOp(q)

(* shutdown_with_status *)
RejectKeepsPending(s) ==        \* faulty: pending_ is not set to kFinish
  Issue([s EXCEPT !.active = FALSE, !.peer = NoPeer, !.outbound = <<>>,
                  !.wp = FALSE, !.closing = FALSE], "Finish")

Reject(s) ==
  FinishOp([s EXCEPT !.active = FALSE, !.peer = NoPeer, !.outbound = <<>>,
                     !.wp = FALSE, !.closing = FALSE])

(* handle_write_completion *)
Drained(s) ==
  LET q == [s EXCEPT !.outbound = <<>>, !.wp = FALSE, !.closing = FALSE]
  IN  IF s.closing THEN FinishOp(q) ELSE q

WrittenOnce(s, ok) ==           \* faulty: the next message is not written
  IF ~ok \/ Len(s.outbound) <= 1 THEN Drained(s)
  ELSE [s EXCEPT !.outbound = Tail(@)]

Written(s, ok) ==
  IF ~ok THEN Drained(s)
  ELSE IF s.outbound = <<>> THEN [s EXCEPT !.ub = "popOfEmpty"]
  ELSE LET rest == Tail(s.outbound)
       IN  IF rest = <<>> THEN Drained(s)
           ELSE Issue([s EXCEPT !.outbound = rest, !.response = Head(rest),
                                !.pending = "Write"], "Write")

-----------------------------------------------------------------------------
(* The registry and the choice of a recipient.                             *)

(* AuthStore::has and validate_message, as used by                         *)
(* authenticate_signed_message_data and by route_to_recipient.             *)
KnownSender(m) == m.sender \in Known      \* faulty: has without validate_message

Authentic(m) == m.sender \in Known /\ m.valid

(* A verdict is TRUE for authentic messages only, and FALSE for any. *)
Verdicts(m) == {v \in BOOLEAN : v => Authentic(m)}

(* unregister_if_registered of a handler whose fields were s *)
Unregister(R, s) ==
  IF s.peer = NoPeer THEN R ELSE [R EXCEPT ![s.peer] = NoHandler]

(* route_to_recipient, which validates once more, with this verdict: the   *)
(* sessions and the registry after it                                      *)
Route(S, R, m, verdict) ==
  LET g == R[m.rcpt]
  IN  IF ~verdict \/ g = NoHandler THEN [s |-> S, r |-> R]
      ELSE IF ~S[g].active
      THEN [s |-> S, r |-> [R EXCEPT ![m.rcpt] = NoHandler]]
      ELSE [s |-> [S EXCEPT ![g] = Enqueue(@, m)], r |-> R]

(* register_session, then dispatch_signed_message_recipient *)
Dispatch(S, R, h, m, verdict) ==
  LET S1 == [S EXCEPT ![h].peer = m.sender]
      R1 == [R EXCEPT ![m.sender] = h]
  IN  IF m.rcpt = Self
      THEN [s |-> [S1 EXCEPT ![h] = Enqueue(@, m)], r |-> R1]
      ELSE Route(S1, R1, m, verdict)

-----------------------------------------------------------------------------
(* The end of a process call.  A handler lives as long as its self_ref_ or *)
(* the registry holds it.                                                  *)

HeldBySelf(S, R, h) == S[h].ref    \* faulty: the registry keeps plain pointers

Held(S, R, h) == S[h].ref \/ \E p \in Peers : R[p] = h

Reaped(S, R) ==
  [h \in Handlers |->
     IF S[h].phase = "free" \/ Held(S, R, h) THEN S[h]
     ELSE IF S[h].ops = {} THEN Free
     ELSE [S[h] EXCEPT !.ub = "destroyedInUse"]]

(* Which handlers got a message for their client by going from S to T. *)
Enqueued(S, T) ==
  {h \in Handlers : Len(T[h].outbound) > Len(S[h].outbound)}

Return(h, op, ok, S, R) ==
  LET T == Reaped(S, R)
      gone == {x \in Handlers : sess[x].phase # "free" /\ T[x].phase = "free"}
  IN  /\ sess'     = T
      /\ registry' = R
      /\ client'   = [x \in Handlers |->
           IF x \in gone THEN "none"
           ELSE IF x = h /\ op = "Accept" THEN "open" ELSE client[x]]
      /\ inbox'    = [x \in Handlers |->
           IF x \in gone THEN <<>>
           ELSE IF x = h /\ op = "Read" /\ ok THEN Tail(inbox[x]) ELSE inbox[x]]
      /\ UNCHANGED <<serverUp, sent>>

(* process before the stream is connected.  A clone starts with fresh      *)
(* fields and requests the next RPC at once.                               *)
Connect(h, op, ok) ==
  /\ sess[h].phase = "Accepted"
  /\ IF ok
     THEN \E n \in {x \in Handlers : sess[x].phase = "free"} :
            Return(h, op, ok,
              [sess EXCEPT
                 ![h] = ReadNext([Completed(h, op, ok) EXCEPT
                                    !.phase = "Streaming", !.active = TRUE]),
                 ![n] = Acceptor],
              registry)
     ELSE Return(h, op, ok,
            [sess EXCEPT ![h] = [Completed(h, op, ok) EXCEPT !.ref = FALSE]],
            registry)
  /\ authed'    = [authed EXCEPT ![h] = {}]
  /\ delivered' = [delivered EXCEPT ![h] = FALSE]

(* handle_read_completion, when the Read failed, when the message read is   *)
(* refused and when it is accepted.                                        *)
ReadFailed(h, op) ==
  /\ LET s == Completed(h, op, FALSE)
     IN  Return(h, op, FALSE, [sess EXCEPT ![h] = ReadClosed(s)], Unregister(registry, s))
  /\ UNCHANGED <<authed, delivered>>

ReadRefused(h, op) ==
  /\ LET s == Completed(h, op, TRUE)
     IN  Return(h, op, TRUE, [sess EXCEPT ![h] = Reject(s)], Unregister(registry, s))
  /\ UNCHANGED <<authed, delivered>>

ReadAccepted(h, op, again) ==
  LET s == Completed(h, op, TRUE)
      m == s.request
      S == [sess EXCEPT ![h] = s]
      D == Dispatch(S, registry, h, m, again)
  IN  /\ Return(h, op, TRUE, [D.s EXCEPT ![h] = ReadNext(@)], D.r)
      /\ authed' = [authed EXCEPT ![h] = @ \cup {m.sender}]
      /\ delivered' = [x \in Handlers |-> delivered[x] \/ x \in Enqueued(S, D.s)]

HandleRead(h, op, ok) ==
  /\ sess[h].phase = "Streaming" /\ sess[h].pending = "Read"
  /\ IF ~ok THEN ReadFailed(h, op)
     ELSE LET verdicts == Verdicts(Completed(h, op, ok).request)
          IN  \E first, again \in verdicts :
                IF first THEN ReadAccepted(h, op, again) ELSE ReadRefused(h, op)

HandleWrite(h, op, ok) ==
  /\ sess[h].phase = "Streaming" /\ sess[h].pending = "Write"
  /\ Return(h, op, ok, [sess EXCEPT ![h] = Written(Completed(h, op, ok), ok)],
            registry)
  /\ UNCHANGED <<authed, delivered>>

(* complete_after_stream_finish *)
HandleFinish(h, op, ok) ==
  /\ sess[h].phase = "Streaming" /\ sess[h].pending = "Finish"
  /\ LET s == Completed(h, op, ok)
     IN  Return(h, op, ok,
           [sess EXCEPT ![h] = [s EXCEPT !.active = FALSE, !.peer = NoPeer,
                                         !.ref = FALSE]],
           Unregister(registry, s))
  /\ UNCHANGED <<authed, delivered>>

Process(h, op, ok) ==
  \/ Connect(h, op, ok)
  \/ HandleRead(h, op, ok)
  \/ HandleWrite(h, op, ok)
  \/ HandleFinish(h, op, ok)

Completion(h) ==
  \E op \in Ops, ok \in BOOLEAN : Delivers(h, op, ok) /\ Process(h, op, ok)

Next ==
  /\ Defined
  /\ \/ \E h \in Handlers :
          ClientSend(h) \/ ClientHalfClose(h) \/ ClientBreak(h) \/ Completion(h)
     \/ Shutdown

Spec == Init /\ [][Next]_vars

-----------------------------------------------------------------------------
(* Properties.                                                             *)

(* The fields of every handler, the registry and the other end.            *)
SessionType ==
  [phase : {"free", "Accepted", "Streaming"}, pending : {"Read", "Write", "Finish"},
   ref : BOOLEAN, active : BOOLEAN, peer : Peers \cup {NoPeer},
   outbound : Seq(Messages), wp : BOOLEAN, closing : BOOLEAN,
   request : Messages \cup {NoMsg}, response : Messages \cup {NoMsg},
   ops : SUBSET Ops,
   ub : {"none", "sameOpTwice", "popOfEmpty", "destroyedInUse"}]

TypeOK ==
  /\ sess      \in [Handlers -> SessionType]
  /\ registry  \in [Peers -> Handlers \cup {NoHandler}]
  /\ serverUp  \in BOOLEAN
  /\ client    \in [Handlers -> {"none", "open", "halfClosed", "broken"}]
  /\ inbox     \in [Handlers -> Seq(Messages)]
  /\ sent      \in Nat
  /\ authed    \in [Handlers -> SUBSET Peers]
  /\ delivered \in [Handlers -> BOOLEAN]

(* While the server is up exactly one handler waits for the next stream,   *)
(* although every handler makes its own successor (clone_acceptor_for_     *)
(* next_request) and some stay alive in the registry after they closed.    *)
OneAcceptor ==
  serverUp => Cardinality({h \in Handlers : "Accept" \in sess[h].ops}) = 1

(* What a client is written, or is going to be: only messages whose sender *)
(* is known and whose signature verified, whichever stream they came on.   *)
Genuine == {m \in Messages : m.sender \in Known /\ m.valid}

DeliveredAuthentic ==
  \A h \in Handlers :
    /\ \A i \in DOMAIN sess[h].outbound : sess[h].outbound[i] \in Genuine
    /\ "Write" \in sess[h].ops => sess[h].response \in Genuine

(* A message reaches only a stream on which its recipient has proved who   *)
(* it is, or, addressed to the node itself, one on which its sender has:   *)
(* the stream it came on, and any other of the same sender.  Memory        *)
(* of a closed stream that the registry or a queue still points to never   *)
(* makes it reach another one.                                             *)
Addressee(h, m) ==
  IF m.rcpt = Self THEN m.sender \in authed[h] ELSE m.rcpt \in authed[h]

DeliveredToAddressee ==
  \A h \in Handlers :
    /\ \A i \in DOMAIN sess[h].outbound : Addressee(h, sess[h].outbound[i])
    /\ "Write" \in sess[h].ops => Addressee(h, sess[h].response)

(* A message queued for an open stream is being written or waits for a     *)
(* write in progress: no queue is left that nothing will send.             *)
NoIdleQueue ==
  \A h \in Handlers :
    Defined /\ sess[h].active /\ sess[h].outbound # <<>> => "Write" \in sess[h].ops

(* Once a handler has asked gRPC to finish its stream it asks for nothing  *)
(* more on it: neither a message routed to it by another stream nor a late *)
(* completion of its own makes it read or write again.                     *)
NothingAfterFinish ==
  [][\A h \in Handlers :
       sess[h].phase = "Streaming" /\ sess[h].pending = "Finish"
         => sess'[h].ops \subseteq sess[h].ops]_vars

(* A stream for whose client nothing was ever enqueued keeps the contract  *)
(* of GRPCHandler::process: one operation outstanding, the one pending_    *)
(* names, until its Finish completes.  Whatever goes wrong in this class   *)
(* needs a delivery.                                                       *)
QuietStreamsSound ==
  \A h \in Handlers :
    sess[h].phase = "Streaming" /\ ~delivered[h] =>
      /\ sess[h].ub = "none"
      /\ sess[h].ops = IF sess[h].ref THEN {sess[h].pending} ELSE {}

(* stream_router.h:21, "Registry of open stream sessions by peer id": a    *)
(* peer with an open stream can be reached through the registry.           *)
RegistryKnowsOpenStreams ==
  \A h \in Handlers :
    Defined /\ sess[h].active /\ sess[h].peer # NoPeer
      => registry[sess[h].peer] # NoHandler

(* message_stream.cc:36, self_ref_ "Keeps the handler alive until an       *)
(* explicit teardown (registry + CQ completion paths)": no handler is      *)
(* destroyed while gRPC still holds an operation tagged with it.           *)
AliveUntilTeardown ==
  \A h \in Handlers : sess[h].ub # "destroyedInUse"

(* callback.h:15: process "MUST emit another CQ event or destroy the       *)
(* handler safely at the end".                                             *)
EventOrDestroyed ==
  \A h \in Handlers :
    Defined /\ sess[h].phase # "free" /\ sess[h].ref => sess[h].ops # {}
=============================================================================
