---------------------------- MODULE LimitSession ----------------------------
(***************************************************************************)
(* The resource guard (minion/resource_guard/resource_guard.cc): one       *)
(* thread takes completion events from one queue and calls                 *)
(* LimitHandler::process on the handler each event is tagged with.         *)
(*                                                                         *)
(* A handler is one heap object.  It waits for an RPC (phase "Accepted"),  *)
(* clones the next acceptor when one arrives, serves the stream by turns   *)
(* (read a message, write its acknowledgement, read the next) and destroys *)
(* itself when its Finish completes.  A handler that destroyed itself is   *)
(* "free": its identity stands for memory that a later clone may get.      *)
(*                                                                         *)
(* `ops` is what gRPC holds for the handler: the operations issued with    *)
(* this handler as their tag whose completion has not been delivered.      *)
(* `client` and `inbox` are the other end of the stream.                   *)
(***************************************************************************)
EXTENDS Integers, Sequences, FiniteSets, FiniteSetsExt

CONSTANTS
  Handlers,     \* handler objects that can exist at the same time (bound)
  Resources,    \* names a bill can mention
  Messages,     \* messages clients send (bound)
  MaxMsgs       \* messages one client sends in a session (bound)

(* A map from some resource names to amounts (the code's doubles).         *)
IsBill(b) == \E R \in SUBSET Resources : b \in [R -> Int]
Kinds == {"ResourceRequest", "BillAppend", "BillOverwrite", "ResourceFinish",
          "V_NOT_SET"}
Ops   == {"Accept", "Read", "Write", "Finish"}

ASSUME MessagesAssumption == \A m \in Messages : m.v \in Kinds /\ IsBill(m.items)
ASSUME MaxMsgsAssumption  == MaxMsgs \in Nat

VARIABLES
  phase,        \* "free" | "Accepted" | "Streaming"  (stream_connect_phase_)
  pending,      \* "Read" | "Write" | "Finish"        (pending_)
  bill,         \* res_request_
  ops,          \* operations gRPC holds for the handler
  serverUp,     \* the server has not been shut down
  client,       \* "none" | "open" | "halfClosed" | "broken"
  inbox,        \* messages sent on the stream and not read
  taken,        \* history: messages taken from the stream, without the finish
  acks          \* history: acknowledgements handed to the transport

vars == <<phase, pending, bill, ops, serverUp, client, inbox, taken, acks>>

EmptyBill == [r \in {} |-> 0]

(* A message whose oneof is not set: what is left after request.clear_v(). *)
Cleared == [v |-> "V_NOT_SET", items |-> EmptyBill]

Init ==
  \E first \in Handlers :
    /\ phase    = [h \in Handlers |-> IF h = first THEN "Accepted" ELSE "free"]
    /\ ops      = [h \in Handlers |-> IF h = first THEN {"Accept"} ELSE {}]
    /\ pending  = [h \in Handlers |-> "Read"]
    /\ bill     = [h \in Handlers |-> EmptyBill]
    /\ serverUp = TRUE
    /\ client   = [h \in Handlers |-> "none"]
    /\ inbox    = [h \in Handlers |-> <<>>]
    /\ taken    = [h \in Handlers |-> <<>>]
    /\ acks     = [h \in Handlers |-> 0]

-----------------------------------------------------------------------------
(* The clients and gRPC.                                                   *)

ClientSend(h) ==
  /\ client[h] = "open"
  /\ Len(taken[h]) + Len(inbox[h]) < MaxMsgs
  /\ \E m \in Messages : inbox' = [inbox EXCEPT ![h] = Append(@, m)]
  /\ UNCHANGED <<phase, pending, bill, ops, serverUp, client, taken, acks>>

ClientHalfClose(h) ==
  /\ client[h] = "open"
  /\ client' = [client EXCEPT ![h] = "halfClosed"]
  /\ UNCHANGED <<phase, pending, bill, ops, serverUp, inbox, taken, acks>>

(* The client cancels or its connection is lost. *)
ClientBreak(h) ==
  /\ client[h] \in {"open", "halfClosed"}
  /\ client' = [client EXCEPT ![h] = "broken"]
  /\ UNCHANGED <<phase, pending, bill, ops, serverUp, inbox, taken, acks>>

Shutdown ==
  /\ serverUp
  /\ serverUp' = FALSE
  /\ UNCHANGED <<phase, pending, bill, ops, client, inbox, taken, acks>>

(* The `ok` flag with which gRPC may deliver the completion of op.         *)
(* An RPC matched to an acceptor needs memory for the next acceptor.       *)
Delivers(h, op, ok) ==
  /\ op \in ops[h]
  /\ CASE op = "Accept" -> /\ ok = serverUp
                           /\ ok => \E n \in Handlers : phase[n] = "free"
       [] op = "Read"   -> IF ok THEN inbox[h] # <<>>
                           ELSE \/ client[h] = "broken"
                                \/ client[h] = "halfClosed" /\ inbox[h] = <<>>
       [] OTHER         -> ok \/ client[h] = "broken"

(* What a completed Read leaves in `request`, and the stream after it.     *)
Request(h, op, ok) ==
  IF op = "Read" /\ ok THEN Head(inbox[h]) ELSE Cleared

Consumed(h, op, ok) ==
  inbox' = IF op = "Read" /\ ok THEN [inbox EXCEPT ![h] = Tail(@)] ELSE inbox

-----------------------------------------------------------------------------
(* The code.                                                               *)

(* The completion of op has been taken and the operations of `new` issued. *)
Issue(h, op, new) == ops' = [ops EXCEPT ![h] = (@ \ {op}) \cup new]

Charge(b, items) ==
  [r \in DOMAIN b \cup DOMAIN items |->
     (IF r \in DOMAIN b THEN b[r] ELSE 0)
       + (IF r \in DOMAIN items THEN items[r] ELSE 0)]

BilledNoClear(b, m) ==          \* faulty: an overwrite keeps other resources
  CASE m.v = "BillAppend"    -> Charge(b, m.items)
    [] m.v = "BillOverwrite" ->
         [r \in DOMAIN b \cup DOMAIN m.items |->
            IF r \in DOMAIN m.items THEN m.items[r] ELSE b[r]]
    [] OTHER                 -> b

Billed(b, m) ==
  CASE m.v = "BillAppend"    -> Charge(b, m.items)
    [] m.v = "BillOverwrite" -> m.items
    [] OTHER                 -> b

(* complete_after_stream_finish, on_stream_connect_failed: the handler is  *)
(* queued for destruction and destroyed before the next event is taken.    *)
Destroy(h, op) ==
  /\ phase'   = [phase EXCEPT ![h] = "free"]
  /\ pending' = [pending EXCEPT ![h] = "Read"]
  /\ bill'    = [bill EXCEPT ![h] = EmptyBill]
  /\ client'  = [client EXCEPT ![h] = "none"]
  /\ inbox'   = [inbox EXCEPT ![h] = <<>>]
  /\ taken'   = [taken EXCEPT ![h] = <<>>]
  /\ acks'    = [acks EXCEPT ![h] = 0]
  /\ Issue(h, op, {})
  /\ UNCHANGED serverUp

(* handle_stream_connect, second call: clone and arm the next acceptor n   *)
(* (whose own first call binds it), then start reading.                    *)
ConnectNoClone(h, op, ok) ==    \* faulty: no clone_acceptor_for_next_request
  /\ phase[h] = "Accepted"
  /\ IF ~ok
     THEN Destroy(h, op)
     ELSE /\ phase'   = [phase EXCEPT ![h] = "Streaming"]
          /\ pending' = [pending EXCEPT ![h] = "Read"]
          /\ client'  = [client EXCEPT ![h] = "open"]
          /\ Issue(h, op, {"Read"})
          /\ UNCHANGED <<bill, serverUp, inbox, taken, acks>>

Connect(h, op, ok) ==
  /\ phase[h] = "Accepted"
  /\ IF ~ok
     THEN Destroy(h, op)
     ELSE \E n \in {x \in Handlers : phase[x] = "free"} :
            /\ phase'   = [phase EXCEPT ![h] = "Streaming", ![n] = "Accepted"]
            /\ ops'     = [ops EXCEPT ![h] = (@ \ {op}) \cup {"Read"},
                                      ![n] = @ \cup {"Accept"}]
            /\ pending' = [pending EXCEPT ![h] = "Read"]
            /\ client'  = [client EXCEPT ![h] = "open"]
            /\ UNCHANGED <<bill, serverUp, inbox, taken, acks>>

StartFinish(h, op) ==
  /\ pending' = [pending EXCEPT ![h] = "Finish"]
  /\ Issue(h, op, {"Finish"})

IncomingNoAck(h, op, m) ==      \* faulty: reads on without acknowledging
  IF m.v = "ResourceFinish"
  THEN StartFinish(h, op) /\ UNCHANGED <<bill, taken>>
  ELSE /\ bill'  = [bill EXCEPT ![h] = Billed(@, m)]
       /\ taken' = [taken EXCEPT ![h] = Append(@, m)]
       /\ Issue(h, op, {"Read"})
       /\ UNCHANGED pending

IncomingReadAhead(h, op, m) ==  \* faulty: reads on while acknowledging
  IF m.v = "ResourceFinish"
  THEN StartFinish(h, op) /\ UNCHANGED <<bill, taken>>
  ELSE /\ bill'    = [bill EXCEPT ![h] = Billed(@, m)]
       /\ taken'   = [taken EXCEPT ![h] = Append(@, m)]
       /\ pending' = [pending EXCEPT ![h] = "Write"]
       /\ Issue(h, op, {"Write", "Read"})

(* process_incoming_message and the acknowledgement that follows it.       *)
Incoming(h, op, m) ==
  IF m.v = "ResourceFinish"
  THEN StartFinish(h, op) /\ UNCHANGED <<bill, taken>>
  ELSE /\ bill'    = [bill EXCEPT ![h] = Billed(@, m)]
       /\ taken'   = [taken EXCEPT ![h] = Append(@, m)]
       /\ pending' = [pending EXCEPT ![h] = "Write"]
       /\ Issue(h, op, {"Write"})

HandleRead(h, op, ok) ==
  /\ phase[h] = "Streaming" /\ pending[h] = "Read"
  /\ IF ok THEN Incoming(h, op, Request(h, op, ok))
           ELSE StartFinish(h, op) /\ UNCHANGED <<bill, taken>>
  /\ Consumed(h, op, ok)
  /\ acks' = [acks EXCEPT ![h] = IF op = "Write" /\ ok THEN @ + 1 ELSE @]
  /\ UNCHANGED <<phase, serverUp, client>>

HandleWriteIgnoreFailure(h, op, ok) ==  \* faulty: no finish after a failed write
  /\ phase[h] = "Streaming" /\ pending[h] = "Write"
  /\ pending' = [pending EXCEPT ![h] = "Read"]
  /\ Issue(h, op, IF ok THEN {"Read"} ELSE {})
  /\ acks' = [acks EXCEPT ![h] = IF op = "Write" /\ ok THEN @ + 1 ELSE @]
  /\ Consumed(h, op, ok)
  /\ UNCHANGED <<phase, bill, serverUp, client, taken>>

HandleWrite(h, op, ok) ==
  /\ phase[h] = "Streaming" /\ pending[h] = "Write"
  /\ IF ok THEN /\ pending' = [pending EXCEPT ![h] = "Read"]
                /\ Issue(h, op, {"Read"})
           ELSE StartFinish(h, op)
  /\ acks' = [acks EXCEPT ![h] = IF op = "Write" /\ ok THEN @ + 1 ELSE @]
  /\ Consumed(h, op, ok)
  /\ UNCHANGED <<phase, bill, serverUp, client, taken>>

HandleFinish(h, op, ok) ==
  /\ phase[h] = "Streaming" /\ pending[h] = "Finish"
  /\ Destroy(h, op)

(* LimitHandler::process, called by the loop of main with the event's ok.  *)
(* It dispatches on the handler's state alone: the event does not say      *)
(* which operation completed.                                              *)
Process(h, op, ok) ==
  \/ Connect(h, op, ok)
  \/ HandleRead(h, op, ok)
  \/ HandleWrite(h, op, ok)
  \/ HandleFinish(h, op, ok)

Completion(h) ==
  \E op \in Ops, ok \in BOOLEAN : Delivers(h, op, ok) /\ Process(h, op, ok)

Next ==
  \/ \E h \in Handlers :
       ClientSend(h) \/ ClientHalfClose(h) \/ ClientBreak(h) \/ Completion(h)
  \/ Shutdown

(* gRPC delivers every completion it can deliver and the loop of main takes *)
(* every event; no client is ever obliged to connect, to send or to leave.  *)
Answered(h) ==
  \E op \in Ops, ok \in BOOLEAN :
    /\ op = "Accept" => ~ok
    /\ Delivers(h, op, ok)
    /\ Process(h, op, ok)

Fairness == \A h \in Handlers : WF_vars(Answered(h))

Spec     == Init /\ [][Next]_vars
FairSpec == Spec /\ Fairness

-----------------------------------------------------------------------------
(* Properties.                                                             *)

(* The state of every handler object and of gRPC's view of it.             *)
TypeOK ==
  /\ phase    \in [Handlers -> {"free", "Accepted", "Streaming"}]
  /\ pending  \in [Handlers -> {"Read", "Write", "Finish"}]
  /\ bill = [h \in Handlers |-> bill[h]] /\ \A h \in Handlers : IsBill(bill[h])
  /\ ops      \in [Handlers -> SUBSET Ops]
  /\ serverUp \in BOOLEAN
  /\ client   \in [Handlers -> {"none", "open", "halfClosed", "broken"}]
  /\ inbox    \in [Handlers -> Seq(Messages)]
  /\ taken    \in [Handlers -> Seq(Messages)]
  /\ acks     \in [Handlers -> Nat]

(* callback.h:15: after every return from process the handler has emitted  *)
(* another completion or is destroyed.  Exactly the one operation that its *)
(* state will dispatch on is outstanding, so no completion is ever taken   *)
(* for another one, and a destroyed handler is no operation's tag.         *)
OneEventPerHandler ==
  \A h \in Handlers :
    /\ phase[h] = "free"      => ops[h] = {}
    /\ phase[h] = "Accepted"  => ops[h] = {"Accept"}
    /\ phase[h] = "Streaming" => ops[h] = {pending[h]}

(* The clone in handle_stream_connect: while the server is up there is     *)
(* one acceptor, never none (a client would wait for ever) and never two.  *)
OneAcceptor ==
  serverUp => Cardinality({h \in Handlers : "Accept" \in ops[h]}) = 1

(* A client that counts acknowledgements knows what it was billed for:     *)
(* every message taken is acknowledged before the next is taken, and an    *)
(* acknowledgement is missing only while it is being written or after the  *)
(* connection failed under it.                                             *)
AcksMatchMessages ==
  \A h \in Handlers :
    /\ "Read" \in ops[h]  => acks[h] = Len(taken[h])
    /\ "Write" \in ops[h] => acks[h] = Len(taken[h]) - 1
    /\ acks[h] < Len(taken[h]) =>
         "Write" \in ops[h] \/ client[h] = "broken"

(* A session's bill is the last overwrite, if any, plus every append after *)
(* it, whatever was sent in between and whatever other sessions do.        *)
SinceOverwrite(s) ==
  {i \in DOMAIN s :
     /\ s[i].v \in {"BillAppend", "BillOverwrite"}
     /\ \A j \in DOMAIN s : s[j].v = "BillOverwrite" => j <= i}

ItemsFor(s, r) == {i \in SinceOverwrite(s) : r \in DOMAIN s[i].items}

BillIsHistory ==
  \A h \in Handlers :
    /\ DOMAIN bill[h] = {r \in Resources : ItemsFor(taken[h], r) # {}}
    /\ \A r \in DOMAIN bill[h] :
         bill[h][r] = MapThenSumSet(LAMBDA i : taken[h][i].items[r],
                                    ItemsFor(taken[h], r))

(* Once its client has finished, closed its side or gone away, a session   *)
(* ends and its handler is destroyed; after a shutdown so is the acceptor. *)
SessionsEnd ==
  \A h \in Handlers :
    /\ client[h] \in {"halfClosed", "broken"} \/ "Finish" \in ops[h]
         ~> phase[h] = "free"
    /\ ~serverUp ~> "Accept" \notin ops[h]

(* The ledger a client relies on, seen through the handlers' state.        *)
Ledger == INSTANCE ResourceLedger WITH
  Sessions <- Handlers,
  status   <- [h \in Handlers |-> IF phase[h] # "Streaming" THEN "closed"
                                  ELSE IF "Finish" \in ops[h] THEN "ending"
                                  ELSE "open"],
  owed     <- [h \in Handlers |-> IF "Write" \in ops[h] THEN 1 ELSE 0]

(* Every behaviour of the handlers is one of the ledger: no message is     *)
(* billed before the previous one is acknowledged, none to a session that  *)
(* is ending, and a new session starts with an empty bill.                 *)
ImplementsLedger == Ledger!Spec
=============================================================================
