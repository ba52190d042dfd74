------------------------ MODULE LimitSession_proofs ------------------------
(***************************************************************************)
(* Proofs about LimitSession for any set of handlers, resources and        *)
(* messages, and any MaxMsgs.                                              *)
(***************************************************************************)
EXTENDS LimitSession, FiniteSetTheorems, WellFoundedInduction, TLAPS

(* What the dispatch on pending_ relies on: types, and one operation per   *)
(* handler that agrees with its state.                                     *)
IInv == TypeOK /\ OneEventPerHandler

-----------------------------------------------------------------------------
(* Bills are closed under process_incoming_message.                        *)

LEMMA EmptyIsBill == IsBill(EmptyBill)
<1>1. EmptyBill \in [{} -> Int]
  BY DEF EmptyBill
<1> QED BY <1>1 DEF IsBill

LEMMA ChargeIsBill ==
  ASSUME NEW b, NEW items, IsBill(b), IsBill(items)
  PROVE  IsBill(Charge(b, items))
<1>1. PICK B \in SUBSET Resources : b \in [B -> Int]
  BY DEF IsBill
<1>2. PICK I \in SUBSET Resources : items \in [I -> Int]
  BY DEF IsBill
<1>3. DOMAIN b = B /\ DOMAIN items = I
  BY <1>1, <1>2
<1>4. ASSUME NEW r \in B \cup I
      PROVE  (IF r \in B THEN b[r] ELSE 0)
               + (IF r \in I THEN items[r] ELSE 0) \in Int
  BY <1>1, <1>2, <1>4
<1>5. Charge(b, items) \in [B \cup I -> Int]
  BY <1>3, <1>4 DEF Charge
<1>6. B \cup I \in SUBSET Resources
  OBVIOUS
<1> QED BY <1>5, <1>6 DEF IsBill

LEMMA BilledIsBill ==
  ASSUME NEW b, NEW m \in Messages, IsBill(b)
  PROVE  IsBill(Billed(b, m))
<1>1. IsBill(m.items)
  BY MessagesAssumption
<1>2. CASE m.v = "BillAppend"
  BY <1>1, <1>2, ChargeIsBill DEF Billed
<1>3. CASE m.v = "BillOverwrite"
  BY <1>1, <1>3 DEF Billed
<1>4. CASE m.v # "BillAppend" /\ m.v # "BillOverwrite"
  BY <1>4 DEF Billed
<1> QED BY <1>2, <1>3, <1>4

-----------------------------------------------------------------------------
(* A completion that is delivered is one of the operation the handler's    *)
(* state dispatches on.                                                    *)
LEMMA DispatchAgrees ==
  ASSUME IInv, NEW h \in Handlers, NEW op \in Ops, NEW ok \in BOOLEAN,
         Delivers(h, op, ok)
  PROVE  /\ phase[h] = "Accepted"  => op = "Accept"
         /\ phase[h] = "Streaming" => op = pending[h]
         /\ phase[h] # "free"
         /\ ops[h] = {op}
  BY DEF IInv, OneEventPerHandler, TypeOK, Delivers

LEMMA InitIInv == Init => IInv
<1> SUFFICES ASSUME NEW first \in Handlers,
      /\ phase    = [h \in Handlers |-> IF h = first THEN "Accepted" ELSE "free"]
      /\ ops      = [h \in Handlers |-> IF h = first THEN {"Accept"} ELSE {}]
      /\ pending  = [h \in Handlers |-> "Read"]
      /\ bill     = [h \in Handlers |-> EmptyBill]
      /\ serverUp = TRUE
      /\ client   = [h \in Handlers |-> "none"]
      /\ inbox    = [h \in Handlers |-> <<>>]
      /\ taken    = [h \in Handlers |-> <<>>]
      /\ acks     = [h \in Handlers |-> 0]
    PROVE IInv
  BY DEF Init
<1>1. TypeOK
  BY EmptyIsBill DEF TypeOK, Ops
<1>2. OneEventPerHandler
  BY DEF OneEventPerHandler
<1> QED BY <1>1, <1>2 DEF IInv

LEMMA DestroyIInv ==
  ASSUME IInv, NEW h \in Handlers, NEW op \in Ops, ops[h] = {op}, Destroy(h, op)
  PROVE  IInv'
<1>1. TypeOK'
  BY EmptyIsBill DEF IInv, TypeOK, Destroy, Issue, Ops
<1>2. OneEventPerHandler'
  BY DEF IInv, TypeOK, OneEventPerHandler, Destroy, Issue, Ops
<1> QED BY <1>1, <1>2 DEF IInv

LEMMA ConnectIInv ==
  ASSUME IInv, NEW h \in Handlers, NEW op \in Ops, NEW ok \in BOOLEAN,
         Delivers(h, op, ok), Connect(h, op, ok)
  PROVE  IInv'
<1>1. ops[h] = {op} /\ op = "Accept"
  BY DispatchAgrees DEF Connect
<1>2. CASE ~ok
  BY <1>1, <1>2, DestroyIInv DEF Connect
<1>3. CASE ok
  <2>1. PICK n \in Handlers :
          /\ phase[n] = "free"
          /\ phase'   = [phase EXCEPT ![h] = "Streaming", ![n] = "Accepted"]
          /\ ops'     = [ops EXCEPT ![h] = (@ \ {op}) \cup {"Read"},
                                    ![n] = @ \cup {"Accept"}]
          /\ pending' = [pending EXCEPT ![h] = "Read"]
          /\ client'  = [client EXCEPT ![h] = "open"]
          /\ UNCHANGED <<bill, serverUp, inbox, taken, acks>>
    BY <1>3 DEF Connect
  <2>2. n # h
    BY <2>1 DEF Connect
  <2>3. TypeOK'
    BY <2>1 DEF IInv, TypeOK, Ops
  <2>4. OneEventPerHandler'
    BY <1>1, <2>1, <2>2 DEF IInv, TypeOK, OneEventPerHandler
  <2> QED BY <2>3, <2>4 DEF IInv
<1> QED BY <1>2, <1>3

LEMMA HandleReadIInv ==
  ASSUME IInv, NEW h \in Handlers, NEW op \in Ops, NEW ok \in BOOLEAN,
         Delivers(h, op, ok), HandleRead(h, op, ok)
  PROVE  IInv'
<1>1. ops[h] = {op} /\ op = "Read" /\ phase[h] = "Streaming"
  BY DispatchAgrees DEF HandleRead
<1>2. CASE ~ok
  <2>1. /\ StartFinish(h, op) /\ UNCHANGED <<bill, taken>>
        /\ inbox' = inbox /\ acks' = acks
        /\ UNCHANGED <<phase, serverUp, client>>
    BY <1>1, <1>2 DEF HandleRead, Consumed, IInv, TypeOK
  <2>2. TypeOK'
    BY <2>1 DEF IInv, TypeOK, StartFinish, Issue, Ops
  <2>3. OneEventPerHandler'
    BY <1>1, <2>1 DEF IInv, TypeOK, OneEventPerHandler, StartFinish, Issue
  <2> QED BY <2>2, <2>3 DEF IInv
<1>3. CASE ok
  <2> DEFINE m == Head(inbox[h])
  <2>1. inbox[h] \in Seq(Messages) /\ inbox[h] # <<>>
    BY <1>1, <1>3 DEF IInv, TypeOK, Delivers
  <2>2. m \in Messages /\ Tail(inbox[h]) \in Seq(Messages)
    BY <2>1
  <2>3. /\ Incoming(h, op, m)
        /\ inbox' = [inbox EXCEPT ![h] = Tail(@)] /\ acks' = acks
        /\ UNCHANGED <<phase, serverUp, client>>
    BY <1>1, <1>3 DEF HandleRead, Request, Consumed, IInv, TypeOK
  <2>4. CASE m.v = "ResourceFinish"
    <3>1. StartFinish(h, op) /\ UNCHANGED <<bill, taken>>
      BY <2>3, <2>4 DEF Incoming
    <3>2. TypeOK'
      BY <2>2, <2>3, <3>1 DEF IInv, TypeOK, StartFinish, Issue, Ops
    <3>3. OneEventPerHandler'
      BY <1>1, <2>3, <3>1 DEF IInv, TypeOK, OneEventPerHandler, StartFinish, Issue
    <3> QED BY <3>2, <3>3 DEF IInv
  <2>5. CASE m.v # "ResourceFinish"
    <3>1. /\ bill'    = [bill EXCEPT ![h] = Billed(@, m)]
          /\ taken'   = [taken EXCEPT ![h] = Append(@, m)]
          /\ pending' = [pending EXCEPT ![h] = "Write"]
          /\ Issue(h, op, {"Write"})
      BY <2>3, <2>5 DEF Incoming
    <3>2. IsBill(Billed(bill[h], m))
      BY <2>2, BilledIsBill DEF IInv, TypeOK
    <3>3. /\ bill' = [x \in Handlers |-> bill'[x]]
          /\ \A x \in Handlers : IsBill(bill'[x])
      BY <3>1, <3>2 DEF IInv, TypeOK
    <3>4. taken' \in [Handlers -> Seq(Messages)]
      BY <2>2, <3>1 DEF IInv, TypeOK
    <3>5. TypeOK'
      BY <2>2, <2>3, <3>1, <3>3, <3>4 DEF IInv, TypeOK, Issue, Ops, IsBill
    <3>6. OneEventPerHandler'
      BY <1>1, <2>3, <3>1 DEF IInv, TypeOK, OneEventPerHandler, Issue
    <3> QED BY <3>5, <3>6 DEF IInv
  <2> QED BY <2>4, <2>5
<1> QED BY <1>2, <1>3

LEMMA HandleWriteIInv ==
  ASSUME IInv, NEW h \in Handlers, NEW op \in Ops, NEW ok \in BOOLEAN,
         Delivers(h, op, ok), HandleWrite(h, op, ok)
  PROVE  IInv'
<1>1. ops[h] = {op} /\ op = "Write" /\ phase[h] = "Streaming"
  BY DispatchAgrees DEF HandleWrite
<1>2. /\ inbox' = inbox
      /\ UNCHANGED <<phase, bill, serverUp, client, taken>>
  BY <1>1 DEF HandleWrite, Consumed
<1>3. acks' \in [Handlers -> Nat]
  BY <1>1 DEF IInv, TypeOK, HandleWrite
<1>4. \E p \in {"Read", "Finish"} :
        /\ pending' = [pending EXCEPT ![h] = p]
        /\ ops' = [ops EXCEPT ![h] = {p}]
  <2>1. CASE ok
    BY <1>1, <2>1 DEF HandleWrite, Issue
  <2>2. CASE ~ok
    BY <1>1, <2>2 DEF HandleWrite, StartFinish, Issue
  <2> QED BY <2>1, <2>2
<1>5. TypeOK'
  BY <1>2, <1>3, <1>4 DEF IInv, TypeOK, Ops
<1>6. OneEventPerHandler'
  BY <1>1, <1>2, <1>4 DEF IInv, TypeOK, OneEventPerHandler
<1> QED BY <1>5, <1>6 DEF IInv

LEMMA ProcessIInv ==
  ASSUME IInv, NEW h \in Handlers, Completion(h)
  PROVE  IInv'
<1>1. PICK op \in Ops, ok \in BOOLEAN : Delivers(h, op, ok) /\ Process(h, op, ok)
  BY DEF Completion
<1>2. CASE Connect(h, op, ok)
  BY <1>1, <1>2, ConnectIInv
<1>3. CASE HandleRead(h, op, ok)
  BY <1>1, <1>3, HandleReadIInv
<1>4. CASE HandleWrite(h, op, ok)
  BY <1>1, <1>4, HandleWriteIInv
<1>5. CASE HandleFinish(h, op, ok)
  BY <1>1, <1>5, DispatchAgrees, DestroyIInv DEF HandleFinish
<1> QED BY <1>1, <1>2, <1>3, <1>4, <1>5 DEF Process

LEMMA NextIInv == IInv /\ [Next]_vars => IInv'
<1> SUFFICES ASSUME IInv, [Next]_vars PROVE IInv'
  OBVIOUS
<1>1. CASE UNCHANGED vars
  BY <1>1 DEF IInv, TypeOK, OneEventPerHandler, vars
<1>2. ASSUME NEW h \in Handlers, ClientSend(h) PROVE IInv'
  <2>1. inbox' \in [Handlers -> Seq(Messages)]
    BY <1>2 DEF IInv, TypeOK, ClientSend
  <2> QED BY <1>2, <2>1 DEF IInv, TypeOK, OneEventPerHandler, ClientSend
<1>3. ASSUME NEW h \in Handlers, ClientHalfClose(h) PROVE IInv'
  BY <1>3 DEF IInv, TypeOK, OneEventPerHandler, ClientHalfClose
<1>4. ASSUME NEW h \in Handlers, ClientBreak(h) PROVE IInv'
  BY <1>4 DEF IInv, TypeOK, OneEventPerHandler, ClientBreak
<1>5. ASSUME NEW h \in Handlers, Completion(h) PROVE IInv'
  BY <1>5, ProcessIInv
<1>6. CASE Shutdown
  BY <1>6 DEF IInv, TypeOK, OneEventPerHandler, Shutdown
<1> QED BY <1>1, <1>2, <1>3, <1>4, <1>5, <1>6 DEF Next

(* The handlers' state is well typed in every reachable state.             *)
THEOREM TypeCorrect == Spec => []TypeOK
<1>1. IInv => TypeOK
  BY DEF IInv
<1> QED BY <1>1, InitIInv, NextIInv, PTL DEF Spec

(* The contract of GRPCHandler::process (callback.h:15) for LimitHandler:  *)
(* after every event each handler has exactly the one operation            *)
(* outstanding that its state dispatches on, or is destroyed.              *)
THEOREM EventContract == Spec => []OneEventPerHandler
<1>1. IInv => OneEventPerHandler
  BY DEF IInv
<1> QED BY <1>1, InitIInv, NextIInv, PTL DEF Spec

-----------------------------------------------------------------------------
(* One acceptor.  "Accept" is outstanding exactly for handlers in phase    *)
(* Accepted, there is never more than one of them, and only a shutdown can *)
(* take the last one away.                                                 *)
AcceptorInv ==
  /\ \A g, h \in Handlers :
       phase[g] = "Accepted" /\ phase[h] = "Accepted" => g = h
  /\ serverUp => \E h \in Handlers : phase[h] = "Accepted"

LEMMA InitAcceptorInv == Init => AcceptorInv
  BY DEF Init, AcceptorInv

LEMMA NextAcceptorInv == IInv /\ AcceptorInv /\ [Next]_vars => AcceptorInv'
<1> SUFFICES ASSUME IInv, AcceptorInv, [Next]_vars PROVE AcceptorInv'
  OBVIOUS
<1> USE DEF AcceptorInv
<1>1. CASE UNCHANGED <<phase, serverUp>>
  BY <1>1
<1>2. CASE Shutdown
  BY <1>2 DEF Shutdown
<1>3. ASSUME NEW h \in Handlers, Completion(h) PROVE AcceptorInv'
  <2>1. PICK op \in Ops, ok \in BOOLEAN : Delivers(h, op, ok) /\ Process(h, op, ok)
    BY <1>3 DEF Completion
  <2>2. CASE Connect(h, op, ok) /\ ok
    <3>1. op = "Accept" /\ serverUp
      BY <2>1, <2>2, DispatchAgrees DEF Connect, Delivers
    <3>2. PICK n \in Handlers :
            /\ phase[n] = "free"
            /\ phase' = [phase EXCEPT ![h] = "Streaming", ![n] = "Accepted"]
            /\ serverUp' = serverUp
      BY <2>2 DEF Connect
    <3>3. phase[h] = "Accepted" /\ n # h
      BY <2>2, <3>2 DEF Connect
    <3> QED BY <3>2, <3>3 DEF IInv, TypeOK
  <2>3. CASE Connect(h, op, ok) /\ ~ok
    <3>1. op = "Accept" /\ ~serverUp
      BY <2>1, <2>3, DispatchAgrees DEF Connect, Delivers
    <3>2. phase' = [phase EXCEPT ![h] = "free"] /\ serverUp' = serverUp
      BY <2>3 DEF Connect, Destroy
    <3> QED BY <3>1, <3>2 DEF IInv, TypeOK
  <2>4. CASE HandleRead(h, op, ok) \/ HandleWrite(h, op, ok)
    <3>1. UNCHANGED <<phase, serverUp>>
      BY <2>4 DEF HandleRead, HandleWrite
    <3> QED BY <3>1
  <2>5. CASE HandleFinish(h, op, ok)
    <3>1. /\ phase[h] = "Streaming"
          /\ phase' = [phase EXCEPT ![h] = "free"] /\ serverUp' = serverUp
      BY <2>5 DEF HandleFinish, Destroy
    <3> QED BY <3>1 DEF IInv, TypeOK
  <2> QED BY <2>1, <2>2, <2>3, <2>4, <2>5 DEF Process
<1>4. ASSUME NEW h \in Handlers,
             ClientSend(h) \/ ClientHalfClose(h) \/ ClientBreak(h)
      PROVE  AcceptorInv'
  BY <1>4, <1>1 DEF ClientSend, ClientHalfClose, ClientBreak
<1> QED BY <1>1, <1>2, <1>3, <1>4 DEF Next, vars

LEMMA AcceptorInvUnique == IInv /\ AcceptorInv => OneAcceptor
<1> SUFFICES ASSUME IInv, AcceptorInv, serverUp
             PROVE  Cardinality({h \in Handlers : "Accept" \in ops[h]}) = 1
  BY DEF OneAcceptor
<1>1. PICK a \in Handlers : phase[a] = "Accepted"
  BY DEF AcceptorInv
<1>2. ASSUME NEW h \in Handlers
      PROVE  "Accept" \in ops[h] <=> phase[h] = "Accepted"
  <2>1. /\ phase[h] \in {"free", "Accepted", "Streaming"}
        /\ pending[h] \in {"Read", "Write", "Finish"}
    BY DEF IInv, TypeOK
  <2> QED BY <2>1 DEF IInv, OneEventPerHandler
<1>3. {h \in Handlers : "Accept" \in ops[h]} = {a}
  BY <1>1, <1>2 DEF AcceptorInv
<1> QED BY <1>3, FS_Singleton

(* The clone in handle_stream_connect (callback.h:171-186): as long as the *)
(* server is up exactly one handler waits for the next RPC.                *)
THEOREM SingleAcceptor == Spec => []OneAcceptor
<1>1. Init => IInv /\ AcceptorInv
  BY InitIInv, InitAcceptorInv
<1>2. (IInv /\ AcceptorInv) /\ [Next]_vars => (IInv /\ AcceptorInv)'
  BY NextIInv, NextAcceptorInv
<1> QED BY <1>1, <1>2, AcceptorInvUnique, PTL DEF Spec

-----------------------------------------------------------------------------
(* What holds of a handler that is not streaming: nothing is left of an    *)
(* earlier session that used the same memory.                              *)
FreshInv ==
  \A h \in Handlers :
    phase[h] # "Streaming" => /\ bill[h] = EmptyBill
                              /\ taken[h] = <<>>
                              /\ acks[h] = 0

SessionInv == IInv /\ FreshInv /\ AcksMatchMessages

LEMMA InitSessionInv == Init => SessionInv
<1> SUFFICES ASSUME Init PROVE SessionInv
  OBVIOUS
<1>1. FreshInv
  BY DEF Init, FreshInv
<1>2. AcksMatchMessages
  BY DEF Init, AcksMatchMessages
<1> QED BY <1>1, <1>2, InitIInv DEF SessionInv

LEMMA CompletionSessionInv ==
  ASSUME SessionInv, NEW h \in Handlers, Completion(h)
  PROVE  FreshInv' /\ AcksMatchMessages'
<1> USE DEF SessionInv
<1>1. PICK op \in Ops, ok \in BOOLEAN : Delivers(h, op, ok) /\ Process(h, op, ok)
  BY DEF Completion
<1>2. ops[h] = {op} /\ phase[h] # "free"
  BY <1>1, DispatchAgrees
<1>3. CASE Destroy(h, op)
  <2>1. FreshInv'
    BY <1>3 DEF Destroy, FreshInv, IInv, TypeOK
  <2>2. AcksMatchMessages'
    BY <1>2, <1>3 DEF Destroy, Issue, AcksMatchMessages, IInv, TypeOK
  <2> QED BY <2>1, <2>2
<1>4. CASE Connect(h, op, ok) /\ ok
  <2>1. PICK n \in Handlers :
          /\ phase[n] = "free"
          /\ phase' = [phase EXCEPT ![h] = "Streaming", ![n] = "Accepted"]
          /\ ops' = [ops EXCEPT ![h] = (@ \ {op}) \cup {"Read"},
                                ![n] = @ \cup {"Accept"}]
          /\ client' = [client EXCEPT ![h] = "open"]
          /\ UNCHANGED <<bill, taken, acks>>
    BY <1>4 DEF Connect
  <2>2. phase[h] = "Accepted" /\ ops[n] = {} /\ n # h
    BY <1>4, <2>1 DEF Connect, IInv, OneEventPerHandler
  <2>3. /\ taken[h] = <<>> /\ acks[h] = 0
        /\ taken[n] = <<>> /\ acks[n] = 0
    BY <2>1, <2>2 DEF FreshInv
  <2>4. FreshInv'
    BY <2>1, <2>2 DEF FreshInv, IInv, TypeOK
  <2>5. /\ ops'[h] = {"Read"} /\ ops'[n] = {"Accept"}
        /\ \A x \in Handlers \ {h, n} : ops'[x] = ops[x] /\ client'[x] = client[x]
    BY <1>2, <2>1, <2>2 DEF IInv, TypeOK
  <2>6. AcksMatchMessages'
    BY <2>1, <2>3, <2>5 DEF AcksMatchMessages, IInv, TypeOK
  <2> QED BY <2>4, <2>6
<1>5. CASE HandleRead(h, op, ok)
  <2>1. op = "Read" /\ phase[h] = "Streaming"
    BY <1>1, <1>5, DispatchAgrees DEF HandleRead
  <2>2. acks' = acks /\ UNCHANGED <<phase, client>>
    BY <1>5, <2>1 DEF HandleRead, IInv, TypeOK
  <2>3. acks[h] = Len(taken[h])
    BY <1>2, <2>1 DEF AcksMatchMessages
  <2>4. CASE StartFinish(h, op) /\ UNCHANGED <<bill, taken>>
    <3>1. FreshInv'
      BY <2>2, <2>4 DEF FreshInv
    <3>2. ops' = [ops EXCEPT ![h] = {"Finish"}]
      BY <1>2, <2>4 DEF StartFinish, Issue
    <3>3. AcksMatchMessages'
      BY <2>2, <2>3, <2>4, <3>2 DEF AcksMatchMessages, IInv, TypeOK
    <3> QED BY <3>1, <3>3
  <2>5. ASSUME NEW m,
               /\ bill'    = [bill EXCEPT ![h] = Billed(@, m)]
               /\ taken'   = [taken EXCEPT ![h] = Append(@, m)]
               /\ Issue(h, op, {"Write"})
        PROVE  FreshInv' /\ AcksMatchMessages'
    <3>1. FreshInv'
      BY <2>1, <2>2, <2>5 DEF FreshInv, IInv, TypeOK
    <3>2. ops' = [ops EXCEPT ![h] = {"Write"}]
      BY <1>2, <2>5 DEF Issue
    <3>3. Len(taken'[h]) = Len(taken[h]) + 1
      BY <2>5 DEF IInv, TypeOK
    <3>4. /\ acks'[h] = Len(taken'[h]) - 1 /\ ops'[h] = {"Write"}
          /\ \A x \in Handlers \ {h} : ops'[x] = ops[x] /\ taken'[x] = taken[x]
      BY <2>2, <2>3, <2>5, <3>2, <3>3 DEF IInv, TypeOK
    <3>5. AcksMatchMessages'
      BY <2>2, <3>4 DEF AcksMatchMessages
    <3> QED BY <3>1, <3>5
  <2>6. CASE ok
    BY <1>5, <2>4, <2>5, <2>6 DEF HandleRead, Incoming
  <2>7. CASE ~ok
    BY <1>5, <2>4, <2>7 DEF HandleRead
  <2> QED BY <2>6, <2>7
<1>6. CASE HandleWrite(h, op, ok)
  <2>1. op = "Write" /\ phase[h] = "Streaming"
    BY <1>1, <1>6, DispatchAgrees DEF HandleWrite
  <2>2. UNCHANGED <<phase, bill, client, taken>>
    BY <1>6 DEF HandleWrite
  <2>3. acks[h] = Len(taken[h]) - 1
    BY <1>2, <2>1 DEF AcksMatchMessages
  <2>4. FreshInv'
    BY <1>6, <2>1, <2>2 DEF HandleWrite, FreshInv, IInv, TypeOK
  <2>5. CASE ok
    <3>1. /\ ops' = [ops EXCEPT ![h] = {"Read"}]
          /\ acks' = [acks EXCEPT ![h] = @ + 1]
      BY <1>2, <1>6, <2>1, <2>5 DEF HandleWrite, Issue
    <3>2. /\ acks'[h] = Len(taken[h]) /\ ops'[h] = {"Read"}
          /\ \A x \in Handlers \ {h} : ops'[x] = ops[x] /\ acks'[x] = acks[x]
      BY <2>3, <3>1 DEF IInv, TypeOK
    <3>3. AcksMatchMessages'
      BY <2>2, <3>2 DEF AcksMatchMessages
    <3> QED BY <2>4, <3>3
  <2>6. CASE ~ok
    <3>1. ops' = [ops EXCEPT ![h] = {"Finish"}] /\ acks' = acks
      BY <1>2, <1>6, <2>1, <2>6 DEF HandleWrite, StartFinish, Issue, IInv, TypeOK
    <3>2. client[h] = "broken"
      BY <1>1, <2>1, <2>6 DEF Delivers
    <3>3. AcksMatchMessages'
      BY <2>2, <3>1, <3>2 DEF AcksMatchMessages, IInv, TypeOK
    <3> QED BY <2>4, <3>3
  <2> QED BY <2>5, <2>6
<1> QED BY <1>1, <1>3, <1>4, <1>5, <1>6 DEF Process, Connect, HandleFinish

LEMMA NextSessionInv == SessionInv /\ [Next]_vars => SessionInv'
<1> SUFFICES ASSUME SessionInv, [Next]_vars PROVE SessionInv'
  OBVIOUS
<1>1. IInv'
  BY NextIInv DEF SessionInv
<1>2. CASE UNCHANGED <<phase, bill, ops, client, taken, acks>>
  BY <1>1, <1>2 DEF SessionInv, FreshInv, AcksMatchMessages
<1>3. ASSUME NEW h \in Handlers, ClientHalfClose(h) \/ ClientBreak(h)
      PROVE  SessionInv'
  <2>1. /\ UNCHANGED <<phase, bill, ops, taken, acks>>
        /\ \A x \in Handlers : client[x] = "broken" => client'[x] = "broken"
    BY <1>3 DEF ClientHalfClose, ClientBreak, SessionInv, IInv, TypeOK
  <2> QED BY <1>1, <2>1 DEF SessionInv, FreshInv, AcksMatchMessages
<1>4. ASSUME NEW h \in Handlers, Completion(h) PROVE SessionInv'
  BY <1>1, <1>4, CompletionSessionInv DEF SessionInv
<1>5. ASSUME NEW h \in Handlers, ClientSend(h) PROVE SessionInv'
  BY <1>2, <1>5 DEF ClientSend
<1>6. CASE Shutdown
  BY <1>2, <1>6 DEF Shutdown
<1> QED BY <1>2, <1>3, <1>4, <1>5, <1>6 DEF Next, vars

(* process_incoming_message and the write that follows it: a client that   *)
(* counts acknowledgements knows which of its messages were billed.        *)
THEOREM AcksExact == Spec => []AcksMatchMessages
<1>1. SessionInv => AcksMatchMessages
  BY DEF SessionInv
<1> QED BY <1>1, InitSessionInv, NextSessionInv, PTL DEF Spec

-----------------------------------------------------------------------------
(* The handlers implement the ledger.  Connecting opens a session, a read  *)
(* applies a message or ends the session, a write acknowledges or ends it, *)
(* and the completion of Finish closes it; everything else is a stutter.   *)

status == [h \in Handlers |-> IF phase[h] # "Streaming" THEN "closed"
                              ELSE IF "Finish" \in ops[h] THEN "ending"
                              ELSE "open"]
owed   == [h \in Handlers |-> IF "Write" \in ops[h] THEN 1 ELSE 0]

LEMMA SameBilling ==
  ASSUME NEW b, NEW m PROVE Ledger!Billed(b, m) = Billed(b, m)
  BY DEF Ledger!Billed, Billed, Ledger!Charge, Charge

LEMMA LedgerInit == Init => Ledger!Init
<1> SUFFICES ASSUME Init PROVE Ledger!Init
  OBVIOUS
<1>1. bill = [h \in Handlers |-> Ledger!EmptyBill]
  BY DEF Init, EmptyBill, Ledger!EmptyBill
<1>2. status = [h \in Handlers |-> "closed"] /\ owed = [h \in Handlers |-> 0]
  BY DEF Init, status, owed
<1> QED BY <1>1, <1>2 DEF Ledger!Init, status, owed

(* What the mapping makes of a step that changes one handler only. *)
LEMMA LedgerStutter ==
  ASSUME SessionInv, phase' = phase, ops' = ops, bill' = bill
  PROVE  UNCHANGED Ledger!vars
  BY DEF Ledger!vars

LEMMA LedgerCompletion ==
  ASSUME SessionInv, NEW h \in Handlers, Completion(h)
  PROVE  [Ledger!Next]_(Ledger!vars)
<1> USE DEF SessionInv
<1>1. PICK op \in Ops, ok \in BOOLEAN : Delivers(h, op, ok) /\ Process(h, op, ok)
  BY DEF Completion
<1>2. ops[h] = {op} /\ phase[h] # "free"
  BY <1>1, DispatchAgrees
<1>3. CASE Connect(h, op, ok) /\ ~ok
  <2>1. phase[h] = "Accepted" /\ ops[h] = {"Accept"} /\ bill[h] = EmptyBill
    BY <1>3 DEF Connect, FreshInv, IInv, OneEventPerHandler
  <2>2. /\ phase' = [phase EXCEPT ![h] = "free"]
        /\ ops' = [ops EXCEPT ![h] = {}]
        /\ bill' = bill
    BY <1>2, <1>3, <2>1 DEF Connect, Destroy, Issue, IInv, TypeOK
  <2>3. status' = status /\ owed' = owed
    BY <2>1, <2>2 DEF status, owed, IInv, TypeOK
  <2> QED BY <2>2, <2>3 DEF Ledger!vars, status, owed
<1>4. CASE Connect(h, op, ok) /\ ok
  <2>1. PICK n \in Handlers :
          /\ phase[n] = "free"
          /\ phase' = [phase EXCEPT ![h] = "Streaming", ![n] = "Accepted"]
          /\ ops' = [ops EXCEPT ![h] = (@ \ {op}) \cup {"Read"},
                                ![n] = @ \cup {"Accept"}]
          /\ bill' = bill
    BY <1>4 DEF Connect
  <2>2. phase[h] = "Accepted" /\ ops[n] = {} /\ n # h /\ ops[h] = {"Accept"}
    BY <1>4, <2>1 DEF Connect, IInv, OneEventPerHandler
  <2>3. /\ ops'[h] = {"Read"} /\ ops'[n] = {"Accept"}
        /\ \A x \in Handlers \ {h, n} : ops'[x] = ops[x] /\ phase'[x] = phase[x]
        /\ phase'[h] = "Streaming" /\ phase'[n] = "Accepted"
    BY <1>2, <2>1, <2>2 DEF IInv, TypeOK
  <2>4. status' = [status EXCEPT ![h] = "open"] /\ status[h] = "closed"
    <3>1. /\ status'[h] = "open" /\ status[h] = "closed"
          /\ status'[n] = "closed" /\ status[n] = "closed"
      BY <2>1, <2>2, <2>3 DEF status
    <3>2. \A x \in Handlers \ {h, n} : status'[x] = status[x]
      BY <2>3 DEF status
    <3> QED BY <3>1, <3>2 DEF status
  <2>5. owed' = owed
    BY <2>2, <2>3 DEF owed
  <2>6. Ledger!Open(h)
    BY <2>1, <2>4, <2>5 DEF Ledger!Open, status, owed
  <2> QED BY <2>6 DEF Ledger!Next
<1>5. CASE HandleRead(h, op, ok)
  <2>1. op = "Read" /\ phase[h] = "Streaming" /\ phase' = phase
    BY <1>1, <1>5, DispatchAgrees DEF HandleRead
  <2>2. status[h] = "open" /\ owed[h] = 0
    BY <1>2, <2>1 DEF status, owed
  <2>3. CASE StartFinish(h, op) /\ UNCHANGED <<bill, taken>>
    <3>1. ops' = [ops EXCEPT ![h] = {"Finish"}]
      BY <1>2, <2>3 DEF StartFinish, Issue
    <3>2. /\ status' = [status EXCEPT ![h] = "ending"]
          /\ owed' = [owed EXCEPT ![h] = 0]
      BY <2>1, <3>1 DEF status, owed, IInv, TypeOK
    <3>3. Ledger!End(h)
      BY <2>2, <2>3, <3>2 DEF Ledger!End, status, owed
    <3> QED BY <3>3 DEF Ledger!Next
  <2>4. ASSUME NEW m \in Messages, m.v # "ResourceFinish",
               /\ bill' = [bill EXCEPT ![h] = Billed(@, m)]
               /\ Issue(h, op, {"Write"})
        PROVE  Ledger!Apply(h)
    <3>1. ops' = [ops EXCEPT ![h] = {"Write"}]
      BY <1>2, <2>4 DEF Issue
    <3>2. status' = status /\ owed' = [owed EXCEPT ![h] = 1]
      BY <1>2, <2>1, <3>1 DEF status, owed, IInv, TypeOK
    <3>3. bill' = [bill EXCEPT ![h] = Ledger!Billed(@, m)]
      BY <2>4, SameBilling
    <3> QED BY <2>2, <2>4, <3>2, <3>3 DEF Ledger!Apply, status, owed
  <2>5. CASE ok
    <3>1. inbox[h] \in Seq(Messages) /\ inbox[h] # <<>>
      BY <1>1, <2>1, <2>5 DEF Delivers, IInv, TypeOK
    <3>2. Head(inbox[h]) \in Messages
      BY <3>1
    <3>3. Incoming(h, op, Head(inbox[h]))
      BY <1>5, <2>1, <2>5 DEF HandleRead, Request
    <3> QED BY <2>3, <2>4, <3>2, <3>3 DEF Incoming, Ledger!Next
  <2>6. CASE ~ok
    BY <1>5, <2>3, <2>6 DEF HandleRead
  <2> QED BY <2>5, <2>6
<1>6. CASE HandleWrite(h, op, ok)
  <2>1. op = "Write" /\ phase[h] = "Streaming"
    BY <1>1, <1>6, DispatchAgrees DEF HandleWrite
  <2>2. UNCHANGED <<phase, bill>>
    BY <1>6 DEF HandleWrite
  <2>3. status[h] = "open" /\ owed[h] = 1
    BY <1>2, <2>1 DEF status, owed
  <2>4. CASE ok
    <3>1. ops' = [ops EXCEPT ![h] = {"Read"}]
      BY <1>2, <1>6, <2>4 DEF HandleWrite, Issue
    <3>2. status' = status /\ owed' = [owed EXCEPT ![h] = 0]
      BY <1>2, <2>1, <2>2, <3>1 DEF status, owed, IInv, TypeOK
    <3>3. Ledger!Acknowledge(h)
      BY <2>2, <2>3, <3>2 DEF Ledger!Acknowledge, status, owed
    <3> QED BY <3>3 DEF Ledger!Next
  <2>5. CASE ~ok
    <3>1. ops' = [ops EXCEPT ![h] = {"Finish"}]
      BY <1>2, <1>6, <2>5 DEF HandleWrite, StartFinish, Issue
    <3>2. /\ status' = [status EXCEPT ![h] = "ending"]
          /\ owed' = [owed EXCEPT ![h] = 0]
      BY <2>1, <2>2, <3>1 DEF status, owed, IInv, TypeOK
    <3>3. Ledger!End(h)
      BY <2>2, <2>3, <3>2 DEF Ledger!End, status, owed
    <3> QED BY <3>3 DEF Ledger!Next
  <2> QED BY <2>4, <2>5
<1>7. CASE HandleFinish(h, op, ok)
  <2>1. op = "Finish" /\ phase[h] = "Streaming"
    BY <1>1, <1>7, DispatchAgrees DEF HandleFinish, IInv, OneEventPerHandler
  <2>2. /\ phase' = [phase EXCEPT ![h] = "free"]
        /\ ops' = [ops EXCEPT ![h] = {}]
        /\ bill' = [bill EXCEPT ![h] = Ledger!EmptyBill]
    BY <1>2, <1>7 DEF HandleFinish, Destroy, Issue, EmptyBill, Ledger!EmptyBill
  <2>3. /\ status[h] = "ending"
        /\ status' = [status EXCEPT ![h] = "closed"]
    BY <1>2, <2>1, <2>2 DEF status, IInv, TypeOK
  <2>4. owed' = owed
    BY <1>2, <2>1, <2>2 DEF owed, IInv, TypeOK
  <2>5. Ledger!Close(h)
    BY <2>2, <2>3, <2>4 DEF Ledger!Close, status, owed
  <2> QED BY <2>5 DEF Ledger!Next
<1> QED BY <1>1, <1>3, <1>4, <1>5, <1>6, <1>7 DEF Process

LEMMA LedgerNext == SessionInv /\ [Next]_vars => [Ledger!Next]_(Ledger!vars)
<1> SUFFICES ASSUME SessionInv, [Next]_vars PROVE [Ledger!Next]_(Ledger!vars)
  OBVIOUS
<1>1. CASE UNCHANGED <<phase, ops, bill>>
  BY <1>1, LedgerStutter
<1>2. ASSUME NEW h \in Handlers, Completion(h) PROVE [Ledger!Next]_(Ledger!vars)
  BY <1>2, LedgerCompletion
<1>3. ASSUME NEW h \in Handlers,
             ClientSend(h) \/ ClientHalfClose(h) \/ ClientBreak(h)
      PROVE  [Ledger!Next]_(Ledger!vars)
  BY <1>1, <1>3 DEF ClientSend, ClientHalfClose, ClientBreak
<1>4. CASE Shutdown
  BY <1>1, <1>4 DEF Shutdown
<1> QED BY <1>1, <1>2, <1>3, <1>4 DEF Next, vars

(* LimitHandler gives every client the ledger: one message billed at a     *)
(* time, acknowledged before the next, into a bill of its own.             *)
THEOREM LedgerImplemented == Spec => ImplementsLedger
<1> QED
  BY LedgerInit, LedgerNext, InitSessionInv, NextSessionInv, PTL
  DEF Spec, ImplementsLedger, Ledger!Spec

-----------------------------------------------------------------------------
(* Sums over finite sets.  The folds of the model are recursive functions: *)
(* that the one of a sum exists, and does not depend on the order, follows *)
(* from induction over the naturals, stated for a set.                     *)

Below == {ss \in Nat \X Nat : ss[1] < ss[2]}

LEMMA BelowWellFounded == IsWellFoundedOn(Below, Nat)
  BY NatLessThanWellFounded DEF OpToRel, Below

LEMMA LeastNatural ==
  ASSUME NEW T \in SUBSET Nat, T # {}
  PROVE  \E n \in T : \A m \in T : n <= m
<1>1. PICK x \in T : \A y \in T : <<y, x>> \notin Below
  BY BelowWellFounded, WFMin
<1>2. \A y \in T : ~ (y < x)
  BY <1>1 DEF Below
<1> QED
  BY <1>2

LEMMA SetInduction ==
  ASSUME NEW T, 0 \in T, \A n \in Nat : n \in T => n + 1 \in T
  PROVE  Nat \subseteq T
<1> DEFINE U == Nat \ T
<1> SUFFICES ASSUME U # {} PROVE FALSE
  OBVIOUS
<1>1. PICK n \in U : \A m \in U : n <= m
  BY LeastNatural
<1>2. n # 0 /\ n - 1 \in Nat /\ n - 1 \notin U
  BY <1>1
<1> QED
  BY <1>1, <1>2

(* The element a fold over s takes first. *)
First(s) == CHOOSE x \in s : TRUE

(* `it` is the recursive function of the fold, for the sets of D. *)
Adds(it, D, f) ==
  it = [s \in D |-> IF s = {} THEN 0 ELSE f[First(s)] + it[s \ {First(s)}]]

Amount(s, I, r) == MapThenSumSet(LAMBDA i : s[i].items[r], I)

Values(s, I, r) == [i \in I |-> s[i].items[r]]

LEMMA FirstIn == ASSUME NEW s, s # {} PROVE First(s) \in s
  BY DEF First

LEMMA AmountDef ==
  ASSUME NEW s, NEW I, NEW r, NEW g, Adds(g, SUBSET I, Values(s, I, r)),
         \A it : Adds(it, SUBSET I, Values(s, I, r)) => it[I] = g[I]
  PROVE  Amount(s, I, r) = g[I]
<1> DEFINE f == Values(s, I, r)
           P(it) == it = [t \in SUBSET I |->
                       IF t = {} THEN 0 ELSE s[First(t)].items[r] + it[t \ {First(t)}]]
<1>1. Amount(s, I, r) = (CHOOSE it : P(it))[I]
  BY DEF Amount, MapThenSumSet, MapThenFoldSet, First
<1>2. ASSUME NEW it PROVE P(it) <=> Adds(it, SUBSET I, f)
  <2>1. ASSUME NEW t \in SUBSET I, t # {} PROVE f[First(t)] = s[First(t)].items[r]
    BY <2>1, FirstIn DEF Values
  <2> QED
    BY <2>1 DEF Adds
<1> HIDE DEF P
<1>3. P(CHOOSE it : P(it))
  BY <1>2
<1> QED
  BY <1>1, <1>2, <1>3

LEMMA WithoutOne ==
  ASSUME NEW I, IsFiniteSet(I), NEW s \in SUBSET I, NEW x \in s
  PROVE  /\ s \ {x} \in SUBSET I /\ Cardinality(s) \in Nat /\ Cardinality(s) # 0
         /\ Cardinality(s \ {x}) = Cardinality(s) - 1
<1>1. IsFiniteSet(s)
  BY FS_Subset
<1>2. Cardinality(s) \in Nat /\ (Cardinality(s) = 0 <=> s = {})
  BY <1>1, FS_EmptySet, FS_CardinalityType
<1>3. Cardinality(s \ {x}) = Cardinality(s) - 1
  BY <1>1, FS_RemoveElement
<1> QED
  BY <1>2, <1>3

Small(I, n) == {s \in SUBSET I : Cardinality(s) <= n}

(* The recursive function of the fold exists. *)
LEMMA AddsExists ==
  ASSUME NEW I, IsFiniteSet(I), NEW f
  PROVE  \E it : Adds(it, SUBSET I, f)
<1> DEFINE T == {n \in Nat : \E it : Adds(it, Small(I, n), f)}
<1>1. 0 \in T
  <2> DEFINE it == [s \in Small(I, 0) |-> 0]
  <2>1. \A s \in Small(I, 0) : s = {}
    BY FS_Subset, FS_EmptySet, FS_CardinalityType DEF Small
  <2>2. Adds(it, Small(I, 0), f)
    BY <2>1 DEF Adds
  <2> QED
    BY <2>2
<1>2. ASSUME NEW n \in Nat, n \in T PROVE n + 1 \in T
  <2>1. PICK old : Adds(old, Small(I, n), f)
    BY <1>2
  <2> DEFINE it == [s \in Small(I, n + 1) |-> IF s = {} THEN 0 ELSE f[First(s)] + old[s \ {First(s)}]]
  <2>2. \A s \in Small(I, n) : s \in Small(I, n + 1) /\ it[s] = old[s]
    <3> TAKE s \in Small(I, n)
    <3>1. Cardinality(s) \in Nat
      BY FS_Subset, FS_CardinalityType DEF Small
    <3>2. s \in Small(I, n + 1)
      BY <3>1 DEF Small
    <3>3. old[s] = IF s = {} THEN 0 ELSE f[First(s)] + old[s \ {First(s)}]
      BY <2>1 DEF Adds
    <3> QED
      BY <3>2, <3>3
  <2>3. \A s \in Small(I, n + 1) : s # {} => it[s \ {First(s)}] = old[s \ {First(s)}]
    <3> SUFFICES ASSUME NEW s \in Small(I, n + 1), s # {}
                 PROVE  it[s \ {First(s)}] = old[s \ {First(s)}]
      OBVIOUS
    <3>1. s \in SUBSET I /\ First(s) \in s /\ Cardinality(s) <= n + 1
      BY FirstIn DEF Small
    <3>2. s \ {First(s)} \in Small(I, n)
      BY <3>1, WithoutOne DEF Small
    <3> QED
      BY <2>2, <3>2
  <2>4. it = [s \in Small(I, n + 1) |-> IF s = {} THEN 0 ELSE f[First(s)] + it[s \ {First(s)}]]
    BY <2>3
  <2>5. Adds(it, Small(I, n + 1), f)
    BY <2>4, Zenon DEF Adds
  <2> HIDE DEF it
  <2> QED
    BY <2>5
<1>3. Cardinality(I) \in T
  <2> HIDE DEF T
  <2> QED
    BY <1>1, <1>2, SetInduction, FS_CardinalityType
<1>4. Small(I, Cardinality(I)) = SUBSET I
  <2>1. \A s \in SUBSET I : Cardinality(s) <= Cardinality(I)
    BY FS_Subset
  <2> QED
    BY <2>1 DEF Small
<1> QED
  BY <1>3, <1>4

LEMMA AddsUnique ==
  ASSUME NEW I, IsFiniteSet(I), NEW f, NEW it, Adds(it, SUBSET I, f), NEW jt,
         Adds(jt, SUBSET I, f), NEW s \in SUBSET I
  PROVE  it[s] = jt[s]
<1> DEFINE T == {n \in Nat : \A t \in SUBSET I : Cardinality(t) = n => it[t] = jt[t]}
<1>0. \A t \in SUBSET I : /\ it[t] = IF t = {} THEN 0 ELSE f[First(t)] + it[t \ {First(t)}]
                          /\ jt[t] = IF t = {} THEN 0 ELSE f[First(t)] + jt[t \ {First(t)}]
  BY DEF Adds
<1>1. 0 \in T
  <2>1. \A t \in SUBSET I : Cardinality(t) = 0 => t = {}
    BY FS_Subset, FS_EmptySet
  <2> QED
    BY <1>0, <2>1
<1>2. ASSUME NEW n \in Nat, n \in T PROVE n + 1 \in T
  <2> SUFFICES ASSUME NEW t \in SUBSET I, Cardinality(t) = n + 1 PROVE it[t] = jt[t]
    OBVIOUS
  <2>1. t # {} /\ First(t) \in t
    BY FS_EmptySet, FirstIn
  <2>2. t \ {First(t)} \in SUBSET I /\ Cardinality(t \ {First(t)}) = n
    BY <2>1, WithoutOne
  <2>3. it[t \ {First(t)}] = jt[t \ {First(t)}]
    BY <1>2, <2>2
  <2> QED
    BY <1>0, <2>1, <2>3
<1>3. Cardinality(s) \in T
  <2> HIDE DEF T
  <2> QED
    BY <1>1, <1>2, SetInduction, FS_CardinalityType, FS_Subset
<1> QED
  BY <1>3

LEMMA AddsInt ==
  ASSUME NEW I, IsFiniteSet(I), NEW f \in [I -> Int], NEW it, Adds(it, SUBSET I, f),
         NEW s \in SUBSET I
  PROVE  it[s] \in Int
<1> DEFINE T == {n \in Nat : \A t \in SUBSET I : Cardinality(t) = n => it[t] \in Int}
<1>0. \A t \in SUBSET I : it[t] = IF t = {} THEN 0 ELSE f[First(t)] + it[t \ {First(t)}]
  BY DEF Adds
<1>1. \A t \in SUBSET I : t = {} <=> Cardinality(t) = 0
  BY FS_Subset, FS_EmptySet
<1>2. 0 \in T
  <2>1. it[{}] = 0
    BY <1>0
  <2>2. it[{}] \in Int
    BY <2>1
  <2> QED
    BY <1>1, <2>2
<1>3. ASSUME NEW n \in Nat, n \in T PROVE n + 1 \in T
  <2> SUFFICES ASSUME NEW t \in SUBSET I, Cardinality(t) = n + 1 PROVE it[t] \in Int
    OBVIOUS
  <2> DEFINE c == First(t)
  <2>1. t # {}
    BY <1>1
  <2>2. c \in t
    BY <2>1, FirstIn
  <2>3. it[t] = f[c] + it[t \ {c}]
    BY <1>0, <2>1
  <2> HIDE DEF c
  <2>4. t \ {c} \in SUBSET I /\ Cardinality(t \ {c}) = n
    BY <2>2, WithoutOne
  <2>5. it[t \ {c}] \in Int
    BY <1>3, <2>4
  <2>6. f[c] \in Int
    BY <2>2
  <2> QED
    BY <2>3, <2>5, <2>6
<1>4. Cardinality(s) \in T
  <2> HIDE DEF T
  <2> QED
    BY <1>2, <1>3, SetInduction, FS_CardinalityType, FS_Subset
<1> QED
  BY <1>4

(* Which element is taken first does not matter. *)
LEMMA AddsAnyOrder ==
  ASSUME NEW I, IsFiniteSet(I), NEW f \in [I -> Int], NEW it, Adds(it, SUBSET I, f)
  PROVE  \A s \in SUBSET I : \A x \in s : it[s] = f[x] + it[s \ {x}]
<1> SUFFICES ASSUME NEW s \in SUBSET I
             PROVE  \A x \in s : it[s] = f[x] + it[s \ {x}]
  OBVIOUS
<1> DEFINE Good(t) == \A x \in t : it[t] = f[x] + it[t \ {x}]
           T == {n \in Nat : \A t \in SUBSET I : Cardinality(t) = n => Good(t)}
<1>0. \A t \in SUBSET I : /\ it[t] = IF t = {} THEN 0 ELSE f[First(t)] + it[t \ {First(t)}]
                          /\ it[t] \in Int
  BY AddsInt DEF Adds
<1>1. 0 \in T
  <2>1. \A t \in SUBSET I : Cardinality(t) = 0 => t = {}
    BY FS_Subset, FS_EmptySet
  <2> QED
    BY <2>1
<1>2. ASSUME NEW n \in Nat, n \in T PROVE n + 1 \in T
  <2> SUFFICES ASSUME NEW t \in SUBSET I, Cardinality(t) = n + 1, NEW x \in t
               PROVE  it[t] = f[x] + it[t \ {x}]
    OBVIOUS
  <2> DEFINE c == First(t)
             b == (t \ {x}) \ {c}
  <2>1. c \in t /\ it[t] = f[c] + it[t \ {c}]
    BY <1>0, FirstIn
  <2> HIDE DEF c
  <2>2. CASE x = c
    BY <2>1, <2>2
  <2>3. CASE x # c
    <3>1. /\ t \ {x} \in SUBSET I /\ Cardinality(t \ {x}) = n
          /\ t \ {c} \in SUBSET I /\ Cardinality(t \ {c}) = n
      BY <2>1, WithoutOne
    <3>2. Good(t \ {x}) /\ Good(t \ {c})
      BY <1>2, <3>1
    <3>3. c \in t \ {x} /\ x \in t \ {c} /\ (t \ {c}) \ {x} = b
      BY <2>1, <2>3
    <3>4. it[t \ {x}] = f[c] + it[b] /\ it[t \ {c}] = f[x] + it[b]
      BY <3>2, <3>3
    <3>5. f[c] \in Int /\ f[x] \in Int /\ it[b] \in Int
      BY <1>0, <2>1
    <3> HIDE DEF b
    <3> QED
      BY <2>1, <3>4, <3>5
  <2> QED
    BY <2>2, <2>3
<1>3. Cardinality(s) \in T
  <2> HIDE DEF T
  <2> QED
    BY <1>1, <1>2, SetInduction, FS_CardinalityType, FS_Subset
<1> QED
  BY <1>3

LEMMA AmountValue ==
  ASSUME NEW s, NEW I, IsFiniteSet(I), NEW r, NEW g, Adds(g, SUBSET I, Values(s, I, r))
  PROVE  Amount(s, I, r) = g[I]
<1>1. \A it : Adds(it, SUBSET I, Values(s, I, r)) => it[I] = g[I]
  <2> TAKE it
  <2> HAVE Adds(it, SUBSET I, Values(s, I, r))
  <2>1. I \in SUBSET I
    OBVIOUS
  <2> QED
    BY <2>1, AddsUnique
<1> QED
  BY <1>1, AmountDef

LEMMA AmountEmpty == ASSUME NEW s, NEW r PROVE Amount(s, {}, r) = 0
<1>1. IsFiniteSet({})
  BY FS_EmptySet
<1>2. PICK g : Adds(g, SUBSET {}, Values(s, {}, r))
  BY <1>1, AddsExists
<1>3. g[{}] = 0
  <2> DEFINE v == Values(s, {}, r)
             e(t) == IF t = {} THEN 0 ELSE v[First(t)] + g[t \ {First(t)}]
  <2>1. g = [t \in SUBSET {} |-> e(t)]
    BY <1>2, Zenon DEF Adds
  <2>2. e({}) = 0 /\ {} \in SUBSET {}
    OBVIOUS
  <2> HIDE DEF e
  <2> QED
    BY <2>1, <2>2
<1> QED
  BY <1>1, <1>2, <1>3, AmountValue

LEMMA AmountSame ==
  ASSUME NEW s, NEW t, NEW I, IsFiniteSet(I), NEW r,
         \A i \in I : s[i].items[r] = t[i].items[r]
  PROVE  Amount(s, I, r) = Amount(t, I, r)
<1>1. Values(s, I, r) = Values(t, I, r)
  BY DEF Values
<1>2. PICK g : Adds(g, SUBSET I, Values(s, I, r))
  BY AddsExists
<1>3. Amount(s, I, r) = g[I]
  BY <1>2, AmountValue
<1>4. Amount(t, I, r) = g[I]
  BY <1>1, <1>2, AmountValue
<1> QED
  BY <1>3, <1>4

(* A sum is an element and the sum of the others. *)
LEMMA AddsStep ==
  ASSUME NEW J, IsFiniteSet(J), NEW f \in [J -> Int], NEW g, Adds(g, SUBSET J, f), NEW x \in J
  PROVE  g[J] = g[J \ {x}] + f[x] /\ g[J \ {x}] \in Int
<1>1. g[J] = f[x] + g[J \ {x}]
  <2>1. ASSUME NEW t \in SUBSET J PROVE \A y \in t : g[t] = f[y] + g[t \ {y}]
    BY AddsAnyOrder
  <2> QED
    BY <2>1
<1>2. g[J \ {x}] \in Int
  BY AddsInt
<1>3. f[x] \in Int
  OBVIOUS
<1> QED
  BY <1>1, <1>2, <1>3

Part(g, I) == [t \in SUBSET I |-> g[t]]

LEMMA AddsPart ==
  ASSUME NEW J, NEW f, NEW g, Adds(g, SUBSET J, f), NEW I \in SUBSET J,
         NEW e, \A i \in I : e[i] = f[i]
  PROVE  Adds(Part(g, I), SUBSET I, e)
<1> DEFINE h == Part(g, I)
<1>1. ASSUME NEW t \in SUBSET I
      PROVE  g[t] = IF t = {} THEN 0 ELSE e[First(t)] + h[t \ {First(t)}]
  <2>1. g[t] = IF t = {} THEN 0 ELSE f[First(t)] + g[t \ {First(t)}]
    BY DEF Adds
  <2>2. t # {} => f[First(t)] = e[First(t)]
    BY FirstIn
  <2>3. h[t \ {First(t)}] = g[t \ {First(t)}]
    BY DEF Part
  <2> HIDE DEF h
  <2> QED
    BY <2>1, <2>2, <2>3
<1>2. h = [t \in SUBSET I |-> IF t = {} THEN 0 ELSE e[First(t)] + h[t \ {First(t)}]]
  BY <1>1 DEF Part
<1> HIDE DEF h
<1>3. Adds(h, SUBSET I, e)
  BY <1>2 DEF Adds
<1> QED
  BY <1>3 DEF h

IntValues(s, I, r) == Values(s, I, r) \in [I -> Int]

Added(s, I, x, r) ==
  /\ Amount(s, I, r) \in Int
  /\ Amount(s, I \cup {x}, r) = Amount(s, I, r) + s[x].items[r]

LEMMA AmountAdd ==
  ASSUME NEW s, NEW I, IsFiniteSet(I), NEW x, x \notin I, NEW r,
         IntValues(s, I \cup {x}, r)
  PROVE  Added(s, I, x, r)
<1>1. PICK J : J = I \cup {x}
  OBVIOUS
<1>2. IsFiniteSet(J) /\ x \in J /\ J \ {x} = I /\ I \in SUBSET J
  BY <1>1, FS_AddElement
<1>3. PICK f : f = Values(s, J, r)
  OBVIOUS
<1>4. f \in [J -> Int] /\ f[x] = s[x].items[r] /\ \A i \in I : Values(s, I, r)[i] = f[i]
  BY <1>1, <1>2, <1>3 DEF IntValues, Values
<1>5. PICK g : Adds(g, SUBSET J, f)
  BY <1>2, AddsExists
<1>6. Amount(s, J, r) = g[J]
  BY <1>2, <1>3, <1>5, AmountValue
<1>7. g[J] = g[J \ {x}] + f[x] /\ g[J \ {x}] \in Int
  BY <1>2, <1>4, <1>5, AddsStep
<1>8. ASSUME NEW K \in SUBSET J, K = I, NEW e, e = Values(s, I, r)
      PROVE  Adds(Part(g, K), SUBSET K, e)
  <2>1. \A i \in K : e[i] = f[i]
    BY <1>4, <1>8
  <2> QED
    BY <1>5, <2>1, AddsPart
<1>9. Adds(Part(g, I), SUBSET I, Values(s, I, r))
  BY <1>2, <1>8
<1>10. Amount(s, I, r) = Part(g, I)[I]
  BY <1>9, AmountValue
<1>11. Part(g, I)[I] = g[I]
  BY DEF Part
<1> QED
  BY <1>1, <1>2, <1>4, <1>6, <1>7, <1>10, <1>11 DEF Added

-----------------------------------------------------------------------------
(* The bill b is what the messages s ask for. *)
History(b, s) ==
  /\ DOMAIN b = {r \in Resources : ItemsFor(s, r) # {}}
  /\ \A r \in DOMAIN b : b[r] = Amount(s, ItemsFor(s, r), r)

HistoryInv == \A h \in Handlers : History(bill[h], taken[h])

LEMMA HistoryIsBill == HistoryInv => BillIsHistory
  BY DEF HistoryInv, BillIsHistory, History, Amount

LEMMA EmptyHistory == History(EmptyBill, <<>>)
<1>1. \A r : ItemsFor(<<>>, r) = {}
  BY DEF ItemsFor, SinceOverwrite
<1>2. DOMAIN EmptyBill = {}
  BY DEF EmptyBill
<1> QED
  BY <1>1, <1>2 DEF History

LEMMA SinceAppend ==
  ASSUME NEW s \in Seq(Messages), NEW m \in Messages, NEW n, n = Len(s), NEW t, t = Append(s, m)
  PROVE  /\ n \in Nat /\ SinceOverwrite(s) \subseteq 1..n
         /\ t \in Seq(Messages) /\ t[n + 1] = m /\ \A i \in 1..n : t[i] = s[i]
         /\ m.v = "BillOverwrite" => SinceOverwrite(t) = {n + 1}
         /\ m.v = "BillAppend" => SinceOverwrite(t) = SinceOverwrite(s) \cup {n + 1}
         /\ m.v \notin {"BillOverwrite", "BillAppend"} => SinceOverwrite(t) = SinceOverwrite(s)
<1>1. n \in Nat /\ DOMAIN s = 1..n
  OBVIOUS
<1>2. /\ t \in Seq(Messages) /\ t[n + 1] = m /\ DOMAIN t = 1..n + 1
      /\ \A i \in 1..n : t[i] = s[i]
  OBVIOUS
<1>3. SinceOverwrite(s) \subseteq 1..n
  BY <1>1 DEF SinceOverwrite
<1>4. ASSUME m.v = "BillOverwrite" PROVE SinceOverwrite(t) = {n + 1}
  <2>1. ASSUME NEW i \in SinceOverwrite(t) PROVE i = n + 1
    BY <1>1, <1>2, <1>4 DEF SinceOverwrite
  <2>2. n + 1 \in SinceOverwrite(t)
    BY <1>1, <1>2, <1>4 DEF SinceOverwrite
  <2> QED
    BY <2>1, <2>2
<1>5. ASSUME m.v # "BillOverwrite"
      PROVE  \A i \in 1..n : i \in SinceOverwrite(t) <=> i \in SinceOverwrite(s)
  BY <1>1, <1>2, <1>5 DEF SinceOverwrite
<1>6. ASSUME m.v = "BillAppend" PROVE n + 1 \in SinceOverwrite(t)
  BY <1>1, <1>2, <1>6 DEF SinceOverwrite
<1>7. ASSUME m.v \notin {"BillOverwrite", "BillAppend"} PROVE n + 1 \notin SinceOverwrite(t)
  BY <1>2, <1>7 DEF SinceOverwrite
<1>8. SinceOverwrite(t) \subseteq 1..n + 1 /\ 1..n + 1 = 1..n \cup {n + 1}
  BY <1>1, <1>2 DEF SinceOverwrite
<1>9. ASSUME m.v = "BillAppend" PROVE SinceOverwrite(t) = SinceOverwrite(s) \cup {n + 1}
  BY <1>3, <1>5, <1>6, <1>8, <1>9
<1>10. ASSUME m.v \notin {"BillOverwrite", "BillAppend"} PROVE SinceOverwrite(t) = SinceOverwrite(s)
  BY <1>3, <1>5, <1>7, <1>8, <1>10
<1> QED
  BY <1>1, <1>2, <1>3, <1>4, <1>9, <1>10

(* process_incoming_message keeps the bill what the messages ask for. *)
LEMMA BilledHistory ==
  ASSUME NEW s \in Seq(Messages), NEW m \in Messages, NEW b, IsBill(b), History(b, s)
  PROVE  History(Billed(b, m), Append(s, m))
<1> DEFINE n == Len(s)
           t == Append(s, m)
<1>1. /\ n \in Nat /\ SinceOverwrite(s) \subseteq 1..n
      /\ t \in Seq(Messages) /\ t[n + 1] = m /\ \A i \in 1..n : t[i] = s[i]
      /\ m.v = "BillOverwrite" => SinceOverwrite(t) = {n + 1}
      /\ m.v = "BillAppend" => SinceOverwrite(t) = SinceOverwrite(s) \cup {n + 1}
      /\ m.v \notin {"BillOverwrite", "BillAppend"} => SinceOverwrite(t) = SinceOverwrite(s)
  BY SinceAppend
<1> HIDE DEF n, t
<1>2. PICK M \in SUBSET Resources : m.items \in [M -> Int]
  BY MessagesAssumption DEF IsBill
<1>3. DOMAIN m.items = M
  BY <1>2
<1>4. \A r : /\ ItemsFor(s, r) \subseteq 1..n /\ IsFiniteSet(ItemsFor(s, r)) /\ n + 1 \notin ItemsFor(s, r)
             /\ \A i \in ItemsFor(s, r) : s[i] = t[i] /\ s[i].items[r] \in Int
  <2> TAKE r
  <2>1. ItemsFor(s, r) \subseteq 1..n
    BY <1>1 DEF ItemsFor
  <2>2. IsFiniteSet(1..n)
    BY <1>1, FS_Interval
  <2>3. IsFiniteSet(ItemsFor(s, r))
    BY <2>1, <2>2, FS_Subset
  <2>4. ASSUME NEW i \in ItemsFor(s, r) PROVE s[i] = t[i] /\ s[i].items[r] \in Int
    <3>1. s[i] \in Messages /\ r \in DOMAIN s[i].items
      BY <2>1 DEF ItemsFor, n
    <3>2. PICK D \in SUBSET Resources : s[i].items \in [D -> Int]
      BY <3>1, MessagesAssumption DEF IsBill
    <3> QED
      BY <1>1, <2>1, <3>1, <3>2
  <2>5. n + 1 \notin ItemsFor(s, r)
    BY <1>1, <2>1
  <2> QED
    BY <2>1, <2>3, <2>4, <2>5
<1>5. \A r : Amount(t, ItemsFor(s, r), r) = Amount(s, ItemsFor(s, r), r)
  <2> TAKE r
  <2>1. \A i \in ItemsFor(s, r) : t[i].items[r] = s[i].items[r]
    BY <1>4
  <2> QED
    BY <1>4, <2>1, AmountSame
<1>6. ASSUME NEW r \in M, NEW I, IsFiniteSet(I), n + 1 \notin I, \A i \in I : t[i].items[r] \in Int
      PROVE  /\ Amount(t, I, r) \in Int
             /\ Amount(t, I \cup {n + 1}, r) = Amount(t, I, r) + m.items[r]
  <2>1. t[n + 1].items[r] = m.items[r] /\ m.items[r] \in Int
    BY <1>1, <1>2
  <2>2. \A i \in I \cup {n + 1} : t[i].items[r] \in Int
    BY <1>6, <2>1
  <2>3. IntValues(t, I \cup {n + 1}, r)
    BY <2>2 DEF IntValues, Values
  <2>4. Added(t, I, n + 1, r)
    BY <1>6, <2>3, AmountAdd
  <2> QED
    BY <2>1, <2>4 DEF Added
<1>7. CASE m.v = "BillOverwrite"
  <2>1. Billed(b, m) = m.items
    BY <1>7 DEF Billed
  <2>2. \A r : ItemsFor(t, r) = IF r \in M THEN {n + 1} ELSE {}
    BY <1>1, <1>3, <1>7 DEF ItemsFor
  <2>3. ASSUME NEW r \in M PROVE m.items[r] = Amount(t, ItemsFor(t, r), r)
    <3>1. Amount(t, {} \cup {n + 1}, r) = Amount(t, {}, r) + m.items[r]
      BY <1>6, FS_EmptySet
    <3>2. Amount(t, {}, r) = 0 /\ m.items[r] \in Int
      BY <1>2, AmountEmpty
    <3>3. {} \cup {n + 1} = ItemsFor(t, r)
      BY <2>2
    <3>4. 0 + m.items[r] = m.items[r]
      BY <3>2
    <3> QED
      BY <3>1, <3>2, <3>3, <3>4, Zenon
  <2>4. History(m.items, t)
    BY <1>3, <2>2, <2>3 DEF History
  <2> QED
    BY <2>1, <2>4 DEF t
<1>8. CASE m.v = "BillAppend"
  <2> DEFINE c == Charge(b, m.items)
             v(r) == (IF r \in DOMAIN b THEN b[r] ELSE 0) + (IF r \in M THEN m.items[r] ELSE 0)
  <2>1. Billed(b, m) = c
    BY <1>8 DEF Billed
  <2>2. DOMAIN c = DOMAIN b \cup M /\ \A r \in DOMAIN b \cup M : c[r] = v(r)
    BY <1>3 DEF Charge
  <2> HIDE DEF c
  <2>3. \A r : ItemsFor(t, r) = ItemsFor(s, r) \cup (IF r \in M THEN {n + 1} ELSE {})
    <3> TAKE r
    <3>1. ASSUME NEW i \in ItemsFor(t, r) PROVE i \in ItemsFor(s, r) \cup (IF r \in M THEN {n + 1} ELSE {})
      BY <1>1, <1>3, <1>8 DEF ItemsFor
    <3>2. ASSUME NEW i \in ItemsFor(s, r) PROVE i \in ItemsFor(t, r)
      BY <1>1, <1>4, <1>8 DEF ItemsFor
    <3>3. r \in M => n + 1 \in ItemsFor(t, r)
      BY <1>1, <1>3, <1>8 DEF ItemsFor
    <3> QED
      BY <3>1, <3>2, <3>3
  <2>4. DOMAIN c = {r \in Resources : ItemsFor(t, r) # {}}
    BY <1>2, <2>2, <2>3 DEF History
  <2>5. ASSUME NEW r \in DOMAIN c PROVE c[r] = Amount(t, ItemsFor(t, r), r)
    <3> DEFINE I == ItemsFor(s, r)
    <3>1. r \in Resources
      BY <2>4
    <3>2. (IF r \in DOMAIN b THEN b[r] ELSE 0) = Amount(t, I, r)
      <4>1. CASE r \in DOMAIN b
        BY <1>5, <4>1 DEF History
      <4>2. CASE r \notin DOMAIN b
        <5>1. I = {}
          BY <3>1, <4>2 DEF History
        <5> QED
          BY <4>2, <5>1, AmountEmpty
      <4> QED
        BY <4>1, <4>2
    <3>3. CASE r \in M
      <4>1. /\ IsFiniteSet(I) /\ n + 1 \notin I /\ \A i \in I : t[i].items[r] \in Int
        BY <1>4
      <4>2. Amount(t, I \cup {n + 1}, r) = Amount(t, I, r) + m.items[r]
        BY <1>6, <3>3, <4>1
      <4>3. I \cup {n + 1} = ItemsFor(t, r)
        BY <2>3, <3>3
      <4> QED
        BY <2>2, <3>2, <3>3, <4>2, <4>3
    <3>4. CASE r \notin M
      <4>1. ItemsFor(t, r) = I /\ r \in DOMAIN b
        BY <2>2, <2>3, <3>4
      <4>2. b[r] \in Int
        BY <4>1 DEF IsBill
      <4> QED
        BY <2>2, <3>2, <3>4, <4>1, <4>2
    <3> QED
      BY <3>3, <3>4
  <2>6. History(c, t)
    BY <2>4, <2>5 DEF History
  <2> QED
    BY <2>1, <2>6 DEF t
<1>9. CASE m.v \notin {"BillOverwrite", "BillAppend"}
  <2>1. Billed(b, m) = b
    BY <1>9 DEF Billed
  <2>2. \A r : ItemsFor(t, r) = ItemsFor(s, r)
    BY <1>1, <1>4, <1>9 DEF ItemsFor
  <2>3. History(b, t)
    BY <1>5, <2>2 DEF History
  <2> QED
    BY <2>1, <2>3 DEF t
<1> QED
  BY <1>7, <1>8, <1>9

(* Every completion leaves bill and messages of a session as they are,     *)
(* empties both, or takes one message into both.                           *)
LEMMA CompletionHistory ==
  ASSUME SessionInv, HistoryInv, NEW h \in Handlers, Completion(h)
  PROVE  HistoryInv'
<1>0. \A x \in Handlers : History(bill[x], taken[x])
  BY DEF HistoryInv
<1> SUFFICES \A x \in Handlers : History(bill'[x], taken'[x])
  BY DEF HistoryInv
<1> USE DEF SessionInv
<1>1. PICK op \in Ops, ok \in BOOLEAN : Delivers(h, op, ok) /\ Process(h, op, ok)
  BY DEF Completion
<1>2. CASE UNCHANGED <<bill, taken>>
  BY <1>0, <1>2
<1>3. CASE Destroy(h, op)
  <2>1. /\ bill'[h] = EmptyBill /\ taken'[h] = <<>>
        /\ \A x \in Handlers \ {h} : bill'[x] = bill[x] /\ taken'[x] = taken[x]
    BY <1>3 DEF Destroy, IInv, TypeOK
  <2> QED
    BY <1>0, <2>1, EmptyHistory
<1>4. CASE HandleRead(h, op, ok)
  <2>1. op = "Read"
    BY <1>1, <1>4, DispatchAgrees DEF HandleRead
  <2>2. ASSUME ok, NEW m, m = Request(h, op, ok), m.v # "ResourceFinish"
        PROVE  \A x \in Handlers : History(bill'[x], taken'[x])
    <3>1. /\ bill' = [bill EXCEPT ![h] = Billed(@, m)]
          /\ taken' = [taken EXCEPT ![h] = Append(@, m)]
      BY <1>4, <2>2 DEF HandleRead, Incoming
    <3>2. m \in Messages
      BY <1>1, <2>1, <2>2 DEF Request, Delivers, IInv, TypeOK
    <3>3. /\ bill'[h] = Billed(bill[h], m) /\ taken'[h] = Append(taken[h], m)
          /\ \A x \in Handlers \ {h} : bill'[x] = bill[x] /\ taken'[x] = taken[x]
          /\ taken[h] \in Seq(Messages) /\ IsBill(bill[h])
      BY <3>1 DEF IInv, TypeOK
    <3>4. History(Billed(bill[h], m), Append(taken[h], m))
      BY <1>0, <3>2, <3>3, BilledHistory
    <3> QED
      BY <1>0, <3>3, <3>4
  <2>3. ASSUME ok => Request(h, op, ok).v = "ResourceFinish"
        PROVE  UNCHANGED <<bill, taken>>
    BY <1>4, <2>3 DEF HandleRead, Incoming
  <2> QED
    BY <1>2, <2>2, <2>3
<1> QED
  BY <1>1, <1>2, <1>3, <1>4 DEF Process, Connect, HandleWrite, HandleFinish

(* resource_guard.cc, process_incoming_message: at any moment the bill of  *)
(* every session is the last overwrite it received plus every append after *)
(* it, and nothing of another session or of an earlier one.                *)
THEOREM BillExact == Spec => []BillIsHistory
<1>1. Init => HistoryInv
  <2> SUFFICES ASSUME Init PROVE \A h \in Handlers : History(bill[h], taken[h])
    BY DEF HistoryInv
  <2>1. \A h \in Handlers : bill[h] = EmptyBill /\ taken[h] = <<>>
    BY DEF Init
  <2> QED
    BY <2>1, EmptyHistory
<1>2. SessionInv /\ HistoryInv /\ [Next]_vars => HistoryInv'
  <2> SUFFICES ASSUME SessionInv, HistoryInv, [Next]_vars PROVE HistoryInv'
    OBVIOUS
  <2>1. CASE UNCHANGED <<bill, taken>>
    BY <2>1 DEF HistoryInv
  <2>2. ASSUME NEW h \in Handlers, Completion(h) PROVE HistoryInv'
    BY <2>2, CompletionHistory
  <2> QED
    BY <2>1, <2>2 DEF Next, vars, ClientSend, ClientHalfClose, ClientBreak, Shutdown
<1> QED
  BY <1>1, <1>2, HistoryIsBill, InitSessionInv, NextSessionInv, PTL DEF Spec
=============================================================================
