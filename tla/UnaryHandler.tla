---------------------------- MODULE UnaryHandler ----------------------------
(***************************************************************************)
(* GRPCBasicHandler (common/grpc/callback.h), the state machine of every   *)
(* unary RPC: Write, Read, Delete and Hash of the object store, Send and   *)
(* TellMyAddr of the message service.  Each service has its own chain of   *)
(* handlers on one completion queue served by one thread.                  *)
(*                                                                         *)
(* process advances an integer `state` by one and does what the old value  *)
(* says: 0 requests an RPC, 1 clones the next acceptor, 2 handles the      *)
(* request and finishes, anything else destroys the handler.               *)
(*                                                                         *)
(* The names of its specification differ from those of ObjStore, so that   *)
(* one module can extend both.                                             *)
(***************************************************************************)
EXTENDS Integers, FiniteSets

CONSTANTS
  Handlers,     \* handler objects that can exist at the same time (bound)
  Services,     \* unary RPC methods with a handler class of their own
  NoService

ASSUME ServicesAssumption == NoService \notin Services

LastState == 12345      \* set by finish()

VARIABLES
  service,      \* handler -> the method it serves, NoService when it is free
  state,        \* handler -> `state`
  ops,          \* handler -> operations gRPC holds for it
  rpc,          \* handler -> an RPC was matched to it and is not answered
  serverUp

handlerVars == <<service, state, ops, rpc, serverUp>>

(* main primes one handler per service: arm, then process in state 0. *)
HandlerInit ==
  \E first \in {f \in [Services -> Handlers] :
                  \A s, t \in Services : f[s] = f[t] => s = t} :
    /\ service  = [h \in Handlers |->
         IF \E s \in Services : first[s] = h
         THEN CHOOSE s \in Services : first[s] = h ELSE NoService]
    /\ state    = [h \in Handlers |-> IF service[h] = NoService THEN 0 ELSE 1]
    /\ ops      = [h \in Handlers |->
                     IF service[h] = NoService THEN {} ELSE {"Accept"}]
    /\ rpc      = [h \in Handlers |-> FALSE]
    /\ serverUp = TRUE

Unused == {h \in Handlers : service[h] = NoService}

Shutdown ==
  /\ serverUp /\ serverUp' = FALSE
  /\ UNCHANGED <<service, state, ops, rpc>>

(* gRPC: an acceptor completes with ok when a client calls its method, and *)
(* with ~ok after a shutdown; Finish completes either way.                 *)
Delivers(h, op, ok) ==
  /\ op \in ops[h]
  /\ op = "Accept" => ok = serverUp /\ (ok => Unused # {})

(* What process issues in each state, besides the clone of state 1.        *)
EmitsNoBind(s) ==               \* faulty: no RPC is requested in state 0
  IF s = 2 THEN {"Finish"} ELSE {}

Emits(s) == IF s = 0 THEN {"Accept"} ELSE IF s = 2 THEN {"Finish"} ELSE {}

NextState(s) == IF s = 2 THEN LastState ELSE s + 1

Destroys(s) == s \notin 0..2

(* GRPCBasicHandler::process.  A clone is armed and processed once in the  *)
(* same call, which requests the next RPC of the service.                  *)
Process(h, op, ok) ==
  LET s == state[h]
      clones == IF s = 1 /\ ok THEN {{n} : n \in Unused} ELSE {{}}
  IN  \E C \in clones :
        /\ service' = [x \in Handlers |->
             IF x \in C THEN service[h]
             ELSE IF x = h /\ Destroys(s) THEN NoService ELSE service[x]]
        /\ state' = [x \in Handlers |->
             IF x \in C THEN NextState(0)
             ELSE IF x # h THEN state[x]
             ELSE IF Destroys(s) THEN 0 ELSE NextState(s)]
        /\ ops' = [x \in Handlers |->
             IF x \in C THEN Emits(0)
             ELSE IF x = h THEN (ops[h] \ {op}) \cup Emits(s) ELSE ops[x]]
        /\ rpc' = [rpc EXCEPT ![h] = (op = "Accept" /\ ok) \/ (@ /\ s # 2)]
        /\ UNCHANGED serverUp

Completion(h) ==
  \E op \in {"Accept", "Finish"}, ok \in BOOLEAN :
    Delivers(h, op, ok) /\ Process(h, op, ok)

HandlerNext == (\E h \in Handlers : Completion(h)) \/ Shutdown

Spec == HandlerInit /\ [][HandlerNext]_handlerVars

-----------------------------------------------------------------------------
(* The fields of every handler; free memory has no operation and no RPC.   *)
TypeOK ==
  /\ service \in [Handlers -> Services \cup {NoService}]
  /\ state   \in [Handlers -> {0, 1, 2, LastState}]
  /\ ops     \in [Handlers -> SUBSET {"Accept", "Finish"}]
  /\ rpc     \in [Handlers -> BOOLEAN]
  /\ \A h \in Unused : state[h] = 0 /\ ops[h] = {} /\ ~rpc[h]

(* grpc_async_clone_acceptor in state 1: while the server is up each of    *)
(* the methods is waited for by exactly one handler, so that none of them  *)
(* stops being served because of what happens on another's chain.          *)
EveryServiceListens ==
  serverUp => \A s \in Services :
    Cardinality({h \in Handlers : service[h] = s /\ "Accept" \in ops[h]}) = 1

(* callback.h:15: process "MUST emit another CQ event or destroy the       *)
(* handler safely at the end".                                             *)
EventOrDestroyed ==
  \A h \in Handlers : service[h] # NoService => ops[h] # {}
=============================================================================
