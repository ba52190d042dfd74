----------------------------- MODULE NodeConnect -----------------------------
(***************************************************************************)
(* How a channel to a node gets connected: NodeResolver                    *)
(* (common/grpc/resolver.cc) reserves a socket and signals the node;       *)
(* the result carries the socket to HolePunchEventEngine::Connect          *)
(* (common/grpc/engine.cc), which hands it to a thread of its own.         *)
(*                                                                         *)
(* The resolver's calls run one at a time in gRPC's work serializer; the   *)
(* answer to the signalling RPC comes from another thread and is queued    *)
(* there.  Connect, CancelConnect and the connecting threads run at once.  *)
(* A socket is an identity; what happens to it is who owns it.             *)
(*                                                                         *)
(* The result's params are never filled in (resolver.cc:118-120), and      *)
(* tcpv4_hole_punch throws on params without an address: in this program   *)
(* every connection that is not cancelled first ends as unavailable.       *)
(***************************************************************************)
EXTENDS Integers, FiniteSets

CONSTANTS
  Fds,          \* sockets that can be open at the same time (bound)
  Conns,        \* connection attempts (bound)
  MaxStarts,    \* resolutions of one resolver (bound)
  NoFd

ASSUME FdsAssumption    == NoFd \notin Fds
ASSUME StartsAssumption == MaxStarts \in Nat

Results == 1..MaxStarts

VARIABLES
  resolving,    \* resolving_
  port,         \* current_port_reservation_
  call,         \* the signalling RPC: "none" | "flying" | "ok" | "failed"
  down,         \* the channel has shut the resolver down
  asked,        \* history: resolutions begun
  unported,     \* history: those among them that got no socket
  errors,       \* history: errors reported to the channel
  arg,          \* addresses reported: result -> [st, fd], fd is reserved_fd
  conn,         \* attempt -> [st, fd, flag, answers]
  tracker,      \* active_flags: attempts that CancelConnect finds
  canceller     \* attempt -> "no" | "found" | "true" | "false": CancelConnect

resolverVars == <<resolving, port, call, down, asked, unported, errors>>
engineVars   == <<conn, tracker, canceller>>
vars         == <<resolverVars, arg, engineVars>>

Init ==
  /\ resolving = FALSE /\ port = NoFd /\ call = "none" /\ down = FALSE
  /\ asked = 0 /\ unported = 0 /\ errors = 0
  /\ arg       = [k \in Results |-> [st |-> "none", fd |-> NoFd]]
  /\ conn      = [c \in Conns |-> [st |-> "unused", fd |-> NoFd, flag |-> FALSE,
                                   answers |-> 0]]
  /\ tracker   = {}
  /\ canceller = [c \in Conns |-> "no"]

(* Who holds a socket: the reservation, a result, a connecting thread. *)
Holders(f) ==
  {<<"port", 0>> : x \in {y \in {port} : y = f}}
    \cup {<<"arg", k>> : k \in {j \in Results : arg[j].fd = f}}
    \cup {<<"conn", c>> : c \in {d \in Conns : conn[d].fd = f}}

Closed == {f \in Fds : Holders(f) = {}}

-----------------------------------------------------------------------------
(* NodeResolver                                                            *)

(* StartLocked, RequestReresolutionLocked, and StartHolePunching, which    *)
(* finds the socket reserved.  A start while resolving does nothing.       *)
StartTwice ==                   \* faulty: no `if (resolving_) return`
  /\ ~down /\ asked < MaxStarts
  /\ asked' = asked + 1
  /\ resolving' = TRUE /\ call' = "flying"
  /\ \E f \in Closed : port' = f
  /\ UNCHANGED <<down, unported, errors, arg, engineVars>>

Start ==
  /\ ~down /\ asked < MaxStarts
  /\ ~resolving
  /\ asked' = asked + 1
  /\ \/ /\ resolving' = TRUE /\ call' = "flying"
        /\ \E f \in Closed : port' = f
        /\ UNCHANGED unported
     \/ /\ unported' = unported + 1         \* no port of the range is free
        /\ UNCHANGED <<resolving, port, call>>
  /\ UNCHANGED <<down, errors, arg, engineVars>>

(* The RPC completes on a gRPC thread, which queues OnHolePunchingDone. *)
CallDone ==
  /\ call = "flying"
  /\ \E status \in {"ok", "failed"} : call' = status
  /\ UNCHANGED <<resolving, port, down, asked, unported, errors, arg, engineVars>>

SignallingFailed ==
  /\ call = "failed" /\ call' = "none"
  /\ resolving' = FALSE /\ port' = NoFd
  /\ errors' = errors + 1
  /\ UNCHANGED <<down, asked, unported, arg, engineVars>>

(* FinishResolution: the socket moves from the reservation to the result.  *)
(* The newest result takes the first free place.                           *)
NextResult == CHOOSE k \in Results :
                arg[k].st = "none" /\ \A j \in 1..(k - 1) : arg[j].st # "none"

FinishKeepsPort ==              \* faulty: the reservation is copied, not moved
  /\ call = "ok" /\ call' = "none"
  /\ resolving' = FALSE
  /\ arg' = [arg EXCEPT ![NextResult] = [st |-> "held", fd |-> port]]
  /\ UNCHANGED <<port, down, asked, unported, errors, engineVars>>

FinishResolution ==
  /\ call = "ok" /\ call' = "none"
  /\ resolving' = FALSE /\ port' = NoFd
  /\ arg' = [arg EXCEPT ![NextResult] = [st |-> "held", fd |-> port]]
  /\ UNCHANGED <<down, asked, unported, errors, engineVars>>

(* ShutdownLocked: the RPC, if any, is asked to stop and still completes. *)
ShutdownDropsPort ==            \* faulty: gives the reservation up at once
  /\ ~down /\ down' = TRUE
  /\ resolving' = FALSE /\ port' = NoFd
  /\ UNCHANGED <<call, asked, unported, errors, arg, engineVars>>

Shutdown ==
  /\ ~down /\ down' = TRUE
  /\ resolving' = FALSE
  /\ UNCHANGED <<port, call, asked, unported, errors, arg, engineVars>>

(* The channel drops the last reference to a result, closing its socket. *)
DropResult(k) ==
  /\ arg[k].st = "held"
  /\ arg' = [arg EXCEPT ![k] = [st |-> "dropped", fd |-> NoFd]]
  /\ UNCHANGED <<resolverVars, engineVars>>

-----------------------------------------------------------------------------
(* HolePunchEventEngine                                                    *)

(* on_connect is called; a socket the attempt still has is closed. *)
Answer(c, st) ==
  [conn EXCEPT ![c] = [st |-> st, fd |-> NoFd, flag |-> @.flag, answers |-> @.answers + 1]]

(* Connect to a result that the channel holds. *)
Connect(c, k) ==
  /\ conn[c].st = "unused" /\ arg[k].st = "held"
  /\ IF arg[k].fd = NoFd
     THEN /\ conn' = Answer(c, "refused")   \* consumed by a previous attempt
          /\ UNCHANGED <<arg, tracker>>
     ELSE /\ conn' = [conn EXCEPT ![c] = [st |-> "started", fd |-> arg[k].fd,
                                            flag |-> FALSE, answers |-> 0]]
          /\ arg' = [arg EXCEPT ![k].fd = NoFd]
          /\ tracker' = tracker \cup {c}
  /\ UNCHANGED <<resolverVars, canceller>>

(* The thread, before the punch *)
CheckNoReturn(c) ==             \* faulty: reports the cancellation and goes on
  /\ conn[c].st = "started"
  /\ conn' = [conn EXCEPT ![c].st = "punching",
                          ![c].answers = IF conn[c].flag THEN @ + 1 ELSE @]
  /\ UNCHANGED <<resolverVars, arg, tracker, canceller>>

Check(c) ==
  /\ conn[c].st = "started"
  /\ conn' = IF conn[c].flag THEN Answer(c, "answered")
             ELSE [conn EXCEPT ![c].st = "punching"]
  /\ UNCHANGED <<resolverVars, arg, tracker, canceller>>

(* tcpv4_hole_punch throws; the handler reports unavailable, whether the   *)
(* attempt was cancelled meanwhile or not.                                 *)
Punch(c) ==
  /\ conn[c].st = "punching"
  /\ conn' = Answer(c, "answered")
  /\ UNCHANGED <<resolverVars, arg, tracker, canceller>>

(* CleanupGuard, when the thread's function has returned *)
CleanupKeepsEntry(c) ==         \* faulty: no CleanupGuard
  /\ conn[c].st = "answered"
  /\ conn' = [conn EXCEPT ![c].st = "done"]
  /\ UNCHANGED <<resolverVars, arg, tracker, canceller>>

Cleanup(c) ==
  /\ conn[c].st = "answered"
  /\ conn' = [conn EXCEPT ![c].st = "done"]
  /\ tracker' = tracker \ {c}
  /\ UNCHANGED <<resolverVars, arg, canceller>>

(* CancelConnect looks its attempt up under the mutex and sets the flag    *)
(* after it.  A refused attempt has no handle to cancel.                   *)
Cancel(c) ==
  /\ conn[c].st \notin {"unused", "refused"} /\ canceller[c] = "no"
  /\ canceller' = [canceller EXCEPT ![c] = IF c \in tracker THEN "found" ELSE "false"]
  /\ UNCHANGED <<resolverVars, arg, conn, tracker>>

SetFlag(c) ==
  /\ canceller[c] = "found"
  /\ canceller' = [canceller EXCEPT ![c] = "true"]
  /\ conn' = [conn EXCEPT ![c].flag = TRUE]
  /\ UNCHANGED <<resolverVars, arg, tracker>>

Next ==
  \/ Start \/ CallDone \/ SignallingFailed \/ FinishResolution \/ Shutdown
  \/ \E k \in Results : DropResult(k) \/ \E c \in Conns : Connect(c, k)
  \/ \E c \in Conns : Check(c) \/ Punch(c) \/ Cleanup(c) \/ Cancel(c) \/ SetFlag(c)

Spec == Init /\ [][Next]_vars

-----------------------------------------------------------------------------
(* Properties.                                                             *)

(* The resolver's fields, the results and the attempts; a socket goes with *)
(* the states in which it is needed. *)
ResolverOK ==
  /\ resolving \in BOOLEAN /\ down \in BOOLEAN
  /\ port \in Fds \cup {NoFd}
  /\ call \in {"none", "flying", "ok", "failed"}
  /\ asked \in Nat /\ unported \in Nat /\ errors \in Nat

Addresses == [st : {"none", "held", "dropped"}, fd : Fds \cup {NoFd}]

ResultsOK ==
  /\ arg \in [Results -> Addresses]
  /\ \A k \in Results : arg[k].fd # NoFd => arg[k].st = "held"

Attempts == [st : {"unused", "started", "punching", "answered", "done", "refused"},
             fd : Fds \cup {NoFd}, flag : BOOLEAN, answers : Nat]

EngineOK ==
  /\ conn \in [Conns -> Attempts]
  /\ \A c \in Conns : conn[c].fd # NoFd <=> conn[c].st \in {"started", "punching"}
  /\ tracker \subseteq Conns
  /\ canceller \in [Conns -> {"no", "found", "true", "false"}]

TypeOK == ResolverOK /\ ResultsOK /\ EngineOK

(* Every reserved socket has one owner at a time on its way from the       *)
(* resolver through the result to a connecting thread: it is not closed    *)
(* under one of them by another.                                           *)
OneOwner == \A f \in Fds : Cardinality(Holders(f)) <= 1

(* FinishResolution dereferences the reservation: a successful answer,     *)
(* however late and even after a shutdown, finds the socket that was       *)
(* reserved for it.                                                        *)
AnswerFindsSocket == call = "ok" => port # NoFd

(* Until the channel shuts the resolver down, every resolution begun with  *)
(* a socket is in progress or was answered by exactly one result, an       *)
(* address or an error.                                                    *)
Reported == Cardinality({k \in Results : arg[k].st # "none"}) + errors

ResolvedOnce ==
  ~down => asked - unported = Reported + IF resolving THEN 1 ELSE 0

(* on_connect is called exactly once per attempt, cancelled or not, and    *)
(* CancelConnect says false only for an attempt that has been answered.    *)
AnsweredOnce ==
  \A c \in Conns :
    /\ conn[c].answers =
         IF conn[c].st \in {"answered", "done", "refused"} THEN 1 ELSE 0
    /\ canceller[c] = "false" => conn[c].answers = 1

(* CleanupGuard, "No matter how this lambda exits": active_flags holds the *)
(* attempts whose thread runs.                                             *)
TrackerIsRunning ==
  tracker = {c \in Conns : conn[c].st \in {"started", "punching", "answered"}}

(* resolver.cc:167, "Handle critical failure (e.g., report Unavailable     *)
(* error to result_handler_)": a resolution that was begun is in progress  *)
(* or has been answered, also when no port could be reserved.              *)
StartAnswered ==
  ~down => asked = Reported + IF resolving THEN 1 ELSE 0
=============================================================================
