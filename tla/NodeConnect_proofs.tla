------------------------- MODULE NodeConnect_proofs -------------------------
(***************************************************************************)
(* Theorems about NodeConnect, for any sets of sockets and attempts and    *)
(* any number of resolutions.                                              *)
(***************************************************************************)
EXTENDS NodeConnect, FiniteSetTheorems, TLAPS

(* No two of the reservation, the results and the attempts refer to the    *)
(* same socket.                                                            *)
OwnerInv ==
  /\ \A k \in Results : arg[k].fd # NoFd => arg[k].fd # port
  /\ \A c \in Conns : conn[c].fd # NoFd => conn[c].fd # port
  /\ \A j, k \in Results : arg[j].fd # NoFd /\ arg[j].fd = arg[k].fd => j = k
  /\ \A c, d \in Conns : conn[c].fd # NoFd /\ conn[c].fd = conn[d].fd => c = d
  /\ \A k \in Results, c \in Conns : arg[k].fd # NoFd => arg[k].fd # conn[c].fd

(* The signalling RPC goes with the reservation, and until a shutdown with *)
(* resolving_.                                                             *)
CallInv ==
  /\ call # "none" => port # NoFd
  /\ ~down => (resolving <=> call # "none")

(* Results are filled in order, and with the errors and the RPC in flight  *)
(* they make up the resolutions that got a socket, also after a shutdown.  *)
CountInv ==
  /\ asked <= MaxStarts
  /\ \E m \in 0..MaxStarts :
       /\ \A k \in Results : arg[k].st # "none" <=> k <= m
       /\ m + errors + (IF call = "none" THEN 0 ELSE 1) = asked - unported

IInv == TypeOK /\ OwnerInv /\ CallInv /\ CountInv /\ AnsweredOnce /\ TrackerIsRunning

-----------------------------------------------------------------------------
LEMMA InitInv == Init => IInv
<1> SUFFICES ASSUME Init PROVE IInv
  OBVIOUS
<1>1. ResolverOK
  BY DEF Init, ResolverOK
<1>2. ResultsOK
  BY DEF Init, ResultsOK, Addresses
<1>3. EngineOK
  BY DEF Init, EngineOK, Attempts
<1>4. OwnerInv /\ CallInv
  BY DEF Init, OwnerInv, CallInv
<1>5. AnsweredOnce /\ TrackerIsRunning
  BY DEF Init, AnsweredOnce, TrackerIsRunning
<1>6. CountInv
  <2>1. 0 \in 0..MaxStarts /\ \A k \in Results : arg[k].st # "none" <=> k <= 0
    BY StartsAssumption DEF Init, Results
  <2> QED
    BY <2>1, StartsAssumption DEF Init, CountInv
<1> QED
  BY <1>1, <1>2, <1>3, <1>4, <1>5, <1>6 DEF IInv, TypeOK

(* A closed socket is in nobody's hands. *)
LEMMA ClosedIsFree ==
  ASSUME NEW f \in Closed
  PROVE  /\ f \in Fds /\ f # port
         /\ \A k \in Results : arg[k].fd # f
         /\ \A c \in Conns : conn[c].fd # f
  BY DEF Closed, Holders

(* The resolver's steps do not touch the attempts, and the attempts' steps *)
(* do not touch the resolver.                                              *)
LEMMA EngineRests ==
  ASSUME IInv, UNCHANGED engineVars
  PROVE  EngineOK' /\ AnsweredOnce' /\ TrackerIsRunning'
<1>1. conn' = conn /\ tracker' = tracker /\ canceller' = canceller
  BY DEF engineVars
<1>2. EngineOK'
  BY <1>1 DEF IInv, TypeOK, EngineOK
<1>3. AnsweredOnce'
  BY <1>1 DEF IInv, AnsweredOnce
<1>4. TrackerIsRunning'
  BY <1>1 DEF IInv, TrackerIsRunning
<1> QED
  BY <1>2, <1>3, <1>4

LEMMA ResolverRests ==
  ASSUME IInv, UNCHANGED resolverVars
  PROVE  ResolverOK' /\ CallInv'
  BY DEF IInv, TypeOK, ResolverOK, CallInv, resolverVars

(* As long as no place is filled and no resolution ends, the count stands. *)
LEMMA CountRests ==
  ASSUME IInv, UNCHANGED <<asked, unported, errors>>, call = "none" <=> call' = "none",
         \A k \in Results : arg'[k].st # "none" <=> arg[k].st # "none"
  PROVE  CountInv'
  BY DEF IInv, CountInv

LEMMA StartStep ==
  ASSUME IInv, Start
  PROVE  IInv'
<1>1. UNCHANGED engineVars /\ UNCHANGED arg /\ UNCHANGED down /\ UNCHANGED errors
  BY DEF Start
<1>2. ResultsOK'
  BY <1>1 DEF IInv, TypeOK, ResultsOK
<1>3. PICK m \in 0..MaxStarts :
        /\ \A k \in Results : arg[k].st # "none" <=> k <= m
        /\ m + errors + (IF call = "none" THEN 0 ELSE 1) = asked - unported
  BY DEF IInv, CountInv
<1>4. asked' = asked + 1 /\ asked' \in Nat /\ asked' <= MaxStarts
  BY StartsAssumption DEF IInv, TypeOK, ResolverOK, Start
<1>5. CASE UNCHANGED <<resolving, port, call>> /\ unported' = unported + 1
  <2>1. ResolverOK' /\ CallInv'
    BY <1>1, <1>4, <1>5 DEF IInv, TypeOK, ResolverOK, CallInv
  <2>2. OwnerInv'
    BY <1>1, <1>5 DEF IInv, OwnerInv, engineVars
  <2>3. CountInv'
    <3>1. asked' - unported' = asked - unported
      BY <1>4, <1>5 DEF IInv, TypeOK, ResolverOK
    <3> QED
      BY <1>1, <1>3, <1>4, <1>5, <3>1 DEF CountInv
  <2> QED
    BY <1>1, <1>2, <2>1, <2>2, <2>3, EngineRests DEF IInv, TypeOK
<1>6. ASSUME NEW f \in Closed, resolving' = TRUE, call' = "flying", port' = f,
             UNCHANGED unported
      PROVE  IInv'
  <2>1. ResolverOK' /\ CallInv'
    BY <1>1, <1>4, <1>6, ClosedIsFree, FdsAssumption DEF IInv, TypeOK, ResolverOK, CallInv
  <2>2. OwnerInv'
    BY <1>1, <1>6, ClosedIsFree DEF IInv, OwnerInv, engineVars
  <2>3. CountInv'
    <3>1. call = "none"
      BY DEF IInv, CallInv, Start
    <3>2. m + errors' + 1 = asked' - unported'
      BY <1>1, <1>3, <1>4, <1>6, <3>1, StartsAssumption DEF IInv, TypeOK, ResolverOK
    <3> QED
      BY <1>1, <1>3, <1>4, <1>6, <3>2 DEF CountInv
  <2> QED
    BY <1>1, <1>2, <2>1, <2>2, <2>3, EngineRests DEF IInv, TypeOK
<1> QED
  BY <1>5, <1>6 DEF Start

LEMMA CallDoneStep ==
  ASSUME IInv, CallDone
  PROVE  IInv'
<1> USE DEF CallDone
<1>1. UNCHANGED engineVars /\ UNCHANGED arg
  OBVIOUS
<1>2. ResolverOK' /\ CallInv'
  <2>1. PICK status \in {"ok", "failed"} : call' = status
    OBVIOUS
  <2> QED
    BY <2>1 DEF IInv, TypeOK, ResolverOK, CallInv
<1>3. ResultsOK'
  BY <1>1 DEF IInv, TypeOK, ResultsOK
<1>4. OwnerInv'
  BY <1>1 DEF IInv, OwnerInv, engineVars
<1>5. CountInv'
  BY <1>1, CountRests
<1> QED
  BY <1>1, <1>2, <1>3, <1>4, <1>5, EngineRests DEF IInv, TypeOK

LEMMA SignallingFailedStep ==
  ASSUME IInv, SignallingFailed
  PROVE  IInv'
<1> USE DEF SignallingFailed
<1>1. UNCHANGED engineVars /\ UNCHANGED arg
  OBVIOUS
<1>2. ResolverOK' /\ CallInv'
  <2>1. errors \in Nat /\ errors' \in Nat
    BY DEF IInv, TypeOK, ResolverOK
  <2>2. ResolverOK'
    BY <2>1 DEF IInv, TypeOK, ResolverOK
  <2>3. CallInv'
    BY DEF IInv, CallInv
  <2> QED
    BY <2>2, <2>3
<1>3. ResultsOK'
  BY <1>1 DEF IInv, TypeOK, ResultsOK
<1>4. OwnerInv'
  BY <1>1 DEF IInv, OwnerInv, engineVars
<1>5. CountInv'
  <2>1. PICK m \in 0..MaxStarts :
          /\ \A k \in Results : arg[k].st # "none" <=> k <= m
          /\ m + errors + 1 = asked - unported
    BY DEF IInv, CountInv
  <2>2. m + errors' + 0 = asked' - unported'
    BY <2>1, StartsAssumption DEF IInv, TypeOK, ResolverOK
  <2> QED
    BY <1>1, <2>1, <2>2 DEF IInv, CountInv
<1> QED
  BY <1>1, <1>2, <1>3, <1>4, <1>5, EngineRests DEF IInv, TypeOK

(* The new result takes the place after the m that are filled, and there   *)
(* is one: the resolution that is finishing is not among them.             *)
LEMMA FinishStep ==
  ASSUME IInv, FinishResolution
  PROVE  IInv'
<1> USE DEF FinishResolution
<1>1. PICK m \in 0..MaxStarts :
        /\ \A k \in Results : arg[k].st # "none" <=> k <= m
        /\ m + errors + 1 = asked - unported
  BY DEF IInv, CountInv
<1>2. m + 1 \in Results
  BY <1>1, StartsAssumption DEF IInv, TypeOK, ResolverOK, CountInv, Results
<1>3. NextResult = m + 1
  <2>1. arg[m + 1].st = "none" /\ \A j \in 1..m : arg[j].st # "none"
    BY <1>1, <1>2, StartsAssumption DEF Results
  <2>2. \A k \in Results :
          arg[k].st = "none" /\ (\A j \in 1..(k - 1) : arg[j].st # "none") => k = m + 1
    BY <1>1, <1>2, <2>1, StartsAssumption DEF Results
  <2> QED
    BY <1>2, <2>1, <2>2 DEF NextResult
<1>4. arg' = [arg EXCEPT ![m + 1] = [st |-> "held", fd |-> port]] /\ UNCHANGED engineVars
  BY <1>3
<1>5. port \in Fds
  BY DEF IInv, TypeOK, ResolverOK, CallInv
<1>6. /\ arg' \in [Results -> Addresses]
      /\ \A k \in Results : /\ k # m + 1 => arg'[k] = arg[k]
                            /\ k = m + 1 => arg'[k] = [st |-> "held", fd |-> port]
  <2>1. [st |-> "held", fd |-> port] \in Addresses
    BY <1>5 DEF Addresses
  <2>2. arg \in [Results -> Addresses]
    BY DEF IInv, TypeOK, ResultsOK
  <2> QED
    BY <1>2, <1>4, <2>1, <2>2
<1>7. ResultsOK'
  BY <1>6 DEF IInv, TypeOK, ResultsOK
<1>8. ResolverOK' /\ CallInv'
  BY DEF IInv, TypeOK, ResolverOK, CallInv
<1>9. OwnerInv'
  BY <1>2, <1>4, <1>5, <1>6, FdsAssumption DEF IInv, OwnerInv, engineVars
<1>10. CountInv'
  <2>1. \A k \in Results : arg'[k].st # "none" <=> k <= m + 1
    BY <1>1, <1>2, <1>6, StartsAssumption DEF Results
  <2>2. m + 1 \in 0..MaxStarts /\ (m + 1) + errors' + 0 = asked' - unported'
    BY <1>1, <1>2, StartsAssumption DEF IInv, TypeOK, ResolverOK, Results
  <2> QED
    BY <2>1, <2>2 DEF IInv, CountInv
<1> QED
  BY <1>4, <1>7, <1>8, <1>9, <1>10, EngineRests DEF IInv, TypeOK

LEMMA ShutdownStep ==
  ASSUME IInv, Shutdown
  PROVE  IInv'
<1> USE DEF Shutdown
<1>1. UNCHANGED engineVars /\ UNCHANGED arg
  OBVIOUS
<1>2. ResolverOK' /\ CallInv'
  BY DEF IInv, TypeOK, ResolverOK, CallInv
<1>3. ResultsOK'
  BY <1>1 DEF IInv, TypeOK, ResultsOK
<1>4. OwnerInv'
  BY <1>1 DEF IInv, OwnerInv, engineVars
<1>5. CountInv'
  BY <1>1, CountRests
<1> QED
  BY <1>1, <1>2, <1>3, <1>4, <1>5, EngineRests DEF IInv, TypeOK

LEMMA DropResultStep ==
  ASSUME IInv, NEW k \in Results, DropResult(k)
  PROVE  IInv'
<1> USE DEF DropResult
<1>1. /\ arg' \in [Results -> Addresses]
      /\ \A j \in Results : /\ j # k => arg'[j] = arg[j]
                            /\ j = k => arg'[j] = [st |-> "dropped", fd |-> NoFd]
  BY DEF IInv, TypeOK, ResultsOK, Addresses
<1>2. ResultsOK'
  BY <1>1 DEF IInv, TypeOK, ResultsOK
<1>3. OwnerInv'
  BY <1>1 DEF IInv, OwnerInv, resolverVars, engineVars
<1>4. CountInv'
  BY <1>1, CountRests DEF resolverVars
<1> QED
  BY <1>2, <1>3, <1>4, ResolverRests, EngineRests DEF IInv, TypeOK

(* What Answer does to the attempts. *)
LEMMA AnswerLemma ==
  ASSUME EngineOK, NEW c \in Conns, NEW st \in {"answered", "refused"},
         conn' = Answer(c, st)
  PROVE  /\ conn' \in [Conns -> Attempts]
         /\ conn'[c].st = st /\ conn'[c].fd = NoFd
         /\ conn'[c].answers = conn[c].answers + 1
         /\ \A d \in Conns : d # c => conn'[d] = conn[d]
  BY DEF Answer, EngineOK, Attempts

(* A step of one attempt that leaves sockets where they are, or closes the *)
(* attempt's own, keeps every socket with one owner.                       *)
LEMMA AttemptKeepsOwners ==
  ASSUME IInv, UNCHANGED resolverVars, UNCHANGED arg, NEW c \in Conns,
         conn'[c].fd \in {conn[c].fd, NoFd},
         \A d \in Conns : d # c => conn'[d] = conn[d]
  PROVE  ResolverOK' /\ ResultsOK' /\ OwnerInv' /\ CallInv' /\ CountInv'
<1>1. ResolverOK' /\ CallInv'
  BY ResolverRests
<1>2. ResultsOK'
  BY DEF IInv, TypeOK, ResultsOK
<1>3. OwnerInv'
  BY DEF IInv, OwnerInv, resolverVars
<1>4. CountInv'
  BY CountRests DEF resolverVars
<1> QED
  BY <1>1, <1>2, <1>3, <1>4

LEMMA ConnectStep ==
  ASSUME IInv, NEW k \in Results, NEW c \in Conns, Connect(c, k)
  PROVE  IInv'
<1>1. conn[c].st = "unused" /\ UNCHANGED resolverVars /\ UNCHANGED canceller
  BY DEF Connect
<1>2. EngineOK /\ arg \in [Results -> Addresses]
  BY DEF IInv, TypeOK, ResultsOK
<1>3. CASE arg[k].fd = NoFd
  <2>1. conn' = Answer(c, "refused") /\ UNCHANGED <<arg, tracker>>
    BY <1>3 DEF Connect
  <2>2. /\ conn' \in [Conns -> Attempts]
        /\ conn'[c].st = "refused" /\ conn'[c].fd = NoFd
        /\ conn'[c].answers = conn[c].answers + 1
        /\ \A d \in Conns : d # c => conn'[d] = conn[d]
    BY <1>2, <2>1, AnswerLemma
  <2>3. ResolverOK' /\ ResultsOK' /\ OwnerInv' /\ CallInv' /\ CountInv'
    BY <1>1, <2>1, <2>2, AttemptKeepsOwners
  <2>4. EngineOK'
    BY <1>1, <1>2, <2>1, <2>2 DEF EngineOK
  <2>5. AnsweredOnce'
    BY <1>1, <2>2 DEF IInv, AnsweredOnce
  <2>6. TrackerIsRunning'
    BY <1>1, <2>1, <2>2 DEF IInv, TrackerIsRunning
  <2> QED
    BY <2>3, <2>4, <2>5, <2>6 DEF IInv, TypeOK
<1>4. CASE arg[k].fd # NoFd
  <2>1. /\ conn' = [conn EXCEPT ![c] = [st |-> "started", fd |-> arg[k].fd,
                                        flag |-> FALSE, answers |-> 0]]
        /\ arg' = [arg EXCEPT ![k].fd = NoFd]
        /\ tracker' = tracker \cup {c}
    BY <1>4 DEF Connect
  <2>2. /\ conn' \in [Conns -> Attempts]
        /\ conn'[c] = [st |-> "started", fd |-> arg[k].fd, flag |-> FALSE, answers |-> 0]
        /\ \A d \in Conns : d # c => conn'[d] = conn[d]
    BY <1>2, <2>1 DEF EngineOK, Attempts, Addresses
  <2>3. /\ arg' \in [Results -> Addresses]
        /\ arg'[k].fd = NoFd /\ arg'[k].st = arg[k].st
        /\ \A j \in Results : j # k => arg'[j] = arg[j]
    BY <1>2, <2>1 DEF Addresses
  <2>4. ResolverOK' /\ CallInv'
    BY <1>1, ResolverRests
  <2>5. ResultsOK'
    BY <2>3 DEF IInv, TypeOK, ResultsOK
  <2>6. EngineOK'
    BY <1>1, <1>2, <1>4, <2>1, <2>2 DEF EngineOK
  <2>7. OwnerInv'
    BY <1>1, <1>4, <2>2, <2>3 DEF IInv, OwnerInv, resolverVars
  <2>8. CountInv'
    BY <1>1, <2>3, CountRests DEF resolverVars
  <2>9. AnsweredOnce'
    BY <1>1, <1>2, <2>2 DEF IInv, AnsweredOnce, EngineOK
  <2>10. TrackerIsRunning'
    BY <1>1, <2>1, <2>2 DEF IInv, TrackerIsRunning
  <2> QED
    BY <2>4, <2>5, <2>6, <2>7, <2>8, <2>9, <2>10 DEF IInv, TypeOK
<1> QED
  BY <1>3, <1>4

(* An attempt that is running and answers is answered once. *)
LEMMA AnsweringStep ==
  ASSUME IInv, NEW c \in Conns, conn[c].st \in {"started", "punching"},
         conn' = Answer(c, "answered"),
         UNCHANGED resolverVars, UNCHANGED <<arg, tracker, canceller>>
  PROVE  IInv'
<1>1. /\ conn' \in [Conns -> Attempts]
      /\ conn'[c].st = "answered" /\ conn'[c].fd = NoFd
      /\ conn'[c].answers = conn[c].answers + 1
      /\ \A d \in Conns : d # c => conn'[d] = conn[d]
  BY AnswerLemma DEF IInv, TypeOK
<1>2. ResolverOK' /\ ResultsOK' /\ OwnerInv' /\ CallInv' /\ CountInv'
  BY <1>1, AttemptKeepsOwners
<1>3. EngineOK'
  BY <1>1 DEF IInv, TypeOK, EngineOK
<1>4. AnsweredOnce'
  BY <1>1 DEF IInv, AnsweredOnce
<1>5. TrackerIsRunning'
  BY <1>1 DEF IInv, TrackerIsRunning
<1> QED
  BY <1>2, <1>3, <1>4, <1>5 DEF IInv, TypeOK

LEMMA CheckStep ==
  ASSUME IInv, NEW c \in Conns, Check(c)
  PROVE  IInv'
<1>1. conn[c].st = "started" /\ UNCHANGED resolverVars /\ UNCHANGED <<arg, tracker, canceller>>
  BY DEF Check
<1>2. CASE conn' = Answer(c, "answered")
  BY <1>1, <1>2, AnsweringStep
<1>3. CASE conn' = [conn EXCEPT ![c].st = "punching"]
  <2>1. /\ conn' \in [Conns -> Attempts]
        /\ conn'[c].st = "punching" /\ conn'[c].fd = conn[c].fd
        /\ conn'[c].answers = conn[c].answers
        /\ \A d \in Conns : d # c => conn'[d] = conn[d]
    BY <1>3 DEF IInv, TypeOK, EngineOK, Attempts
  <2>2. ResolverOK' /\ ResultsOK' /\ OwnerInv' /\ CallInv' /\ CountInv'
    BY <1>1, <2>1, AttemptKeepsOwners
  <2>3. EngineOK'
    BY <1>1, <2>1 DEF IInv, TypeOK, EngineOK
  <2>4. AnsweredOnce'
    BY <1>1, <2>1 DEF IInv, AnsweredOnce
  <2>5. TrackerIsRunning'
    BY <1>1, <2>1 DEF IInv, TrackerIsRunning
  <2> QED
    BY <2>2, <2>3, <2>4, <2>5 DEF IInv, TypeOK
<1> QED
  BY <1>2, <1>3 DEF Check

LEMMA PunchStep ==
  ASSUME IInv, NEW c \in Conns, Punch(c)
  PROVE  IInv'
  BY AnsweringStep DEF Punch

LEMMA CleanupStep ==
  ASSUME IInv, NEW c \in Conns, Cleanup(c)
  PROVE  IInv'
<1>1. /\ conn[c].st = "answered" /\ conn' = [conn EXCEPT ![c].st = "done"]
      /\ tracker' = tracker \ {c}
      /\ UNCHANGED resolverVars /\ UNCHANGED arg /\ UNCHANGED canceller
  BY DEF Cleanup
<1>2. /\ conn' \in [Conns -> Attempts]
      /\ conn'[c].st = "done" /\ conn'[c].fd = conn[c].fd
      /\ conn'[c].answers = conn[c].answers
      /\ \A d \in Conns : d # c => conn'[d] = conn[d]
  BY <1>1 DEF IInv, TypeOK, EngineOK, Attempts
<1>3. ResolverOK' /\ ResultsOK' /\ OwnerInv' /\ CallInv' /\ CountInv'
  BY <1>1, <1>2, AttemptKeepsOwners
<1>4. EngineOK'
  BY <1>1, <1>2 DEF IInv, TypeOK, EngineOK
<1>5. AnsweredOnce'
  BY <1>1, <1>2 DEF IInv, AnsweredOnce
<1>6. TrackerIsRunning'
  BY <1>1, <1>2 DEF IInv, TrackerIsRunning
<1> QED
  BY <1>3, <1>4, <1>5, <1>6 DEF IInv, TypeOK

(* An attempt that the tracker does not hold, and that was not refused,    *)
(* has been answered.                                                      *)
LEMMA CancelStep ==
  ASSUME IInv, NEW c \in Conns, Cancel(c)
  PROVE  IInv'
<1>1. /\ conn[c].st \notin {"unused", "refused"}
      /\ canceller' = [canceller EXCEPT ![c] = IF c \in tracker THEN "found" ELSE "false"]
      /\ UNCHANGED resolverVars /\ UNCHANGED <<arg, conn, tracker>>
  BY DEF Cancel
<1>2. ResolverOK' /\ ResultsOK' /\ OwnerInv' /\ CallInv' /\ CountInv'
  BY <1>1, AttemptKeepsOwners
<1>3. EngineOK'
  BY <1>1 DEF IInv, TypeOK, EngineOK
<1>4. AnsweredOnce'
  <2>1. c \notin tracker => conn[c].answers = 1
    BY <1>1 DEF IInv, TypeOK, EngineOK, Attempts, AnsweredOnce, TrackerIsRunning
  <2> QED
    BY <1>1, <2>1 DEF IInv, TypeOK, EngineOK, AnsweredOnce
<1>5. TrackerIsRunning'
  BY <1>1 DEF IInv, TrackerIsRunning
<1> QED
  BY <1>2, <1>3, <1>4, <1>5 DEF IInv, TypeOK

LEMMA SetFlagStep ==
  ASSUME IInv, NEW c \in Conns, SetFlag(c)
  PROVE  IInv'
<1>1. /\ canceller[c] = "found" /\ canceller' = [canceller EXCEPT ![c] = "true"]
      /\ conn' = [conn EXCEPT ![c].flag = TRUE]
      /\ UNCHANGED resolverVars /\ UNCHANGED <<arg, tracker>>
  BY DEF SetFlag
<1>2. /\ conn' \in [Conns -> Attempts]
      /\ conn'[c].st = conn[c].st /\ conn'[c].fd = conn[c].fd
      /\ conn'[c].answers = conn[c].answers
      /\ \A d \in Conns : d # c => conn'[d] = conn[d]
  BY <1>1 DEF IInv, TypeOK, EngineOK, Attempts
<1>3. ResolverOK' /\ ResultsOK' /\ OwnerInv' /\ CallInv' /\ CountInv'
  BY <1>1, <1>2, AttemptKeepsOwners
<1>4. EngineOK'
  BY <1>1, <1>2 DEF IInv, TypeOK, EngineOK
<1>5. AnsweredOnce'
  BY <1>1, <1>2 DEF IInv, TypeOK, EngineOK, AnsweredOnce
<1>6. TrackerIsRunning'
  BY <1>1, <1>2 DEF IInv, TrackerIsRunning
<1> QED
  BY <1>3, <1>4, <1>5, <1>6 DEF IInv, TypeOK

LEMMA StutterStep ==
  ASSUME IInv, UNCHANGED vars
  PROVE  IInv'
<1>1. UNCHANGED resolverVars /\ UNCHANGED arg /\ UNCHANGED engineVars
  BY DEF vars
<1>2. ResultsOK' /\ OwnerInv'
  BY <1>1 DEF IInv, TypeOK, ResultsOK, OwnerInv, resolverVars, engineVars
<1>3. CountInv'
  BY <1>1, CountRests DEF resolverVars
<1> QED
  BY <1>1, <1>2, <1>3, ResolverRests, EngineRests DEF IInv, TypeOK

(* The invariant that carries the theorems below, and that holds of        *)
(* NodeResolver and HolePunchEventEngine::Connect together.                *)
THEOREM Invariance == Spec => []IInv
<1>1. IInv /\ [Next]_vars => IInv'
  <2> SUFFICES ASSUME IInv, [Next]_vars PROVE IInv'
    OBVIOUS
  <2>1. CASE Start
    BY <2>1, StartStep
  <2>2. CASE CallDone
    BY <2>2, CallDoneStep
  <2>3. CASE SignallingFailed
    BY <2>3, SignallingFailedStep
  <2>4. CASE FinishResolution
    BY <2>4, FinishStep
  <2>5. CASE Shutdown
    BY <2>5, ShutdownStep
  <2>6. ASSUME NEW k \in Results, DropResult(k) PROVE IInv'
    BY <2>6, DropResultStep
  <2>7. ASSUME NEW k \in Results, NEW c \in Conns, Connect(c, k) PROVE IInv'
    BY <2>7, ConnectStep
  <2>8. ASSUME NEW c \in Conns, Check(c) \/ Punch(c) \/ Cleanup(c) PROVE IInv'
    BY <2>8, CheckStep, PunchStep, CleanupStep
  <2>9. ASSUME NEW c \in Conns, Cancel(c) \/ SetFlag(c) PROVE IInv'
    BY <2>9, CancelStep, SetFlagStep
  <2>10. CASE UNCHANGED vars
    BY <2>10, StutterStep
  <2> QED
    BY <2>1, <2>2, <2>3, <2>4, <2>5, <2>6, <2>7, <2>8, <2>9, <2>10 DEF Next
<1> QED
  BY InitInv, <1>1, PTL DEF Spec

(* A set whose elements are all equal has at most one. *)
LEMMA AtMostOne ==
  ASSUME NEW S, \A x, y \in S : x = y
  PROVE  Cardinality(S) <= 1
<1>1. CASE S = {}
  BY <1>1, FS_EmptySet
<1>2. ASSUME NEW x \in S PROVE Cardinality(S) <= 1
  <2>1. S = {x}
    OBVIOUS
  <2> QED
    BY <2>1, FS_Singleton
<1> QED
  BY <1>1, <1>2

(* resolver.cc and engine.cc: a reserved socket is never in two hands. *)
THEOREM Ownership == Spec => []OneOwner
<1>1. IInv => OneOwner
  <2> SUFFICES ASSUME IInv, NEW f \in Fds PROVE Cardinality(Holders(f)) <= 1
    BY DEF OneOwner
  <2> DEFINE P == {<<"port", 0>> : x \in {y \in {port} : y = f}}
             A == {<<"arg", k>> : k \in {j \in Results : arg[j].fd = f}}
             C == {<<"conn", c>> : c \in {d \in Conns : conn[d].fd = f}}
  <2>1. OwnerInv /\ f # NoFd
    BY FdsAssumption DEF IInv
  <2>2. \A x \in P, y \in P : x = y
    OBVIOUS
  <2>3. \A x \in A, y \in A : x = y
    BY <2>1 DEF OwnerInv
  <2>4. \A x \in C, y \in C : x = y
    BY <2>1 DEF OwnerInv
  <2>5. P # {} => port = f
    OBVIOUS
  <2>6. A # {} => \E k \in Results : arg[k].fd = f
    OBVIOUS
  <2>7. C # {} => \E c \in Conns : conn[c].fd = f
    OBVIOUS
  <2>8. (P = {} \/ A = {}) /\ (P = {} \/ C = {}) /\ (A = {} \/ C = {})
    BY <2>1, <2>5, <2>6, <2>7 DEF OwnerInv
  <2>9. Holders(f) = P \cup A \cup C
    BY DEF Holders
  <2>10. \A x, y \in Holders(f) : x = y
    <3> HIDE DEF P, A, C
    <3> QED
      BY <2>2, <2>3, <2>4, <2>8, <2>9
  <2> QED
    BY <2>10, AtMostOne
<1> QED
  BY Invariance, <1>1, PTL

(* resolver.cc, FinishResolution: the reservation it dereferences is there. *)
THEOREM LateAnswer == Spec => []AnswerFindsSocket
<1>1. IInv => AnswerFindsSocket
  BY DEF IInv, CallInv, AnswerFindsSocket
<1> QED
  BY Invariance, <1>1, PTL

(* resolver.cc: no resolution is lost, and none is answered twice. *)
THEOREM Resolution == Spec => []ResolvedOnce
<1>1. IInv => ResolvedOnce
  <2> SUFFICES ASSUME IInv, ~down
               PROVE  asked - unported = Reported + IF resolving THEN 1 ELSE 0
    BY DEF ResolvedOnce
  <2>1. PICK m \in 0..MaxStarts :
          /\ \A k \in Results : arg[k].st # "none" <=> k <= m
          /\ m + errors + (IF call = "none" THEN 0 ELSE 1) = asked - unported
    BY DEF IInv, CountInv
  <2>2. {k \in Results : arg[k].st # "none"} = 1..m
    BY <2>1, StartsAssumption DEF Results
  <2>3. Cardinality(1..m) = m
    BY <2>1, FS_Interval, StartsAssumption
  <2>4. Reported = m + errors
    BY <2>2, <2>3 DEF Reported
  <2>5. resolving <=> call # "none"
    BY DEF IInv, CallInv
  <2> QED
    BY <2>1, <2>4, <2>5 DEF IInv, TypeOK, ResolverOK
<1> QED
  BY Invariance, <1>1, PTL

(* engine.cc: one on_connect per attempt; CancelConnect's false is true. *)
THEOREM Answers == Spec => []AnsweredOnce
  BY Invariance, PTL DEF IInv

(* engine.cc, CleanupGuard: active_flags is the set of running attempts. *)
THEOREM Tracking == Spec => []TrackerIsRunning
  BY Invariance, PTL DEF IInv

(* The fields of the resolver, the results and the attempts have their     *)
(* types, and a socket goes with the states in which it is needed.         *)
THEOREM Types == Spec => []TypeOK
  BY Invariance, PTL DEF IInv
=============================================================================
