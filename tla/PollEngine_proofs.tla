-------------------------- MODULE PollEngine_proofs --------------------------
(***************************************************************************)
(* Theorems about PollEngine, for any descriptors, watchers and polling    *)
(* threads and any batch size.                                             *)
(***************************************************************************)
EXTENDS PollEngine, FiniteSetTheorems, TLAPS

(* Only a thread between epoll_wait and the mutex has events. *)
EventsInv == \A p \in Pollers : poller[p].pc # "got" => poller[p].events = NoEvents

(* A callback that has left the map is on one thread's list. *)
TakenInv ==
  /\ \A p \in Pollers : \A w \in poller[p].calls : watcher[w].st = "taken"
  /\ \A w \in Watchers : watcher[w].st = "taken" => \E p \in Pollers : w \in poller[p].calls
  /\ \A p, q \in Pollers : p # q => poller[p].calls \cap poller[q].calls = {}

(* A watcher that was not pushed waits for nothing, and only the watchers  *)
(* of an open descriptor are in the map.                                   *)
MapInv ==
  \A w \in Watchers :
    /\ watcher[w].st = "unused" => watcher[w].want = {}
    /\ watcher[w].st \in {"waiting", "failed"} => fdState[watcher[w].fd] = "open"

Live == {"waiting", "failed", "taken", "called"}

(* An open descriptor is armed only for what its watchers waited for since *)
(* it was opened.                                                          *)
ArmedInv ==
  \A f \in Fds : fdState[f] = "open" =>
    \A e \in armed[f] : \E x \in Watchers :
      watcher[x].fd = f /\ watcher[x].st \in Live /\ e \in watcher[x].want

(* The other watcher that LostOnlyBesideOther blames: called, or about to  *)
(* be.                                                                     *)
Beside(w, x) ==
  /\ watcher[x].fd = watcher[w].fd /\ watcher[x].want # watcher[w].want
  /\ \/ watcher[x].st \in {"taken", "called"}
     \/ watcher[x].st \in {"waiting", "failed"} /\ Fires(x)

LostInv ==
  \A w \in Watchers :
    watcher[w].st = "waiting" =>
      Watched(w) \/ watcher[w].fd \in erred \/ \E x \in Watchers : Beside(w, x)

IInv == TypeOK /\ EventsInv /\ TakenInv /\ MapInv /\ ArmedInv /\ LostInv

-----------------------------------------------------------------------------
LEMMA InitInv == Init => IInv
<1> SUFFICES ASSUME Init PROVE IInv
  OBVIOUS
<1>1. PICK f \in Fds : watcher = [w \in Watchers |-> [st |-> "unused", fd |-> f, want |-> {}]]
  BY DEF Init
<1>2. MapOK /\ KernelOK
  BY <1>1 DEF Init, MapOK, KernelOK, Stages, NoEvents
<1>3. PollersOK /\ EventsInv
  BY DEF Init, PollersOK, EventsInv, Idle, NoEvents, Threads
<1>4. TakenInv
  BY <1>1 DEF Init, TakenInv, Idle
<1>5. MapInv /\ LostInv
  BY <1>1 DEF MapInv, LostInv
<1>6. ArmedInv
  BY DEF Init, ArmedInv, NoEvents
<1> QED
  BY <1>2, <1>3, <1>4, <1>5, <1>6 DEF IInv, TypeOK

(* A step that changes neither the watchers nor the threads' lists keeps   *)
(* what is said of them.                                                   *)
LEMMA ListsRest ==
  ASSUME IInv, UNCHANGED <<watcher, poller>>
  PROVE  MapOK' /\ PollersOK' /\ EventsInv' /\ TakenInv'
<1>1. MapOK'
  BY DEF IInv, TypeOK, MapOK
<1>2. PollersOK' /\ EventsInv'
  BY DEF IInv, TypeOK, PollersOK, EventsInv
<1>3. TakenInv'
  BY DEF IInv, TakenInv
<1> QED
  BY <1>1, <1>2, <1>3

LEMMA ReadinessStep ==
  ASSUME IInv, NEW f \in Fds, Readiness(f)
  PROVE  IInv'
<1>1. /\ \E R \in SUBSET Flags : ready' = [ready EXCEPT ![f] = R]
      /\ UNCHANGED <<watcher, armed, fdState, erred, waking, wakeup, poller>>
  BY DEF Readiness
<1>2. KernelOK'
  BY <1>1 DEF IInv, TypeOK, KernelOK
<1>3. MapInv' /\ ArmedInv'
  BY <1>1 DEF IInv, MapInv, ArmedInv
<1>4. LostInv'
  BY <1>1 DEF IInv, LostInv, Watched, Fires, Beside
<1> QED
  BY <1>1, <1>2, <1>3, <1>4, ListsRest DEF IInv, TypeOK

(* No watcher of a popped descriptor is in the map. *)
LEMMA ReuseStep ==
  ASSUME IInv, NEW f \in Fds, Reuse(f)
  PROVE  IInv'
<1>1. /\ fdState[f] = "popped" /\ fdState' = [fdState EXCEPT ![f] = "open"]
      /\ armed' = [armed EXCEPT ![f] = {}] /\ ready' = [ready EXCEPT ![f] = {}]
      /\ erred' = erred \ {f}
      /\ UNCHANGED <<watcher, waking, wakeup, poller>>
  BY DEF Reuse
<1>2. KernelOK'
  BY <1>1 DEF IInv, TypeOK, KernelOK
<1>3. MapInv' /\ ArmedInv'
  BY <1>1 DEF IInv, TypeOK, KernelOK, MapOK, MapInv, ArmedInv
<1>4. \A w \in Watchers : watcher[w].st = "waiting" => watcher[w].fd # f
  BY <1>1 DEF IInv, MapInv
<1>5. \A g \in Fds : g # f => armed'[g] = armed[g]
  BY <1>1 DEF IInv, TypeOK, KernelOK
<1>6. LostInv'
  BY <1>1, <1>4, <1>5 DEF IInv, TypeOK, MapOK, LostInv, Watched, Fires, Beside
<1> QED
  BY <1>1, <1>2, <1>3, <1>6, ListsRest DEF IInv, TypeOK

LEMMA WakeStep ==
  ASSUME IInv, NEW w \in Watchers, Wake(w)
  PROVE  IInv'
<1>1. /\ waking' = waking \ {w} /\ wakeup' = TRUE
      /\ UNCHANGED <<watcher, armed, ready, fdState, erred, poller>>
  BY DEF Wake
<1>2. KernelOK'
  BY <1>1 DEF IInv, TypeOK, KernelOK
<1>3. MapInv' /\ ArmedInv'
  BY <1>1 DEF IInv, MapInv, ArmedInv
<1>4. LostInv'
  BY <1>1 DEF IInv, LostInv, Watched, Fires, Beside
<1> QED
  BY <1>1, <1>2, <1>3, <1>4, ListsRest DEF IInv, TypeOK

(* What a step does to a thread's list it does not to the others'; a step  *)
(* that moves one watcher from a stage outside "taken" to another keeps    *)
(* the lists.                                                              *)
LEMMA OthersTaken ==
  ASSUME IInv, UNCHANGED poller,
         \A w \in Watchers : watcher'[w].st = "taken" <=> watcher[w].st = "taken"
  PROVE  PollersOK' /\ EventsInv' /\ TakenInv'
<1>1. PollersOK' /\ EventsInv'
  BY DEF IInv, TypeOK, PollersOK, EventsInv
<1>2. TakenInv'
  BY DEF IInv, TypeOK, PollersOK, Threads, TakenInv
<1> QED
  BY <1>1, <1>2

(* A new watcher: all in the map that wait on its descriptor are watched.  *)
LEMMA PushStep ==
  ASSUME IInv, NEW w \in Watchers, NEW f \in Fds, NEW want \in Wants, Push(w, f, want)
  PROVE  IInv'
<1>1. /\ watcher[w].st = "unused" /\ fdState[f] = "open"
      /\ watcher' = [watcher EXCEPT ![w] = [st |-> "waiting", fd |-> f, want |-> want]]
      /\ armed' = [armed EXCEPT ![f] = want \cup WatchFlags(f)]
      /\ erred' = erred \ {f} /\ waking' = waking \cup {w}
      /\ UNCHANGED <<ready, fdState, wakeup, poller>>
  BY DEF Push, Mask
<1>2. /\ MapOK'
      /\ watcher'[w] = [st |-> "waiting", fd |-> f, want |-> want]
      /\ \A x \in Watchers : x # w => watcher'[x] = watcher[x]
  BY <1>1 DEF IInv, TypeOK, MapOK, Stages, Wants
<1>3. WatchFlags(f) \in SUBSET Flags /\ want \in SUBSET Flags
  BY DEF IInv, TypeOK, MapOK, WatchFlags, InMap, Wants
<1>4. /\ KernelOK' /\ armed'[f] = want \cup WatchFlags(f)
      /\ \A g \in Fds : g # f => armed'[g] = armed[g]
  BY <1>1, <1>3 DEF IInv, TypeOK, KernelOK
<1>5. PollersOK' /\ EventsInv' /\ TakenInv'
  BY <1>1, <1>2, OthersTaken
<1>6. MapInv'
  BY <1>1, <1>2 DEF IInv, MapInv
<1>7. ArmedInv'
  <2> SUFFICES ASSUME NEW g \in Fds, fdState'[g] = "open", NEW e \in armed'[g]
               PROVE  \E x \in Watchers : /\ watcher'[x].fd = g /\ watcher'[x].st \in Live
                                          /\ e \in watcher'[x].want
    BY DEF ArmedInv
  <2>1. CASE g # f
    <3>1. PICK x \in Watchers : /\ watcher[x].fd = g /\ watcher[x].st \in Live
                                /\ e \in watcher[x].want
      BY <1>1, <1>4, <2>1 DEF IInv, ArmedInv
    <3> QED
      BY <1>1, <1>2, <3>1 DEF Live
  <2>2. CASE g = f /\ e \in want
    BY <1>2, <2>2 DEF Live
  <2>3. CASE g = f /\ e \in WatchFlags(f)
    <3>1. PICK x \in InMap(f) : e \in watcher[x].want
      BY <2>3 DEF WatchFlags
    <3> QED
      BY <1>1, <1>2, <2>3, <3>1 DEF InMap, Live
  <2> QED
    BY <1>4, <2>1, <2>2, <2>3
<1>8. LostInv'
  <2> SUFFICES ASSUME NEW v \in Watchers, watcher'[v].st = "waiting"
               PROVE  \/ Watched(v)' \/ watcher'[v].fd \in erred'
                      \/ \E x \in Watchers : Beside(v, x)'
    BY DEF LostInv
  <2>1. CASE watcher'[v].fd = f
    <3>1. watcher'[v].want \subseteq armed'[f]
      BY <1>2, <1>4, <2>1 DEF WatchFlags, InMap
    <3> QED
      BY <2>1, <3>1 DEF Watched
  <2>2. CASE watcher'[v].fd # f
    <3>1. v # w /\ watcher'[v] = watcher[v]
      BY <1>2, <2>2
    <3>2. watcher[v].fd \in Fds /\ armed'[watcher[v].fd] = armed[watcher[v].fd]
      BY <1>4, <2>2, <3>1 DEF IInv, TypeOK, MapOK
    <3>3. Watched(v) => Watched(v)'
      BY <1>1, <3>1, <3>2 DEF Watched, Fires
    <3>4. \A x \in Watchers : Beside(v, x) => Beside(v, x)'
      BY <1>1, <1>2, <3>1 DEF Beside, Fires
    <3> QED
      BY <1>1, <2>2, <3>1, <3>3, <3>4 DEF IInv, LostInv
  <2> QED
    BY <2>1, <2>2
<1> QED
  BY <1>2, <1>4, <1>5, <1>6, <1>7, <1>8 DEF IInv, TypeOK

LEMMA PushThrowsStep ==
  ASSUME IInv, NEW w \in Watchers, NEW f \in Fds, NEW want \in Wants, PushThrows(w, f, want)
  PROVE  IInv'
<1>1. /\ watcher[w].st = "unused" /\ fdState[f] = "open"
      /\ watcher' = [watcher EXCEPT ![w] = [st |-> "failed", fd |-> f, want |-> want]]
      /\ UNCHANGED <<armed, ready, fdState, erred, waking, wakeup, poller>>
  BY DEF PushThrows
<1>2. /\ MapOK'
      /\ watcher'[w] = [st |-> "failed", fd |-> f, want |-> want]
      /\ \A x \in Watchers : x # w => watcher'[x] = watcher[x]
  BY <1>1 DEF IInv, TypeOK, MapOK, Stages, Wants
<1>3. KernelOK'
  BY <1>1 DEF IInv, TypeOK, KernelOK
<1>4. PollersOK' /\ EventsInv' /\ TakenInv'
  BY <1>1, <1>2, OthersTaken
<1>5. MapInv'
  BY <1>1, <1>2 DEF IInv, MapInv
<1>6. ArmedInv'
  BY <1>1, <1>2 DEF IInv, ArmedInv, Live
<1>7. LostInv'
  <2> SUFFICES ASSUME NEW v \in Watchers, watcher'[v].st = "waiting"
               PROVE  \/ Watched(v)' \/ watcher'[v].fd \in erred'
                      \/ \E x \in Watchers : Beside(v, x)'
    BY DEF LostInv
  <2>1. watcher'[v] = watcher[v]
    BY <1>2
  <2>2. Watched(v) => Watched(v)'
    BY <1>1, <2>1 DEF Watched, Fires
  <2>3. \A x \in Watchers : Beside(v, x) => Beside(v, x)'
    BY <1>1, <1>2, <2>1 DEF Beside, Fires
  <2> QED
    BY <1>1, <2>1, <2>2, <2>3 DEF IInv, LostInv
<1> QED
  BY <1>2, <1>3, <1>4, <1>5, <1>6, <1>7 DEF IInv, TypeOK

(* The kernel reports an armed event of a descriptor and disarms all of    *)
(* it: who waits for another event is left behind beside a watcher, still  *)
(* in the map or called, that waits for the reported one.  A report with   *)
(* no event that was asked for is an error.                                *)
LEMMA EpollWaitStep ==
  ASSUME IInv, NEW p \in Pollers, EpollWait(p)
  PROVE  IInv'
<1>1. PICK F \in SUBSET Fds : \E full \in BOOLEAN :
        /\ poller' = [poller EXCEPT ![p] =
             [pc |-> "got", full |-> full, calls |-> {},
              events |-> [f \in Fds |-> IF f \in F THEN armed[f] \cap ready[f] ELSE {}]]]
        /\ armed' = [f \in Fds |-> IF f \in F THEN {} ELSE armed[f]]
        /\ erred' = erred \cup (F \ Fired)
  BY DEF EpollWait, Fired, Troubled
<1>2. poller[p].pc = "idle" /\ UNCHANGED <<watcher, ready, fdState, waking, wakeup>>
  BY DEF EpollWait
<1>3. /\ poller[p].events = NoEvents /\ poller[p].calls = {}
  BY <1>2 DEF IInv, TypeOK, PollersOK, EventsInv, Threads
<1>4. KernelOK'
  BY <1>1, <1>2 DEF IInv, TypeOK, KernelOK
<1>5. [f \in Fds |-> IF f \in F THEN armed[f] \cap ready[f] ELSE {}] \in [Fds -> SUBSET Flags]
  BY DEF IInv, TypeOK, KernelOK
<1>6. /\ poller'[p].pc = "got" /\ poller'[p].calls = {}
      /\ \A f \in Fds : poller'[p].events[f] = IF f \in F THEN armed[f] \cap ready[f] ELSE {}
      /\ \A q \in Pollers : q # p => poller'[q] = poller[q]
      /\ poller' \in [Pollers -> Threads]
  BY <1>1, <1>5 DEF IInv, TypeOK, PollersOK, Threads
<1>7. MapOK'
  BY <1>2 DEF IInv, TypeOK, MapOK
<1>8. PollersOK' /\ EventsInv'
  BY <1>6 DEF IInv, TypeOK, PollersOK, EventsInv
<1>9. TakenInv'
  BY <1>2, <1>3, <1>6 DEF IInv, TakenInv
<1>10. MapInv' /\ ArmedInv'
  BY <1>1, <1>2 DEF IInv, MapInv, ArmedInv
<1>11. \A x \in Watchers : Fires(x) => Fires(x)'
  BY <1>2, <1>3, <1>6 DEF IInv, TypeOK, MapOK, Fires, NoEvents
<1>12. LostInv'
  <2> SUFFICES ASSUME NEW v \in Watchers, watcher[v].st = "waiting"
               PROVE  \/ Watched(v)' \/ watcher'[v].fd \in erred'
                      \/ \E x \in Watchers : Beside(v, x)'
    BY <1>2 DEF LostInv
  <2> DEFINE f == watcher[v].fd
  <2>1. f \in Fds /\ fdState[f] = "open"
    BY DEF IInv, TypeOK, MapOK, MapInv
  <2>2. CASE Fires(v)
    BY <1>11, <2>2 DEF Watched
  <2>3. CASE \E x \in Watchers : Beside(v, x)
    BY <1>2, <1>11, <2>3 DEF Beside
  <2>4. CASE watcher[v].want \subseteq armed[f] /\ f \notin F
    BY <1>1, <1>2, <2>1, <2>4 DEF Watched
  <2>5. CASE f \in erred \/ f \in F \ Fired
    BY <1>1, <1>2, <2>5
  <2>6. CASE watcher[v].want \subseteq armed[f] /\ f \in F /\ f \in Fired
    <3>1. PICK e : e \in armed[f] /\ e \in ready[f]
      BY <2>6 DEF Fired
    <3>2. e \in poller'[p].events[f]
      BY <1>6, <2>1, <2>6, <3>1
    <3>3. PICK x \in Watchers : /\ watcher[x].fd = f /\ watcher[x].st \in Live
                                /\ e \in watcher[x].want
      BY <2>1, <3>1 DEF IInv, ArmedInv
    <3>4. Fires(x)'
      BY <1>2, <3>2, <3>3 DEF Fires
    <3>5. CASE e \in watcher[v].want
      BY <1>2, <3>2, <3>5 DEF Watched, Fires
    <3>6. CASE e \notin watcher[v].want
      BY <1>2, <3>3, <3>4, <3>6 DEF Beside, Live
    <3> QED
      BY <3>5, <3>6
  <2> QED
    BY <2>2, <2>3, <2>4, <2>5, <2>6 DEF IInv, LostInv, Watched
<1> QED
  BY <1>4, <1>7, <1>8, <1>9, <1>10, <1>12 DEF IInv, TypeOK

LEMMA CallingLemma ==
  ASSUME NEW W \in SUBSET Watchers
  PROVE  /\ Calling(W) \in Threads /\ Calling(W).calls = W
         /\ Calling(W).events = NoEvents /\ Calling(W).pc # "got"
         /\ Calling(W).pc = "calling" <=> W # {}
  BY DEF Calling, Idle, Threads, NoEvents

(* The callbacks that a thread takes were in the map, so on no list.       *)
LEMMA TakeStep ==
  ASSUME IInv, NEW p \in Pollers, Take(p)
  PROVE  IInv'
<1> DEFINE W == Matching(poller[p].events)
<1>1. /\ poller[p].pc = "got"
      /\ watcher' = [w \in Watchers |->
           [watcher[w] EXCEPT !.st = IF w \in W THEN "taken" ELSE watcher[w].st]]
      /\ poller' = [poller EXCEPT ![p] = Calling(W)]
      /\ wakeup' = (wakeup /\ poller[p].full)
      /\ UNCHANGED <<armed, ready, fdState, erred, waking>>
  BY DEF Take, StageTaken
<1>2. \A w \in W : /\ w \in Watchers /\ watcher[w].st \in {"waiting", "failed"}
                   /\ watcher[w].want \cap poller[p].events[watcher[w].fd] # {}
  BY DEF Matching, InMap
<1>3. \A w \in Watchers :
        watcher[w].st \in {"waiting", "failed"}
          /\ watcher[w].want \cap poller[p].events[watcher[w].fd] # {} => w \in W
  BY DEF Matching, InMap, IInv, TypeOK, MapOK
<1> HIDE DEF W
<1>4. /\ W \subseteq Watchers /\ poller[p].calls = {}
  BY <1>1, <1>2 DEF IInv, TypeOK, PollersOK
<1>5. /\ poller' \in [Pollers -> Threads]
      /\ poller'[p] = Calling(W)
      /\ \A q \in Pollers : q # p => poller'[q] = poller[q]
  BY <1>1, <1>4, CallingLemma DEF IInv, TypeOK, PollersOK
<1>6. /\ MapOK'
      /\ \A w \in Watchers : /\ watcher'[w].fd = watcher[w].fd
                             /\ watcher'[w].want = watcher[w].want
                             /\ w \in W => watcher'[w].st = "taken"
                             /\ w \notin W => watcher'[w].st = watcher[w].st
  BY <1>1 DEF IInv, TypeOK, MapOK, Stages
<1>7. KernelOK'
  BY <1>1 DEF IInv, TypeOK, KernelOK
<1>8. PollersOK' /\ EventsInv'
  BY <1>4, <1>5, CallingLemma DEF IInv, TypeOK, PollersOK, EventsInv
<1>9. TakenInv'
  <2>1. /\ poller'[p].calls = W
        /\ \A q \in Pollers : q # p => poller'[q].calls = poller[q].calls
    BY <1>4, <1>5, CallingLemma
  <2>2. \A q \in Pollers : poller[q].calls \cap W = {}
    BY <1>2 DEF IInv, TakenInv
  <2>3. \A q \in Pollers : \A w \in poller'[q].calls : watcher'[w].st = "taken"
    BY <1>4, <1>6, <2>1, <2>2 DEF IInv, TakenInv, TypeOK, PollersOK, Threads
  <2>4. \A w \in Watchers :
          watcher'[w].st = "taken" => \E q \in Pollers : w \in poller'[q].calls
    BY <1>4, <1>6, <2>1 DEF IInv, TakenInv
  <2>5. \A q, r \in Pollers : q # r => poller'[q].calls \cap poller'[r].calls = {}
    BY <2>1, <2>2 DEF IInv, TakenInv
  <2> QED
    BY <2>3, <2>4, <2>5 DEF TakenInv
<1>10. MapInv'
  BY <1>1, <1>2, <1>6 DEF IInv, MapInv
<1>11. ArmedInv'
  <2>1. \A x \in Watchers : watcher[x].st \in Live => watcher'[x].st \in Live
    BY <1>6 DEF Live
  <2>2. UNCHANGED <<armed, fdState>>
    BY <1>1
  <2>3. ASSUME NEW g \in Fds, fdState[g] = "open", NEW e \in armed[g]
        PROVE  \E x \in Watchers : /\ watcher'[x].fd = g /\ watcher'[x].st \in Live
                                   /\ e \in watcher'[x].want
    <3>1. PICK x \in Watchers : /\ watcher[x].fd = g /\ watcher[x].st \in Live
                                /\ e \in watcher[x].want
      BY <2>3 DEF IInv, ArmedInv
    <3> QED
      BY <1>6, <2>1, <3>1
  <2> QED
    BY <2>2, <2>3 DEF ArmedInv
<1>12. LostInv'
  <2> SUFFICES ASSUME NEW v \in Watchers, watcher'[v].st = "waiting"
               PROVE  \/ Watched(v)' \/ watcher'[v].fd \in erred'
                      \/ \E x \in Watchers : Beside(v, x)'
    BY DEF LostInv
  <2>1. v \notin W /\ watcher[v].st = "waiting"
    BY <1>6
  <2>2. \A x \in Watchers : Fires(x) =>
          \/ poller[p].events[watcher[x].fd] \cap watcher[x].want # {}
          \/ Fires(x)'
    BY <1>5, <1>6 DEF Fires
  <2>3. Fires(v) => Fires(v)'
    BY <1>3, <2>1, <2>2
  <2>4. Watched(v) => Watched(v)'
    BY <1>1, <1>6, <2>3 DEF Watched
  <2>5. ASSUME NEW x \in Watchers, Beside(v, x) PROVE Beside(v, x)'
    <3>1. /\ watcher'[x].fd = watcher'[v].fd /\ watcher'[x].want # watcher'[v].want
      BY <1>6, <2>5 DEF Beside
    <3>2. CASE x \in W
      BY <1>6, <3>1, <3>2 DEF Beside
    <3>3. CASE x \notin W
      BY <1>3, <1>6, <2>2, <2>5, <3>1, <3>3 DEF Beside
    <3> QED
      BY <3>2, <3>3
  <2> QED
    BY <1>1, <1>6, <2>1, <2>4, <2>5 DEF IInv, LostInv
<1> QED
  BY <1>6, <1>7, <1>8, <1>9, <1>10, <1>11, <1>12 DEF IInv, TypeOK

LEMMA CallStep ==
  ASSUME IInv, NEW p \in Pollers, NEW w \in Watchers, Call(p, w)
  PROVE  IInv'
<1>1. /\ w \in poller[p].calls
      /\ watcher' = [watcher EXCEPT ![w].st = "called"]
      /\ poller' = [poller EXCEPT ![p] = Calling(poller[p].calls \ {w})]
      /\ UNCHANGED <<armed, ready, fdState, erred, waking, wakeup>>
  BY DEF Call, IInv, TypeOK, PollersOK
<1>2. /\ watcher[w].st = "taken" /\ poller[p].calls \ {w} \in SUBSET Watchers
      /\ poller[p].events = NoEvents
  BY <1>1 DEF IInv, TypeOK, PollersOK, Threads, TakenInv, EventsInv
<1>3. /\ poller' \in [Pollers -> Threads]
      /\ poller'[p] = Calling(poller[p].calls \ {w})
      /\ \A q \in Pollers : q # p => poller'[q] = poller[q]
  BY <1>1, <1>2, CallingLemma DEF IInv, TypeOK, PollersOK
<1>4. /\ MapOK'
      /\ watcher'[w].st = "called"
      /\ watcher'[w].fd = watcher[w].fd /\ watcher'[w].want = watcher[w].want
      /\ \A x \in Watchers : x # w => watcher'[x] = watcher[x]
  BY <1>1 DEF IInv, TypeOK, MapOK, Stages
<1>5. KernelOK'
  BY <1>1 DEF IInv, TypeOK, KernelOK
<1>6. PollersOK' /\ EventsInv'
  BY <1>2, <1>3, CallingLemma DEF IInv, TypeOK, PollersOK, EventsInv
<1>7. TakenInv'
  <2>1. /\ poller'[p].calls = poller[p].calls \ {w}
        /\ \A q \in Pollers : q # p => poller'[q].calls = poller[q].calls
    BY <1>2, <1>3, CallingLemma
  <2>2. \A q \in Pollers : w \notin poller'[q].calls
    BY <1>1, <2>1 DEF IInv, TakenInv
  <2>3. \A q \in Pollers : \A x \in poller'[q].calls : watcher'[x].st = "taken"
    BY <1>2, <1>4, <2>1, <2>2 DEF IInv, TakenInv, TypeOK, PollersOK, Threads
  <2>4. \A x \in Watchers :
          watcher'[x].st = "taken" => \E q \in Pollers : x \in poller'[q].calls
    BY <1>4, <2>1 DEF IInv, TakenInv
  <2>5. \A q, r \in Pollers : q # r => poller'[q].calls \cap poller'[r].calls = {}
    BY <2>1 DEF IInv, TakenInv
  <2> QED
    BY <2>3, <2>4, <2>5 DEF TakenInv
<1>8. MapInv'
  BY <1>1, <1>4 DEF IInv, MapInv
<1>9. ArmedInv'
  BY <1>1, <1>2, <1>4 DEF IInv, ArmedInv, Live
<1>10. LostInv'
  <2> SUFFICES ASSUME NEW v \in Watchers, watcher'[v].st = "waiting"
               PROVE  \/ Watched(v)' \/ watcher'[v].fd \in erred'
                      \/ \E x \in Watchers : Beside(v, x)'
    BY DEF LostInv
  <2>1. \A x \in Watchers : Fires(x) => Fires(x)'
    BY <1>2, <1>3, <1>4 DEF Fires, NoEvents, IInv, TypeOK, MapOK
  <2>2. v # w /\ watcher[v].st = "waiting"
    BY <1>4
  <2>3. Watched(v) => Watched(v)'
    BY <1>1, <1>4, <2>1, <2>2 DEF Watched
  <2>4. \A x \in Watchers : Beside(v, x) => Beside(v, x)'
    BY <1>2, <1>4, <2>1, <2>2 DEF Beside
  <2> QED
    BY <1>1, <1>4, <2>2, <2>3, <2>4 DEF IInv, LostInv
<1> QED
  BY <1>4, <1>5, <1>6, <1>7, <1>8, <1>9, <1>10 DEF IInv, TypeOK

(* pop drops every watcher of the descriptor, the blamed and the lost. *)
LEMMA PopStep ==
  ASSUME IInv, NEW f \in Fds, Pop(f)
  PROVE  IInv'
<1>1. /\ fdState[f] = "open" /\ fdState' = [fdState EXCEPT ![f] = "popped"]
      /\ watcher' = [w \in Watchers |->
           IF w \in InMap(f) THEN [watcher[w] EXCEPT !.st = "dropped"] ELSE watcher[w]]
      /\ UNCHANGED <<armed, ready, erred, waking, wakeup, poller>>
  BY DEF Pop
<1>2. /\ MapOK'
      /\ \A w \in InMap(f) : watcher'[w].st = "dropped"
      /\ \A w \in Watchers : w \notin InMap(f) => watcher'[w] = watcher[w]
      /\ \A w \in InMap(f) : watcher'[w].want = watcher[w].want
  BY <1>1 DEF IInv, TypeOK, MapOK, Stages, InMap
<1>3. KernelOK'
  BY <1>1 DEF IInv, TypeOK, KernelOK
<1>4. \A w \in Watchers : watcher'[w].st = "taken" <=> watcher[w].st = "taken"
  BY <1>2 DEF InMap
<1>5. PollersOK' /\ EventsInv' /\ TakenInv'
  BY <1>1, <1>4, OthersTaken
<1>6. MapInv'
  BY <1>1, <1>2 DEF IInv, TypeOK, KernelOK, MapOK, MapInv, InMap
<1>7. ArmedInv'
  <2> SUFFICES ASSUME NEW g \in Fds, fdState'[g] = "open", NEW e \in armed'[g]
               PROVE  \E x \in Watchers : /\ watcher'[x].fd = g /\ watcher'[x].st \in Live
                                          /\ e \in watcher'[x].want
    BY DEF ArmedInv
  <2>1. g # f /\ fdState[g] = "open" /\ e \in armed[g]
    BY <1>1 DEF IInv, TypeOK, KernelOK
  <2>2. PICK x \in Watchers : /\ watcher[x].fd = g /\ watcher[x].st \in Live
                              /\ e \in watcher[x].want
    BY <2>1 DEF IInv, ArmedInv
  <2>3. watcher'[x] = watcher[x]
    BY <1>2, <2>1, <2>2 DEF InMap
  <2> QED
    BY <2>2, <2>3
<1>8. LostInv'
  <2> SUFFICES ASSUME NEW v \in Watchers, watcher'[v].st = "waiting"
               PROVE  \/ Watched(v)' \/ watcher'[v].fd \in erred'
                      \/ \E x \in Watchers : Beside(v, x)'
    BY DEF LostInv
  <2>1. watcher'[v] = watcher[v] /\ watcher[v].fd # f
    BY <1>2 DEF InMap
  <2>2. Watched(v) => Watched(v)'
    BY <1>1, <2>1 DEF Watched, Fires
  <2>3. \A x \in Watchers : Beside(v, x) => Beside(v, x)'
    BY <1>1, <1>2, <2>1 DEF Beside, Fires, InMap
  <2> QED
    BY <1>1, <2>1, <2>2, <2>3 DEF IInv, LostInv
<1> QED
  BY <1>2, <1>3, <1>5, <1>6, <1>7, <1>8 DEF IInv, TypeOK

(* The invariant that carries the theorems below. *)
THEOREM Invariance == Spec => []IInv
<1>1. IInv /\ [Next]_vars => IInv'
  <2> SUFFICES ASSUME IInv, [Next]_vars PROVE IInv'
    OBVIOUS
  <2>1. ASSUME NEW w \in Watchers, NEW f \in Fds, NEW want \in Wants,
               Push(w, f, want) \/ PushThrows(w, f, want)
        PROVE  IInv'
    BY <2>1, PushStep, PushThrowsStep
  <2>2. ASSUME NEW w \in Watchers, Wake(w) PROVE IInv'
    BY <2>2, WakeStep
  <2>3. ASSUME NEW p \in Pollers, EpollWait(p) \/ Take(p) PROVE IInv'
    BY <2>3, EpollWaitStep, TakeStep
  <2>4. ASSUME NEW p \in Pollers, NEW w \in Watchers, Call(p, w) PROVE IInv'
    BY <2>4, CallStep
  <2>5. ASSUME NEW f \in Fds, Pop(f) \/ Readiness(f) \/ Reuse(f) PROVE IInv'
    BY <2>5, PopStep, ReadinessStep, ReuseStep
  <2>6. CASE UNCHANGED vars
    <3>1. UNCHANGED <<watcher, armed, ready, fdState, erred, waking, wakeup, poller>>
      BY <2>6 DEF vars
    <3>2. KernelOK'
      BY <3>1 DEF IInv, TypeOK, KernelOK
    <3>3. MapInv' /\ ArmedInv' /\ LostInv'
      BY <3>1 DEF IInv, MapInv, ArmedInv, LostInv, Watched, Fires, Beside
    <3> QED
      BY <3>1, <3>2, <3>3, ListsRest DEF IInv, TypeOK
  <2> QED
    BY <2>1, <2>2, <2>3, <2>4, <2>5, <2>6 DEF Next
<1> QED
  BY InitInv, <1>1, PTL DEF Spec

(* poll_engine.cc:72-95: a callback is called by one thread, once. *)
THEOREM OneCaller == Spec => []CalledOnce
<1>1. IInv => CalledOnce
  <2> SUFFICES ASSUME IInv, NEW w \in Watchers
               PROVE  Cardinality({p \in Pollers : w \in poller[p].calls}) =
                        IF watcher[w].st = "taken" THEN 1 ELSE 0
    BY DEF CalledOnce
  <2>1. CASE watcher[w].st = "taken"
    <3>1. PICK p \in Pollers : w \in poller[p].calls
      BY <2>1 DEF IInv, TakenInv
    <3>2. {q \in Pollers : w \in poller[q].calls} = {p}
      BY <3>1 DEF IInv, TakenInv
    <3> QED
      BY <2>1, <3>2, FS_Singleton
  <2>2. CASE watcher[w].st # "taken"
    <3>1. {q \in Pollers : w \in poller[q].calls} = {}
      BY <2>2 DEF IInv, TakenInv
    <3> QED
      BY <2>2, <3>1, FS_EmptySet
  <2> QED
    BY <2>1, <2>2
<1> QED
  BY Invariance, <1>1, PTL

(* poll_engine.cc:42-95: a watcher is lost only beside another one of its  *)
(* descriptor that waits for something else, or to an error event.         *)
THEOREM Losses == Spec => []LostOnlyBesideOther
<1>1. IInv => LostOnlyBesideOther
  BY DEF IInv, LostInv, Beside, LostOnlyBesideOther
<1> QED
  BY Invariance, <1>1, PTL

(* The map, the kernel's view and the threads have their types. *)
THEOREM Types == Spec => []TypeOK
  BY Invariance, PTL DEF IInv
=============================================================================
