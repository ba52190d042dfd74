------------------------------ MODULE PollEngine ------------------------------
(***************************************************************************)
(* The poll engine (common/utils/poll_engine.cc): one-shot watches on      *)
(* descriptors, kept in a map under a mutex and in an epoll instance of    *)
(* the kernel.                                                             *)
(*                                                                         *)
(* Any thread pushes watchers, polls and pops.  push changes the map and   *)
(* the epoll instance under the mutex and wakes a sleeping poll after it.  *)
(* poll sleeps without the mutex, takes the callbacks of the events it got *)
(* under the mutex, and calls them without it: between these steps other   *)
(* threads push, poll and pop.                                             *)
(*                                                                         *)
(* The kernel keeps for each descriptor the events it is armed for.  One   *)
(* reported event disarms the descriptor as a whole (EPOLLONESHOT) until   *)
(* the next push on it.  An error or a hang-up is reported of whatever is  *)
(* armed, asked for or not.                                                *)
(***************************************************************************)
EXTENDS Integers, FiniteSets

CONSTANTS
  Fds,          \* descriptor numbers; a closed one is used again
  Watchers,     \* calls of push (bound)
  Pollers,      \* threads that call poll
  Batch         \* event_batch_size

ASSUME BatchAssumption == Batch \in Nat \ {0}

Flags == {"In", "Out"}
Wants == SUBSET Flags \ {{}}    \* a push that waits for nothing is not made

VARIABLES
  watcher,      \* push -> [st, fd, want]; st is where its callback is
  armed,        \* kernel: descriptor -> events it will report, once
  ready,        \* kernel: descriptor -> what it is ready for
  fdState,      \* descriptor -> "open", or "popped" and about to be closed
  erred,        \* history: descriptors disarmed by an error and nothing else
  waking,       \* pushes that have left the mutex and not written wakeup_fd_
  wakeup,       \* wakeup_fd_ is readable
  poller        \* thread -> [pc, events, full, calls], inside poll

vars == <<watcher, armed, ready, fdState, erred, waking, wakeup, poller>>

(* unused: not pushed yet; waiting: in watchers_; failed: in watchers_,    *)
(* left there by a push that threw; taken: in a poll's `callbacks`;        *)
(* called; dropped: erased by pop.                                         *)
Stages == {"unused", "waiting", "failed", "taken", "called", "dropped"}

NoEvents == [f \in Fds |-> {}]
Idle     == [pc |-> "idle", events |-> NoEvents, full |-> FALSE, calls |-> {}]

InMap(f) == {w \in Watchers : watcher[w].st \in {"waiting", "failed"} /\ watcher[w].fd = f}

Init ==
  /\ \E f \in Fds : watcher = [w \in Watchers |-> [st |-> "unused", fd |-> f, want |-> {}]]
  /\ armed   = NoEvents
  /\ ready   = NoEvents
  /\ fdState = [f \in Fds |-> "open"]
  /\ erred   = {} /\ waking = {}
  /\ wakeup  = FALSE
  /\ poller  = [p \in Pollers |-> Idle]

-----------------------------------------------------------------------------
(* The peer and the kernel.                                                *)

Readiness(f) ==
  /\ \E R \in SUBSET Flags : R # ready[f] /\ ready' = [ready EXCEPT ![f] = R]
  /\ UNCHANGED <<watcher, armed, fdState, erred, waking, wakeup, poller>>

(* The owner of a popped descriptor closes it, which removes it from the   *)
(* epoll instance, and a new socket gets its number.                       *)
Reuse(f) ==
  /\ fdState[f] = "popped"
  /\ fdState' = [fdState EXCEPT ![f] = "open"]
  /\ armed'   = [armed EXCEPT ![f] = {}]
  /\ ready'   = [ready EXCEPT ![f] = {}]
  /\ erred'   = erred \ {f}
  /\ UNCHANGED <<watcher, waking, wakeup, poller>>

-----------------------------------------------------------------------------
(* push *)

(* get_watch_flags *)
WatchFlags(f) == UNION {watcher[w].want : w \in InMap(f)}

MaskNewOnly(f, want) == want    \* faulty: forgets the watchers already there

Mask(f, want) == want \cup WatchFlags(f)

Push(w, f, want) ==
  /\ watcher[w].st = "unused" /\ fdState[f] = "open"
  /\ watcher' = [watcher EXCEPT ![w] = [st |-> "waiting", fd |-> f, want |-> want]]
  /\ armed'   = [armed EXCEPT ![f] = Mask(f, want)]
  /\ erred'   = erred \ {f}
  /\ waking'  = waking \cup {w}
  /\ UNCHANGED <<ready, fdState, wakeup, poller>>

(* Neither EPOLL_CTL_ADD nor EPOLL_CTL_MOD succeeds: push throws with the  *)
(* watcher in the map.                                                     *)
PushThrows(w, f, want) ==
  /\ watcher[w].st = "unused" /\ fdState[f] = "open"
  /\ watcher' = [watcher EXCEPT ![w] = [st |-> "failed", fd |-> f, want |-> want]]
  /\ UNCHANGED <<armed, ready, fdState, erred, waking, wakeup, poller>>

Wake(w) ==
  /\ w \in waking
  /\ waking' = waking \ {w}
  /\ wakeup' = TRUE
  /\ UNCHANGED <<watcher, armed, ready, fdState, erred, poller>>

-----------------------------------------------------------------------------
(* poll *)

Fired == {f \in Fds : armed[f] \cap ready[f] # {}}

(* The kernel adds an error or a hang-up to what it reports of any armed   *)
(* descriptor: one in trouble is reported although nothing that was asked  *)
(* of it is ready.                                                         *)
Troubled == {f \in Fds : armed[f] # {}}

(* epoll_wait: at most Batch events, wakeup_fd_ among them or not.  A poll *)
(* that times out with no event does nothing.                              *)
EpollWait(p) ==
  /\ poller[p].pc = "idle"
  /\ \E T \in SUBSET Troubled : \E F \in SUBSET (Fired \cup T), wk \in BOOLEAN :
       LET n == Cardinality(F) + IF wk THEN 1 ELSE 0
           all == Cardinality(Fired \cup T) + IF wakeup THEN 1 ELSE 0
       IN  /\ wk => wakeup
           /\ n > 0 /\ n = IF all < Batch THEN all ELSE Batch
           /\ poller' = [poller EXCEPT ![p] =
                [pc |-> "got", full |-> n = Batch, calls |-> {},
                 events |-> [f \in Fds |->
                               IF f \in F THEN armed[f] \cap ready[f] ELSE {}]]]
           /\ armed' = [f \in Fds |-> IF f \in F THEN {} ELSE armed[f]]
           /\ erred' = erred \cup (F \ Fired)
  /\ UNCHANGED <<watcher, ready, fdState, waking, wakeup>>

(* Who is called for the events: every watcher in the map that waits for   *)
(* one of its descriptor's.  Nobody waits for an error or a hang-up.       *)
Matching(events) ==
  {w \in Watchers : \E f \in Fds :
     w \in InMap(f) /\ watcher[w].want \cap events[f] # {}}

StageNotErased(w, W) == watcher[w].st   \* faulty: callback moved, not erased

StageTaken(w, W) == IF w \in W THEN "taken" ELSE watcher[w].st

(* With no callback to call, poll returns. *)
Calling(W) ==
  IF W = {} THEN Idle
  ELSE [pc |-> "calling", events |-> NoEvents, full |-> FALSE, calls |-> W]

Take(p) ==
  /\ poller[p].pc = "got"
  /\ LET W == Matching(poller[p].events)
     IN  /\ watcher' = [w \in Watchers |->
                          [watcher[w] EXCEPT !.st = StageTaken(w, W)]]
         /\ poller' = [poller EXCEPT ![p] = Calling(W)]
  /\ wakeup' = (wakeup /\ poller[p].full)
  /\ UNCHANGED <<armed, ready, fdState, erred, waking>>

(* A callback may push again: Push by any thread. *)
Call(p, w) ==
  /\ w \in poller[p].calls
  /\ watcher' = [watcher EXCEPT ![w].st = "called"]
  /\ poller' = [poller EXCEPT ![p] = Calling(@.calls \ {w})]
  /\ UNCHANGED <<armed, ready, fdState, erred, waking, wakeup>>

(* pop, by the owner of the descriptor before it closes it *)
Pop(f) ==
  /\ fdState[f] = "open"
  /\ fdState' = [fdState EXCEPT ![f] = "popped"]
  /\ watcher' = [w \in Watchers |->
       IF w \in InMap(f) THEN [watcher[w] EXCEPT !.st = "dropped"] ELSE watcher[w]]
  /\ UNCHANGED <<armed, ready, erred, waking, wakeup, poller>>

Next ==
  \/ \E w \in Watchers, f \in Fds, want \in Wants :
       Push(w, f, want) \/ PushThrows(w, f, want)
  \/ \E w \in Watchers : Wake(w)
  \/ \E p \in Pollers : EpollWait(p) \/ Take(p) \/ \E w \in Watchers : Call(p, w)
  \/ \E f \in Fds : Pop(f) \/ Readiness(f) \/ Reuse(f)

Spec == Init /\ [][Next]_vars

-----------------------------------------------------------------------------
(* Properties.                                                             *)

(* The map, the kernel's view of the descriptors and the threads in poll. *)
MapOK == watcher \in [Watchers -> [st : Stages, fd : Fds, want : SUBSET Flags]]

KernelOK ==
  /\ armed   \in [Fds -> SUBSET Flags]
  /\ ready   \in [Fds -> SUBSET Flags]
  /\ fdState \in [Fds -> {"open", "popped"}]
  /\ erred   \subseteq Fds /\ waking \subseteq Watchers
  /\ wakeup  \in BOOLEAN

Threads == [pc : {"idle", "got", "calling"}, events : [Fds -> SUBSET Flags],
            full : BOOLEAN, calls : SUBSET Watchers]

PollersOK ==
  /\ poller \in [Pollers -> Threads]
  /\ \A p \in Pollers : poller[p].pc = "calling" <=> poller[p].calls # {}

TypeOK == MapOK /\ KernelOK /\ PollersOK

(* A callback is moved out of the map into one thread's list and called    *)
(* from there: never by two threads that got events of one descriptor,     *)
(* never by one while it is still in the map for another.                  *)
CalledOnce ==
  \A w \in Watchers :
    Cardinality({p \in Pollers : w \in poller[p].calls}) =
      IF watcher[w].st = "taken" THEN 1 ELSE 0

(* A waiting watcher will be told of its event: the kernel is armed for    *)
(* all it waits for, or a thread is on its way with such an event.         *)
Fires(w) ==
  \E p \in Pollers : poller[p].events[watcher[w].fd] \cap watcher[w].want # {}

Watched(w) == watcher[w].want \subseteq armed[watcher[w].fd] \/ Fires(w)

(* Whatever threads push, poll and pop, a watcher is lost only on a        *)
(* descriptor that another watcher used for other events, or that nobody   *)
(* pushed on since it reported an error and nothing else.                  *)
LostOnlyBesideOther ==
  \A w \in Watchers :
    watcher[w].st = "waiting" =>
      \/ Watched(w) \/ watcher[w].fd \in erred
      \/ \E x \in Watchers :
           /\ watcher[x].fd = watcher[w].fd /\ watcher[x].want # watcher[w].want
           /\ watcher[x].st \in {"taken", "called"} \/ Fires(x)

(* ssl_endpoint.cc:140, "Schedule wait for socket to be writable", at the  *)
(* push of a callback while a read may wait on the same descriptor: what   *)
(* was pushed stays scheduled until it is called or popped, or the         *)
(* descriptor is in error.                                                 *)
WaitScheduled ==
  \A w \in Watchers :
    watcher[w].st = "waiting" => Watched(w) \/ watcher[w].fd \in erred
=============================================================================
