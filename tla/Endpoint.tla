------------------------------ MODULE Endpoint ------------------------------
(***************************************************************************)
(* SSLEndpoint (common/grpc/ssl_endpoint.cc): one TLS connection, read and *)
(* written at once, waiting in a PollEngine for its descriptor.            *)
(*                                                                         *)
(* A read and a write each try the TLS library under ssl_mutex_, and when  *)
(* it wants the socket first they leave the mutex, push a one-shot watch   *)
(* and try again when it is called.  The library decides the direction: a  *)
(* handshake in the middle of the connection makes a write wait for input  *)
(* and a read for room to write.  The poll engine is the one of module     *)
(* PollEngine, for one descriptor and with pushes that succeed.            *)
(*                                                                         *)
(* The endpoint is modelled as its class states it, with an owner that     *)
(* shared_from_this can share and the descriptor that was connected.  A    *)
(* slice taken in part stops the process: gRPC is asked for a rest that    *)
(* reaches beyond the slice.  Nothing in the repository calls poll, so     *)
(* EpollWait and Take are what a thread that did call it would do, and no  *)
(* fairness is assumed: that an operation is ever answered is not claimed. *)
(***************************************************************************)
EXTENDS Integers, Sequences, FiniteSets, SequencesExt

CONSTANTS
  Payloads,     \* sequence of slices of one Write: a set of them
  Reads,        \* reads the application makes (bound)
  Writes,       \* writes the application makes (bound)
  Inbound,      \* bytes the peer sends (bound)
  Handshakes,   \* handshakes the peer starts (bound)
  Room          \* what the kernel buffers of a direction

ASSUME RoomAssumption == Room \in Nat \ {0}
ASSUME PayloadsAssumption == \A p \in Payloads : p \in Seq(Seq(Nat))

Ops   == {"read", "write"}

VARIABLES
  stage,        \* op -> "idle" | "try" | "push" | "waiting" | "taken";
                \* a write that holds ssl_mutex_: "writing"
  want,         \* op -> the event it pushes for, "In" or "Out"
  armed,        \* kernel: events the descriptor will report, once
  fired,        \* events epoll_wait has returned to poll
  data,         \* the write's SliceBuffer
  retry,        \* library: the slice it was given and wants again, or <<>>
  shake,        \* library: "none" | "send" | "answer": a handshake's next step
  net,          \* kernel: [inn, out], bytes received and bytes not yet sent
  peer,         \* [sent, shakes, owes]: bytes sent, handshakes, an answer due
  asked,        \* history: op -> calls made
  submitted,    \* history: bytes the application wrote
  accepted,     \* history: bytes the library took
  failed,       \* history: a write was answered with an error
  aborted       \* the process was stopped by gRPC

vars == <<stage, want, armed, fired, data, retry, shake, net, peer, asked,
          submitted, accepted, failed, aborted>>

poll    == <<armed, fired>>
library == <<retry, shake, net, peer>>
history == <<asked, submitted, accepted, failed, aborted>>

Init ==
  /\ stage = [o \in Ops |-> "idle"] /\ want = [o \in Ops |-> "In"]
  /\ armed = {} /\ fired = {} /\ data = <<>> /\ retry = <<>> /\ shake = "none"
  /\ net = [inn |-> 0, out |-> 0, reply |-> FALSE]
  /\ peer = [sent |-> 0, shakes |-> 0, owes |-> FALSE]
  /\ asked = [o \in Ops |-> 0] /\ submitted = <<>> /\ accepted = <<>>
  /\ failed = FALSE /\ aborted = FALSE

-----------------------------------------------------------------------------
(* The application makes one read and one write at a time.                 *)

Read ==
  /\ stage["read"] = "idle" /\ asked["read"] < Reads
  /\ stage' = [stage EXCEPT !["read"] = "try"]
  /\ asked' = [asked EXCEPT !["read"] = @ + 1]
  /\ UNCHANGED <<want, poll, data, library, submitted, accepted, failed, aborted>>

Write ==
  /\ stage["write"] = "idle" /\ asked["write"] < Writes /\ ~failed
  /\ \E p \in Payloads : data' = p /\ submitted' = submitted \o FlattenSeq(p)
  /\ stage' = [stage EXCEPT !["write"] = "try"]
  /\ asked' = [asked EXCEPT !["write"] = @ + 1]
  /\ UNCHANGED <<want, poll, library, accepted, failed, aborted>>

-----------------------------------------------------------------------------
(* The peer and the kernel                                                 *)

Ready == (IF net.inn > 0 \/ net.reply THEN {"In"} ELSE {})
           \cup (IF net.out < Room THEN {"Out"} ELSE {})

PeerSends ==
  /\ peer.sent < Inbound /\ net.inn < Room
  /\ peer' = [peer EXCEPT !.sent = @ + 1]
  /\ net' = [net EXCEPT !.inn = @ + 1]
  /\ UNCHANGED <<stage, want, poll, data, retry, shake, history>>

(* Its request for a handshake is found by whatever call comes next. *)
PeerStartsHandshake ==
  /\ peer.shakes < Handshakes /\ shake = "none"
  /\ shake' = "send"
  /\ peer' = [peer EXCEPT !.shakes = @ + 1]
  /\ UNCHANGED <<stage, want, poll, data, retry, net, history>>

PeerTakes ==
  /\ net.out > 0
  /\ net' = [net EXCEPT !.out = @ - 1]
  /\ UNCHANGED <<stage, want, poll, data, retry, shake, peer, history>>

PeerAnswers ==
  /\ peer.owes
  /\ peer' = [peer EXCEPT !.owes = FALSE]
  /\ net' = [net EXCEPT !.reply = TRUE]
  /\ UNCHANGED <<stage, want, poll, data, retry, shake, history>>

-----------------------------------------------------------------------------
(* The TLS library, under ssl_mutex_                                       *)

Locked == stage["write"] = "writing"

(* What the library wants before it can do what it is asked. *)
Wanted(o) ==
  CASE shake = "send" -> IF net.out < Room THEN "" ELSE "Out"
    [] shake = "answer" -> IF net.reply THEN "" ELSE "In"
    [] OTHER -> IF o = "read" THEN (IF net.inn > 0 THEN "" ELSE "In")
                ELSE (IF net.out < Room THEN "" ELSE "Out")

(* A step of the handshake, taken inside SSL_read or SSL_write. *)
Handshake(o) ==
  /\ stage[o] \in {"try", "writing"} /\ (o = "read" => ~Locked)
  /\ shake # "none" /\ Wanted(o) = ""
  /\ IF shake = "send"
     THEN /\ shake' = "answer" /\ net' = [net EXCEPT !.out = @ + 1]
          /\ peer' = [peer EXCEPT !.owes = TRUE]
     ELSE /\ shake' = "none" /\ net' = [net EXCEPT !.reply = FALSE] /\ UNCHANGED peer
  /\ UNCHANGED <<stage, want, poll, data, retry, history>>

(* WANT_READ or WANT_WRITE: the mutex is left, then the watch is pushed.   *)
Blocked(o) ==
  /\ Wanted(o) # ""
  /\ stage' = [stage EXCEPT ![o] = "push"]
  /\ want' = [want EXCEPT ![o] = Wanted(o)]

(* DoRead: one SSL_read; on_read is called with what it returned, or with  *)
(* an error.                                                               *)
DoRead ==
  /\ stage["read"] = "try" /\ ~Locked
  /\ \/ Blocked("read") /\ UNCHANGED net
     \/ /\ shake = "none" /\ Wanted("read") = ""
        /\ \E n \in 1..net.inn : net' = [net EXCEPT !.inn = @ - n]
        /\ stage' = [stage EXCEPT !["read"] = "idle"]
        /\ UNCHANGED want
     \/ stage' = [stage EXCEPT !["read"] = "idle"] /\ UNCHANGED <<want, net>>
  /\ UNCHANGED <<poll, data, retry, shake, peer, history>>

(* DoWrite: one turn of its loop per step, the mutex held between them.    *)
RequeuedLast == data' = Append(Tail(data), Head(data))  \* faulty: Append, not Prepend

RefusedLost == data' = Tail(data)       \* faulty: the slice is not put back

Requeued == data' = data

CanSend ==
  /\ stage["write"] \in {"try", "writing"} /\ data # <<>>
  /\ shake = "none" /\ Wanted("write") = ""

(* SSL_write takes `n` bytes of the first slice, which was taken out. *)
Sends(n) ==
  /\ accepted' = accepted \o SubSeq(Head(data), 1, n)
  /\ data' = Tail(data) /\ retry' = <<>>
  /\ net' = [net EXCEPT !.out = @ + 1]
  /\ UNCHANGED <<want, poll, shake, peer, asked, submitted, failed>>

(* The slice was taken whole: the loop goes on with the next. *)
WriteSlice ==
  /\ CanSend /\ Head(data) # <<>>
  /\ Sends(Len(Head(data)))
  /\ stage' = [stage EXCEPT !["write"] = "writing"]
  /\ UNCHANGED aborted

(* Only part of it was taken.  The rest is asked for with the slice's size *)
(* as its length: it would end beyond the slice, and gRPC's check of that  *)
(* stops the process.                                                      *)
WritePart ==
  /\ CanSend
  /\ \E n \in 1..Len(Head(data)) - 1 : Sends(n)
  /\ aborted' = TRUE
  /\ UNCHANGED stage

WriteBlocked ==
  /\ stage["write"] \in {"try", "writing"} /\ data # <<>>
  /\ Blocked("write")
  /\ Requeued /\ retry' = Head(data)
  /\ UNCHANGED <<poll, shake, net, peer, history>>

WriteFails ==
  /\ stage["write"] \in {"try", "writing"} /\ data # <<>>
  /\ stage' = [stage EXCEPT !["write"] = "idle"]
  /\ failed' = TRUE /\ retry' = <<>>
  /\ UNCHANGED <<want, poll, data, shake, net, peer, asked, submitted, accepted, aborted>>

WriteDone ==
  /\ stage["write"] \in {"try", "writing"} /\ data = <<>>
  /\ stage' = [stage EXCEPT !["write"] = "idle"]
  /\ UNCHANGED <<want, poll, data, library, history>>

-----------------------------------------------------------------------------
(* The poll engine                                                         *)

WaitingFor == {want[o] : o \in {x \in Ops : stage[x] = "waiting"}}

ArmedNewOnly(o) == {want[o]}    \* faulty: forgets the watcher already there

Armed(o) == WaitingFor \cup {want[o]}

Push(o) ==
  /\ stage[o] = "push"
  /\ stage' = [stage EXCEPT ![o] = "waiting"]
  /\ armed' = Armed(o)
  /\ UNCHANGED <<want, fired, data, library, history>>

(* epoll_wait; a reported event disarms the descriptor as a whole.  A TCP  *)
(* socket in error or hung up counts as ready in both directions.          *)
EpollWait ==
  /\ fired = {}
  /\ \E events \in {armed \cap Ready, armed} \ {{}} : fired' = events
  /\ armed' = {}
  /\ UNCHANGED <<stage, want, data, library, history>>

Take ==
  /\ fired # {} /\ fired' = {}
  /\ stage' = [o \in Ops |-> IF stage[o] = "waiting" /\ want[o] \in fired THEN "taken"
                             ELSE stage[o]]
  /\ UNCHANGED <<want, armed, data, library, history>>

Call(o) ==
  /\ stage[o] = "taken"
  /\ stage' = [stage EXCEPT ![o] = "try"]
  /\ UNCHANGED <<want, poll, data, library, history>>

Steps(o) == Handshake(o) \/ Push(o) \/ Call(o)

WriteStep == WriteSlice \/ WritePart \/ WriteBlocked \/ WriteDone \/ WriteFails

Next ==
  /\ ~aborted
  /\ \/ Read \/ Write \/ PeerSends \/ PeerStartsHandshake \/ PeerTakes \/ PeerAnswers
     \/ DoRead \/ WriteStep \/ EpollWait \/ Take \/ \E o \in Ops : Steps(o)

Spec == Init /\ [][Next]_vars

-----------------------------------------------------------------------------
(* Properties                                                              *)

(* The library is given every byte the application wrote, once and in      *)
(* order, whatever is refused and tried again: what it took and what the   *)
(* write still holds make up what was submitted, until a write fails or    *)
(* the process stops (ssl_endpoint.cc:120-184).                            *)
BytesInOrder == ~failed /\ ~aborted => accepted \o FlattenSeq(data) = submitted

(* "Put back the unwritten part" (ssl_endpoint.cc:133): the bytes of a     *)
(* slice that the library did not take are still to be written.            *)
UnwrittenPutBack == ~failed => accepted \o FlattenSeq(data) = submitted

(* A write the library refused for now is tried again with the same slice, *)
(* as it demands, also when a read has used the connection meanwhile       *)
(* (ssl_endpoint.cc:155-158).                                              *)
RetryIsSame == retry # <<>> => stage["write"] # "idle" /\ Head(data) = retry

(* Two operations that wait together do not lose each other's event: the   *)
(* descriptor is armed for both, or an event of one of them is on its way  *)
(* to it, whichever directions they wait for and however often one of them *)
(* was called and pushed again (ssl_endpoint.cc:90-102, 155-170;           *)
(* poll_engine.cc:42-61).  One that waits alone can lose its event to the  *)
(* other one that was answered.                                            *)
WaitTogether ==
  (\A o \in Ops : stage[o] = "waiting") =>
    WaitingFor \subseteq armed \/ WaitingFor \cap fired # {}
=============================================================================
