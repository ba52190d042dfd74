# dist-storage: a verification development

TLA+ models of dist-storage, TLC runs that check them on small instances, and
theorems about them that TLAPS proves for instances of any size. Paths below are
relative to the repository; line numbers are those of the modelled commit.
`PROJECT.json` is the machine-readable index: which definition models which
lines, which run checks which property, and which faulty variant of the code
each property rejects.

## The system

dist-storage is a set of small gRPC servers ("minions") and the libraries they
share, and the front end of a query planner. What is hard in the servers is the
order of events: completions of asynchronous operations, several streams on one
thread, several threads on one descriptor, connections that are cancelled while
they are made. Only the object store persists anything, its files, and only
there does a stop of the process between two calls leave something behind. What
is hard in the planner is that the graph goes on meaning what the text says.

| part | state | operations | hard to test |
| --- | --- | --- | --- |
| **completion-queue handlers** (`common/grpc/callback.h`) | a handler object per RPC: its phase, the operations gRPC holds with it as their tag | `process` for each completion; clone the next acceptor; destroy itself | a handler must emit another event or destroy itself on every path; it must not be destroyed while it is a tag |
| **resource guard** (`minion/resource_guard`) | per stream the bill accumulated and the operation expected next | take a message, bill it, acknowledge it, finish | failures between billing and acknowledging; sessions side by side; clients that vanish |
| **message service, streams** (`minion/message/message_stream.cc`, `stream_router.cc`, `recipient_dispatch.cc`) | per stream a queue of outgoing messages, flags, the registered peer; the registry from peers to streams | authenticate, register, route to another stream, write the queue, close, reject | a read and a write outstanding at once; one stream changing another; reconnection; destruction |
| **message service, unary RPCs** (`message_send.cc`, `tell_my_addr.cc`) | one request | signalled hole punch; report the caller's address | see *unary handlers* below |
| **object store** (`minion/obj_store`) | files | Write, Read, Delete, Hash | short writes and reads, offsets beyond both ends, stops and retries |
| **authentication store** (`common/peer`) | known authorities and peers under a mutex | `push`, `push_authority`, `has`, `validate_message`, `sign_message` | a key used after the mutex is released; renewed certificates |
| **node resolver** (`common/grpc/resolver.cc`) | a flag, a reserved socket, a signalling RPC in flight | start, re-resolve, shut down; the RPC's late answer | answers after a shutdown; a resolution that ends without a result |
| **hole punch event engine** (`common/grpc/engine.cc`) | cancellation flags of running attempts, the active listener | connect on a thread of its own, cancel, listen, inject | cancellation racing completion; the socket that travels from resolver to thread |
| **TCP hole punching** (`common/net/tcpv4.cc`) | sockets | simultaneous open with retries; reserve a random port | descriptors given away too early; the retry counter |
| **poll engine** (`common/utils/poll_engine.cc`) | watchers under a mutex, one-shot registrations in the kernel, a wake-up descriptor | push, poll, pop from any thread | events and pushes between the steps of a poll; two watchers of one descriptor |
| **TLS endpoint** (`common/grpc/ssl_endpoint.cc`) | a TLS connection under a mutex, the buffer of a write | read and write, retried through the poll engine | reader and writer on one descriptor, handshakes that turn the direction round, slices taken in part |
| **query planner** (`minion/planner/query`) | an expression graph | rewriting rules, walks, hashes | rules that change a meaning, shared arguments, renumbering |
| **SQL parser** (`minion/planner/parse`) | a graph under construction, scopes of aliases | a visitor per grammar rule | nested scopes, chained comparisons |
| **storage indices** (`common/storage`) | arrays | binary and interpolated search, insertion, hashing | in no build target |
| **cache, task runner, reference counts** (`common/utils`) | templates nothing instantiates | | |

How they interact. Each server has one completion queue and one thread
(`resource_guard.cc:155`, `message.cc:60`, `obj_store.cc:247`) that calls
`process` on the handler a completion is tagged with and then destroys the
handlers that asked for it. Streams of the message service reach each other by
`route_to_recipient`, a call on the same thread that changes another handler.
The resolver's result carries a socket in a channel argument to
`HolePunchEventEngine::Connect`, which starts a detached thread. Endpoints
leave callbacks in the poll engine.

What the source says about itself and the models take as given:

* No main calls `Shutdown`, but every handler has a path for a completion with
  `ok == false`; the models let the server shut down at any time.
* Nothing in the repository puts a peer into the message server's `AuthStore`,
  nor gives it a signing key: the shipped server rejects every stream message
  and signs nothing. `MessageStream` takes the known peers as a constant and
  `NodeConnect` assumes that signing succeeds, as in a program that embeds
  these parts.
* `FinishResolution` never fills in the parameters of the connection
  (`resolver.cc:118-120`), so `tcpv4_hole_punch` throws before it opens a
  socket and each attempt that is not cancelled first ends as *unavailable*.
  `NodeConnect` models that, not the connection that would follow. Lines
  `engine.cc:31-63` and the loop of `tcpv4_hole_punch` are unreachable from
  `Connect`.
* A unary handler never reaches `handle_request` (first finding below).
  `ObjStore` models the four `handle_request` of the object store as they are
  written, for a program in which they are called.
* The engine creates an endpoint so that its first wait throws, and nothing calls
  `PollEngine::poll`: `message.cc:34` makes the poll engine, and the loop of main
  only waits for completions (findings below). `Endpoint` and `PollEngine` model
  the classes as they are written, with an owner to share and with threads that
  may poll; nothing is claimed that needs a thread to do so.
* Only the construction of the graph and `fillDFIds` have a caller. The rules
  and walks are tried by `QueryPlanner` on every graph the parser builds, in
  every order, as a planner that used them might.
* The shipped planner never fills `db_schema` (`parse_query.cc:221`), so every
  table it is asked for is unknown to it. The models give it a schema of two
  tables.

## The modules

| module | what it is |
| --- | --- |
| `ResourceLedger` | abstract: what the resource guard promises a billing client |
| `LimitSession` | the resource guard: handlers, completion queue, clients; refines `ResourceLedger` |
| `LimitSession_proofs` | its theorems |
| `MessageStream` | the streams of the message service with registry, dispatch and authentication |
| `UnaryHandler` | the state machine of every unary RPC |
| `PollEngine` | the poll engine, the kernel's one-shot registrations, any number of threads |
| `NodeConnect` | resolver and event engine, composed by the socket that travels between them |
| `ObjStore` | the object store's four methods on files, with stops and retries |
| `AuthStore` | peers and authorities, one critical section per step, any number of threads |
| `Endpoint` | a read and a write on one TLS connection, its library and poll engine |
| `QueryGraph` | the graph and the operators that build it |
| `QueryRules` | the rewriting rules of `rules.h` |
| `QueryWalks` | the walks of `graph.h`: numbering, compaction, edge lists, hashes |
| `QuerySemantics` | the reference: what an operation means on integers and NULL |
| `SqlVisitor`, `SqlStatements` | the visitor of the syntax tree: expressions; SELECT, UNION, WITH |
| `QueryPlanner` | composes the graph, the rules, the walks and the reference: from what a visit returns to a rewritten and compacted graph |
| `QueryText` | the planner on syntax trees: what the visitor returns for each, and what their text means |
| `X_proofs` | the theorems about module `X`; `ObjStore_proofs` has those about `UnaryHandler` too |
| `MCX` | an instance of `X` for TLC |

### Handlers and completions

In the three handler models a handler is a memory identity: *free*, waiting
for an RPC, serving one. `ops[h]` (or `sess[h].ops`) is the set of operations
issued with `h` as their tag and not completed. An action `Completion(h)`
chooses one of them and an `ok` that gRPC may deliver with it, and does
everything `process` does, up to and including the deferred destruction that
the loop runs before it takes the next event. `process` is not told which
operation completed: it dispatches on the handler's fields, and so do the
models. That is what makes `OneEventPerHandler` a question and not a
definition.

A completion that needs memory for a clone is delivered when an identity is
free: the bound on `Handlers` is the bound on memory, and a destroyed handler's
identity is used again, so that a pointer which outlived it would be seen
reaching somebody else.

`LimitSession`: `phase` is `stream_connect_phase_`, `pending` is `pending_`,
`bill` is `res_request_` (amounts are integers where the code has doubles; the
properties only add them). `inbox` and `client` are the other end of the
stream, `taken` and `acks` are history.

`MessageStream`: a record per handler with the fields of
`MessageStreamHandler`. A message is its sender, its recipient, and whether
its signature verifies and its payload parses. `ref` is `self_ref_`; a handler
lives while it or the registry refers to it (`Held`). Where the program's
behaviour stops being defined the record's `ub` says why and nothing happens
any more. All three ways are reached and all are findings: an operation asked for
while the same one is outstanding, a `pop_front` of an empty queue, a handler
destroyed while it is a tag. The properties of `message_stream` say what holds up
to there. `Self` stands for an empty recipient and for the node's own id, which
dispatch treats alike.

A message is validated when it is read and once more when it is routed, by a
verifier that keeps one context for all messages (see *AuthStore*), so either
verdict may refuse a genuine one (`Verdicts`), though none accepts another. The
verifier also serves the unary calls, so the first message of a stream is no
exception. An exception of the library ends the process and is a behaviour
that goes no further.

`UnaryHandler`: the integer `state` of `GRPCBasicHandler` as it is, for several
methods on one queue. Its specification is `HandlerInit` and `HandlerNext`, so
that `ObjStore_proofs` can extend it beside `ObjStore`.

### PollEngine

`watcher` says for each call of `push` where its callback is: in the map
(`waiting`, or `failed` if the push threw after it was put there), in a
thread's list (`taken`), `called`, or `dropped` by `pop`. `armed` is the
kernel's registration. `poll` is three actions, `EpollWait`, `Take` (under the
mutex) and `Call` per callback, because other threads push and pop between
them. An error or a hang-up is reported whether or not it was asked for
(`Troubled`), and disarms the descriptor without matching a watcher; `erred`
remembers where that happened. `Wake` is an action because `push` writes the wake-up after it has
released the mutex. A popped descriptor is closed and its number used again.

### NodeConnect

The resolver's handlers are atomic: gRPC's work serializer runs them one at a
time. The RPC's completion (`CallDone`) is a step of its own and the handler of
its status another, so that a shutdown can come between them. `Connect`,
`CancelConnect` in its two steps, and the connecting thread in its three
interleave freely. `Holders(f)` collects who refers to a socket.

### ObjStore

One thread serves requests, so a request is handled to its end before the next,
but each system call is a step: `Stop` ends the process between any two and
leaves the files as they are. `files` is what the disk holds, `pos` the
descriptor's offset, `got` what has been read or hashed. `write` may put any
beginning of the data, `read` may return any beginning of what is there, and
each call may fail. A client may send a request again when it was refused or
heard nothing; `base` remembers the objects from before the first attempt.

### AuthStore

`thread[t].pc` is how far an operation has come, and one action is one critical
section (or one verification outside it). A peer's id is the hash of its public
key, so the two are one value. `freed` and `tainted` follow what happens when a
push verifies with a key that another thread has just replaced. `used` says
whose verifier has had a message: its context was initialised once
(`sgn.cc:65`), and from the second message on a good signature may be refused
(`Verified`). Any verification may also throw, which ends the operation without
a result.

### Endpoint

`stage[o]` is where the read or the write is: trying, about to push its watch,
waiting, or taken by a poll. The TLS library is modelled by what it wants: with
a handshake in progress (`shake`) a write may wait for input and a read for
room. The library remembers the slice it refused (`retry`) and demands the same
one. `armed` and `fired` are the poll engine's one-shot registration, as in
`PollEngine`, reduced to one descriptor; an error is an event in every direction
asked for, as it is of a TCP socket. A slice taken whole is followed by the next
(`WriteSlice`); one taken in part ends the process (`WritePart`, `aborted`),
because the rest is cut with the slice's size for its length
(`ssl_endpoint.cc:134`) and gRPC checks that.

### The planner

A graph is a sequence of nodes, each with its operation, name, constant, data
frame and arguments (`graph_mapping`), numbered from 0 as in the code. The
visitor's methods are operators from a state (graph, scopes, error) to a state,
composed in the order of the code; a thrown error keeps the graph as far as it
was built. `QueryRules` returns the graph with what was appended, also when it
throws, because the code appends clones before it tests. `QueryPlanner` takes
what the visits return as the parameter `Visits`, so that it can be reasoned
about without the recursion over the syntax tree; `QueryText` fixes it to what
the visitor makes of `Queries` (`VisitsAssumption`). The recursion of
`fillVisited` is modelled by the calls it makes, one after the other, a call's
own before those that wait; `fillNodeHashes` goes node by node, a node not yet
hashed counting as nothing. Hashes are modelled as
the term of what is hashed: two are equal exactly if the code hashes the same
numbers in the same order, so equality says nothing of chance collisions.
`visitedNodesOrder` uses an unstable sort: both extreme orders are tried.

## What the runs check

Deadlock is checked in `auth_store`, whose threads can always go on (it has
none), and not in the others: once the clients are gone, the bounded inputs
are used up or the process has stopped, these systems legitimately stop.

| run | instance | distinct states | shows |
| --- | --- | --- | --- |
| `limit_session` | 3 handlers (two sessions and the acceptor), messages of all four kinds on two resources, 2 per session | 192,783 | completion contract, one acceptor, acknowledgements count bills, the bill is the last overwrite and the appends after it, refinement of `ResourceLedger` |
| `limit_session_live` | the same without symmetry, two kinds of message | 60,271 | sessions end |
| `message_stream` | 3 handlers, 2 known peers and one never seen, 5 kinds of message, 3 sent in all, any of them refused | 384,384 | only authentic messages, only to streams of their recipient, no idle queue, nothing after finish |
| `unary_handler` | 5 handlers, 2 methods | 2,700 | each method keeps exactly one acceptor |
| `poll_engine` | 2 polling threads, 3 pushes, a descriptor number used again, errors of the descriptor, batches of 2 | 1,242,692 | callbacks run once; a wait is lost only beside a watcher for other events or to an error nobody asked for |
| `node_connect` | 2 resolutions, 3 attempts, 3 sockets | 3,000 | one owner per socket, one answer per attempt, a false from `CancelConnect` is true, late answers find their socket |
| `obj_store` | 2 objects, 35 requests at, over and past both ends of a file, 3 requests of 2 attempts each, chunks of 2 bytes | 279,102 | an OK write is a whole write whatever came before it, an append keeps all, a failure damages its range only, an answer is of the bytes asked for, every request ends |
| `auth_store` | 2 peers, 2 authorities, 3 keys, 2 threads, verifiers used again | 125,321 | who is admitted and whose messages are accepted, between any two critical sections |
| `endpoint` | 2 reads, 2 writes of two slices, 2 bytes of the peer's, a handshake, buffers of 2 | 170,232 | bytes in order and once, the same slice after a refusal, two that wait together do not lose each other's event |
| `query_planner` | 67 queries over two tables, 2 rules tried per graph, four values for a column | 29,919 | parsing order, scopes, one node per table, meaning of text, graph and rewritten graph, compaction, orders, hashes |

Why the bounds are enough. Sessions of the resource guard meet only in the
memory they use and in the making of acceptors, so two sessions and an acceptor
show every interaction, and the theorems cover any number. Two messages per session suffice for every
pair (append or overwrite, then another; anything, then finish). In
`message_stream` three messages let two senders share a stream, its identity be
freed or kept by the registry, and a third message be routed to what is left:
the faulty variants of `Held` and `ReadClosed` need exactly that. In
`poll_engine` descriptors do not interact except through the batch, which one
descriptor and the wake-up fill. In `obj_store` an attempt, another one and a
request in between on the same object are the shortest history in which a
retry could spoil anything; data of two bytes can be cut, and a file of five
has room for a hole, an overlap and an append. In `auth_store` three keys let
an authority change its key while a push holds the old one and another
authority keeps its own; the theorems cover the rest. In `endpoint` two
operations of each kind let one end while the other waits and begin again,
and two slices, one of two bytes, are taken whole or in part, refused and
followed. In
`query_planner` each clause and each kind of expression is varied around one
SELECT and nested once; two rules in a row reach what a rule leaves for
another, and the values 0, 1, 2 and NULL tell truth, number and absence apart.

Every property comes with a faulty variant of a modelled definition, marked
`\* faulty` in the modules, under which TLC finds it violated. They are plausible mistakes
(an early return dropped, a field not reset, a plain pointer where a shared one
is needed) and document what each property guards.

### Fairness

* `LimitSession!FairSpec`: weak fairness of `Answered(h)` for each handler, the
  completions other than the arrival of a new RPC. gRPC delivers the completion
  of each operation it can complete, and the loop of main takes every event; no
  client is obliged to connect, to send, to close or to leave. `SessionsEnd`
  says that a session ends *once its client has stopped*, which is all the code
  can promise.
* `ObjStore!LiveSpec`: weak fairness of `Work`, the steps of the serving thread,
  which nothing else can block. No client is obliged to do anything and nothing
  is assumed of errors or stops. `RequestsEnd` says that no length or offset
  makes a loop of the handlers go on for ever.

`Endpoint` has none: that a read or a write is ever answered needs a thread that
polls, and the repository has none. Its properties are safety properties.

### What the models found

Two runs end with a counterexample that contradicts a comment of the source:

1. `unary_contract`: `callback.h:15` requires `process` to emit another event or
   destroy the handler. In state 1 `GRPCBasicHandler::process` clones the next
   acceptor and returns, without an operation outstanding. It is never called in state
   2: no unary RPC is handled, and each leaves a handler behind.
2. `message_stream_registry`: `stream_router.h:21`, "Registry of open stream
   sessions by peer id". A stream that closes unregisters its peer even if the
   peer has registered a newer stream, which is then open and unreachable.

Six more have a configuration of their own, to be run by hand:

3. `MessageStreamTeardown.cfg` (with `MCMessageStream`): `message_stream.cc:36`,
   `self_ref_` keeps the handler alive until teardown. A stream is rejected, and
   Finish started, whatever else is outstanding; once the Finish is done the
   handler is destroyed while gRPC holds it as the tag of the other operation.
4. `MessageStreamEvent.cfg` (`MCMessageStream`): `callback.h:15` again.
   `pending_` is one field for a read and a write outstanding at once; when the
   write's completion is taken for a failed read, the stream waits for a write
   that has completed.
5. `PollEngineWait.cfg` (`MCPollEngine`): `ssl_endpoint.cc:140`, "Schedule wait
   for socket to be writable". The event of one watcher disarms the descriptor
   for the other; `poll` does not arm it again. `LostOnlyBesideOther` says that
   this is the only way a wait is lost, errors nobody asked for apart.
6. `NodeConnectStart.cfg` (`MCNodeConnect`): `resolver.cc:167` asks for a report
   when no port can be reserved; the code only returns, and the report in
   `StartHolePunching` is behind a condition that cannot hold there.
7. `AuthStoreReuse.cfg` (`MCAuthStore`): `message.h:15`, "known sender, valid
   signature". A message its known sender signed is taken for badly signed
   because the verifier's context still holds what it was given before.
8. `EndpointPartial.cfg` (`MCEndpoint`): `ssl_endpoint.cc:133`, "Put back the
   unwritten part". The part is asked for with the slice's size as its length;
   gRPC's check stops the process, and the bytes are neither sent nor kept.
   `SSL_MODE_ENABLE_PARTIAL_WRITE` makes that the ordinary course of a slice
   larger than a record.

The others were met while the code was translated. The models do what the code
does, so that a property either holds in spite of them or names the exception;
`PROJECT.json` has each with its line.

* Endpoint and engine: an owner that cannot be shared (`engine.cc:60`), a
  descriptor given away before it is used (`engine.cc:41`, `tcpv4.cc:201`),
  waits that the other operation spends (`ssl_endpoint.cc:165`; `WaitTogether`
  says what is left), a poll engine nobody polls (`message.cc:34`).
* Message streams: a Read started while a Read is outstanding
  (`message_stream.cc:156`; `sameOpTwice`), a pop of an empty queue
  (`message_stream.cc:235`; `popOfEmpty`).
* Authentication store: a key used after the lock (`store.cc:67`; `tainted`), a
  renewed certificate dropped (`store.cc:87`), an exception of the verifier that
  nothing catches (`sgn.cc:83`).
* Object store: a digest that is never set (`sgn.cc:89`; `HashDigest`), a length
  that stops the server (`obj_store.cc:118`; `ReadTooLong`).
* Parser: an alias renames the table's column (`parse_query.cc:596`), a
  subquery with a WHERE or ORDER BY has no columns (`graph.h:239`), GROUP is no
  table (`graph.h:125`), what a name means depends on what was read before
  (`parse_query.cc:273`), the operand of IS NULL is lost (399), OFFSET without
  LIMIT reads `operations[-1]` (687), a joined subquery is in the graph twice
  (559), an exception that is not caught (328), a scope that is restored into the
  wrong variable without effect (691), a schema that nothing fills (221).
* Planner: `fillDFIds` does not reach columns or expressions (`graph.h:454`), an
  order by depth that is not leaves first when arguments are shared (359), a
  hash that ignores arguments (482), data frames with old ids after compaction
  (436), a merge without a test of the operation (`rules.h:85`), data frame 0
  taken for none (188).

Two more that no property touches: `SSLSigner` passes the buffer's size as 0
to the call that signs, and `sign_message` adds a certificate only if asked and
whatever `has_recipient_cert` says.

## What is proved

`LimitSession_proofs`, for every set of handlers, resources and messages
(assuming `MessagesAssumption`: a message is of one of the five kinds and its
items are a bill; no set need be finite):

* `TypeCorrect`: `Spec => []TypeOK`, from the same invariant as the next.
* `EventContract`: `Spec => []OneEventPerHandler`. The inductive invariant
  `IInv` is `TypeOK` with `OneEventPerHandler`: the types say that the phases
  and operations named are all there are, and each branch of `Process` removes
  the operation completed and issues the one its new `pending` names. Neither
  part is inductive alone, because a completion taken for another one could
  leave any set of operations behind.
* `SingleAcceptor`: `Spec => []OneAcceptor`. `AcceptorInv` adds to `IInv` that no
  two handlers are in phase "Accepted", and that one is while the server is up. A
  connection moves the role to the clone; a failed one only happens after a
  shutdown, when nothing needs to wait any more.
* `AcksExact`: `Spec => []AcksMatchMessages`, by `SessionInv`, which adds to
  `IInv` that free and waiting handlers have no history (`FreshInv`).
* `BillExact`: `Spec => []BillIsHistory`. The bill is a fold over the items of
  all messages since the last overwrite. `SetInduction` below gives what such a
  fold is: the same in any order (`AddsAnyOrder`), an integer, and the sum of the
  folds when a message is appended (`AmountAdd`). `HistoryInv` is the property
  without the folds and is what each completion keeps.
* `LedgerImplemented`: `Spec => ImplementsLedger`. The initial states map to the
  ledger's; a read that bills maps to `Apply`, a successful write to
  `Acknowledge`, a start of Finish to `End`, a destruction to `Close`, a
  connection to `Open` of the handler connected, and every other step to a stutter.

`MessageStream_proofs`, for any handlers, peers and clients. The invariant adds
to the types that an acceptor has issued only its Accept and holds no message
(`AcceptInv`, `OneInv`), that a peer is registered with a stream on which it was
authenticated (`RegistryInv`), that every message in a queue or under way is
genuine and its addressee's (`MsgsInv`), and that a stream that has not been
read yet has nothing else (`UnreadInv`). From it `Acceptance`, `Authenticity`,
`Addressing` and `Types`. None of it depends on completions being taken for the
right operation, which they are not, nor on what a validation answers to a
genuine message (`RouteLemma` and `DispatchLemma` hold for either verdict). `FlowInv` adds what the flow of a stream
rests on: a stream that closes is no longer active, and an active one whose
behaviour is defined reads on and has a Write outstanding if its queue is not
empty (`OpenInv`); a stream nothing was delivered to has exactly the operation
`pending_` names, or none once `self_ref_` is gone (`QuietInv`); and an identity
that is free or waits for a stream carries nothing of its last use (`FreshInv`). From it `NoStall`, `Quietness` and `Finality`
(`Spec => NothingAfterFinish`, a property of steps).

`ObjStore_proofs`, for any objects, bytes, requests, chunk, number of attempts
and size of files. It assumes of the constants that a hole is read as a byte,
that the absence of a file is no content and that a request has the fields its
protocol message has (`BytesAssumption`, `RequestsAssumption`, `ChunkAssumption`);
nothing is assumed of offsets and lengths. The inductive invariant `IInv` says
that only the request's object differs from `base` (`OthersInv`); that after any
number of attempts a positional write has left its object between what it was
and what a single write would make of it, and any other has added at most its
data per attempt behind the place it first wrote to (`WriteInv`); where the
descriptor is and that `got` is the file from the seek up to there (`PlaceInv`);
and what an OK adds to that for each method (`WrittenInv`, `ReadInv`, `HashInv`).
From it `Healing`, `Appending`, `Locality` and `Answers`. The two kinds of write
need different invariants: an append seeks to an end that moves with each
attempt, a positional write does not.

The same module has `Listening`, about `UnaryHandler`: the only operation
outstanding is an Accept in state 1 and each service has one listener.

`PollEngine_proofs`, for any threads, watchers and descriptors: `OneCaller`
(a callback that left the map is on exactly one thread's list), `Losses` (a
waiting watcher is still watched, or beside one for other events that was or is
about to be called, or its descriptor was disarmed by an error; `ArmedInv` is needed because an event can only come from a
registration of the same descriptor since it was opened) and `Types`.

`NodeConnect_proofs`: `Ownership`, `LateAnswer`, `Resolution`, `Answers`,
`Tracking` and `Types`, by `OwnerInv` (port, results and connections hold
different sockets), `CallInv` (the signalling RPC goes with the reservation) and
`CountInv` (results, errors and the RPC in flight make up the resolutions).

`AuthStore_proofs`: `Admission`, `Authentication` and `HonestFlag` (what
`sign_message` claims of the recipient's certificate, `FlagIsRight`, is true),
because what one critical section found out is still so in the next:
keys an authority has had and peers once stored are never taken back.
`Authentication` says both halves of a verdict: what is accepted was signed by
its sender, for any state of the verifier's context, and what a fresh verifier
refuses was not. That a used one may refuse a genuine message is
`GenuinePasses`, violated under `AuthStoreReuse.cfg`.

`Endpoint_proofs`: `SameRetry`, for any payloads of bytes and any number of
handshakes: what the library refused is the head of the buffer until it takes it.
`BytesArrive`, for the same: what was accepted and the buffer make up what was
submitted, until a write fails or a slice is taken in part (`BytesInv`, which adds
that a write that ended well left the buffer empty, without which the next write
would follow something else). It rests on `FlattenFirst`: the bytes of a buffer
are those of its first slice and of the rest. `NoneForgotten`: while both
operations wait, the descriptor is armed for both or an event one of them waits
for has been reported; a poll that takes it calls at least one of them, which
arms for both when it waits again.

`LimitSession_proofs` and `Endpoint_proofs` need induction, and the library's
theorem takes an operator as its parameter, which the provers do not instantiate.
`SetInduction` says it of a set instead (a set that holds 0 and the successor of
each of its numbers holds all), and follows from `WFMin` of
`WellFoundedInduction`, which takes none. A recursive function in a `LET` or
`CHOOSE` of the library is named by a predicate first (`Adds`, `Joins`); existence
and uniqueness are two inductions, and the rest are properties of whatever
satisfies the predicate.

`QueryPlanner_proofs`, for any visits, any number of rewrites, graphs of any size
and any samples of values. The visitor recurs over the syntax tree, which the
prover cannot follow, so that what it returns is a premise: the theorems below
that speak of runs have the form `Spec /\ []ParsingOrder => []P`. `ParsingOrder`
says of the graph a visit returns that its nodes, names and constants are in
their vectors and that arguments were appended before the nodes that use them;
`fillDFIdsWalk` assumes the same in a comment (`graph.h:459`), and TLC checks it
of every query of the run.

The inductive invariant is `PhaseInv /\ GraphInv /\ CompactInv`. Its core says
that the graph being rewritten, and the compacted one, have no cycle
(`Acyclic`: arguments are nodes, and a rank falls from a node to its arguments).
Parsing order itself is not inductive: a rule appends a node whose arguments are
appended after it. Each rule keeps `Acyclic`, because what it appends is made
from nodes of the graph and takes their ranks (`AppendAcyclic`, `RuleGood`). A
rank is what every induction over a graph rests on: that the recursive functions
`ValueIn` and `TermOf` exist and satisfy their equations (`ValueUnfolds`,
`TermUnfolds`), and that two graphs agree on a node.

* `RulesPullSettles`: what `pull_df_apply` returns is settled; from
  `PullSettlesAnywhere`, which says it of any graph, with or without a cycle.
* `RulesPreserveMeaning`: the operators first. `NegationMeans`
  (`getNegatedOperation` negates, in three-valued logic, for any operands),
  `DeMorganMeans` (the dual over negated arguments says the same, for any number
  of arguments), `MergeMeans` (a connective may be merged into one of its
  arguments) and, for arithmetic, the same of sums, products, minima and maxima,
  NULLs included. Then the graphs: `DeMorganClones` and its like say what each
  rule appended, and `DeMorganKeeps`, `ReduceKeeps` and `MergeKeeps` that the node
  returned is worth what the other was, for every value of the columns.
* `CompactionPreservesTerm` and `CompactionPutsLeavesFirst`. `WalkInv` is an
  invariant of the calls of `fillVisited` (what is numbered was reached, and what
  a numbered node calls is numbered or waits), and calls that remain decrease a
  measure, so that `MostCalls` is enough of them (`VisitedReaches`). Sorting nodes
  by a strict order gives each its place (`PlacesNumber`, `DeepestFirst`). So the
  compact graph is a renamed copy of what the root reaches (`CompactCopies`); a
  copy has the terms of the original (`CopyTerms`) and no cycle (`CopyAcyclic`),
  and an argument that only one node uses was numbered one deeper than that node
  (`ArgsComeFirst`).
* `EqualTermsShareHash`: a node's hash is made from those of its arguments where
  they come first (`HashUnfolds`), and the rest is induction over the ids.
* `EdgesSurviveRoundTrip`: the edges of a graph are its rows of arguments one
  after the other (`EdgesAreRows`), pushing a row back gives its node its
  arguments (`PushedRow`), and what is pushed to a node is in its list as often as
  the edge is in the sequence (`PushedCounts`), whichever way round it is read.

The type invariants are proved here and in no run: each `TypeOK`, or the
`TypeInv` of a proof module, is part of the invariant its theorems rest on.

Only model-checked:

* every liveness property (`SessionsEnd`, `RequestsEnd`): liveness
  under fairness is beyond the prover;
* what the visitor makes of a text: `ParsingOrder`, `ScopeIsFrom`,
  `OneNodePerTable` and `QueryMeansItsText`. The visitor and the meaning of a text
  are recursive operators over a syntax tree; the prover has neither arithmetic
  in a module that reaches one nor an induction over trees. `ParsingOrder` is also
  the premise of the planner's theorems.

## Plan

Done: resource guard and ledger, message streams, unary handlers, poll engine,
resolver and engine, object store, authentication store, endpoint, planner and
parser, and the proofs listed above, which cover every invariant of every
run but the four about the visitor.

Left, in this order:

1. The visitor as a function of a sequence of steps instead of a recursion over
   the tree, so that `ParsingOrder` becomes an invariant of its steps and no
   longer a premise; then `OneNodePerTable`.
2. A mailbox per peer as the abstract specification of the message streams, once
   a stream's two operations have fields of their own; one answer per request for
   the unary handlers, once they emit an event.
3. The listener and the hole punch, once `tcpv4.cc:201` lets a punch succeed.
4. The storage indices, once they are in a build.

## Not modelled

* **Listener and hole punch** (`engine.cc:196-269`, `tcpv4.cc`): each incoming
  connection ends in a hole punch that throws (`tcpv4.cc:201`), so the listener's
  pointer and the retries after it have no behaviour to compare a model with.
* **Storage indices and blocks** (`common/storage`): in no CMake target, and one
  file does not parse as C++.
* **Cache, task runner, reference counts** (`common/utils`): templates that
  nothing instantiates and that do not compile when they are.
* **Cryptography and TLS**: a verdict, a direction or an outcome where another
  part asks for one.
* **Text**: addresses, literals, printing, log lines; the grammar's generated
  parser; the protocol definitions, the wrappers of system calls, build files.
* `grpc_loop`, `GRPCCounterHandler` and `MessageStreamRouter::get_channel` have no
  caller.

`PROJECT.json` lists every part with its status and the hazards of the code with
the properties that cover them.

## Running

    tlc -workers 2 -config LimitSession.cfg MCLimitSession.tla
    tlapm LimitSession_proofs.tla

The longest run takes a minute or two, the proofs of the planner some eight.
