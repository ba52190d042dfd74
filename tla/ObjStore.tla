------------------------------ MODULE ObjStore ------------------------------
(***************************************************************************)
(* The object store's methods (minion/obj_store/obj_store.cc): Write,      *)
(* Read, Delete and Hash on a file per object, one system call per step.   *)
(*                                                                         *)
(* One thread serves the completion queue, so a request is handled to its  *)
(* end before the next; but the process may stop between two calls, and    *)
(* what it did to the file stays.  A client that was refused, or lost its  *)
(* server, may send the same request again.  The handlers are modelled as  *)
(* handle_request states them; see UnaryHandler for what keeps them from   *)
(* being called.                                                           *)
(***************************************************************************)
EXTENDS Integers, Sequences, FiniteSets, SequencesExt

CONSTANTS
  Objects,      \* object ids
  Requests,     \* [op, id, offset, data] for "Write", [op, id, offset, len] for
                \* "Read" and "Hash", [op, id] for "Delete"
  Bytes,        \* what a file's bytes can be
  Missing,      \* the content of an object without a file
  Zero,         \* the byte a hole is read as
  MaxSize,      \* file size (bound)
  Chunk,        \* kChunk of the hash loop
  MaxAlloc,     \* longest buffer a read can allocate
  MaxTries,     \* times a client sends the same request (bound)
  MaxAsks       \* requests of the client (bound)

ASSUME ChunkAssumption == Chunk \in Nat \ {0}
ASSUME BytesAssumption == Zero \in Bytes /\ Missing \notin Seq(Bytes)
ASSUME RequestsAssumption ==
  \A r \in Requests :
    /\ r.op \in {"Write", "Read", "Hash", "Delete"} /\ r.id \in Objects
    /\ r.op # "Delete" => r.offset \in Int
    /\ r.op = "Write" => r.data \in Seq(Bytes)
    /\ r.op \in {"Read", "Hash"} => r.len \in Int

VARIABLES
  files,        \* object -> bytes, or Missing
  pc,           \* "idle", "open", "seek", "data", "answer"; "lost" after a stop
  req,          \* the request being handled, or the last one
  pos,          \* the descriptor's offset
  got,          \* Read: bytes read; Hash: bytes hashed
  answer,       \* "none", "OK" or "FAILED"
  base,         \* history: the objects when the request was first sent
  tries, asks   \* history: times this request was sent, requests so far

vars == <<files, pc, req, pos, got, answer, base, tries, asks>>

NoRequest == [op |-> "none"]

Init ==
  /\ files = [o \in Objects |-> Missing]
  /\ pc = "idle" /\ req = NoRequest /\ pos = 0 /\ got = <<>> /\ answer = "none"
  /\ base = files /\ tries = 0 /\ asks = 0

Content(o) == IF files[o] = Missing THEN <<>> ELSE files[o]

(* Bytes written over a content at a position; a hole reads as zeros. *)
Overlay(content, at, data) ==
  IF data = <<>> THEN content
  ELSE [i \in 1..(IF at + Len(data) > Len(content) THEN at + Len(data) ELSE Len(content)) |->
          IF i > at /\ i <= at + Len(data) THEN data[i - at]
          ELSE IF i <= Len(content) THEN content[i] ELSE Zero]

-----------------------------------------------------------------------------
(* The client                                                              *)

Ask(r) ==
  /\ pc \in {"idle", "lost"} /\ asks < MaxAsks
  /\ pc' = "open" /\ req' = r /\ answer' = "none"
  /\ base' = files /\ tries' = 1 /\ asks' = asks + 1
  /\ pos' = 0 /\ got' = <<>>
  /\ UNCHANGED files

(* The same request again, after FAILED or no answer. *)
AskAgain ==
  /\ pc = "lost" \/ (pc = "idle" /\ answer = "FAILED")
  /\ tries < MaxTries
  /\ pc' = "open" /\ answer' = "none" /\ tries' = tries + 1
  /\ pos' = 0 /\ got' = <<>>
  /\ UNCHANGED <<files, req, base, asks>>

-----------------------------------------------------------------------------
(* The handlers                                                            *)

Respond(result) == answer' = result /\ pc' = "answer"

OpenTruncates ==                \* faulty: O_TRUNC
  /\ pc = "open" /\ req.op # "Delete"
  /\ \/ Respond("FAILED") /\ UNCHANGED files
     \/ /\ req.op = "Write" \/ files[req.id] # Missing
        /\ files' = [files EXCEPT ![req.id] = IF req.op = "Write" THEN <<>> ELSE @]
        /\ pc' = "seek" /\ UNCHANGED answer
  /\ UNCHANGED <<req, pos, got, base, tries, asks>>

(* open: a write creates the file, and leaves it there whatever follows.   *)
(* Any open may fail.                                                      *)
Open ==
  /\ pc = "open" /\ req.op # "Delete"
  /\ \/ Respond("FAILED") /\ UNCHANGED files
     \/ /\ req.op = "Write" \/ files[req.id] # Missing
        /\ files' = [files EXCEPT ![req.id] = Content(req.id)]
        /\ pc' = "seek" /\ UNCHANGED answer
  /\ UNCHANGED <<req, pos, got, base, tries, asks>>

Unlink ==
  /\ pc = "open" /\ req.op = "Delete"
  /\ \/ Respond("FAILED") /\ UNCHANGED files
     \/ /\ files[req.id] # Missing
        /\ Respond("OK") /\ files' = [files EXCEPT ![req.id] = Missing]
  /\ UNCHANGED <<req, pos, got, base, tries, asks>>

(* Where seek_ok puts the offset: from the start, or for a negative one    *)
(* from the end, -1 being the end itself.  Below 0 lseek fails.            *)
SeekFromLast(offset, size) ==   \* faulty: -1 is the last byte
  IF offset >= 0 THEN offset ELSE size + offset

SeekTo(offset, size) == IF offset >= 0 THEN offset ELSE size + offset + 1

Seek ==
  /\ pc = "seek"
  /\ LET to == SeekTo(req.offset, Len(Content(req.id)))
     IN  IF to < 0 THEN Respond("FAILED") /\ UNCHANGED pos
         ELSE pos' = to /\ pc' = "data" /\ UNCHANGED answer
  /\ UNCHANGED <<files, req, got, base, tries, asks>>

AnyWriteIsOk(n) == IF n >= 1 \/ req.data = <<>> THEN "OK" ELSE "FAILED"   \* faulty

(* write puts n of the bytes, possibly none; anything but all of them is   *)
(* FAILED, with the bytes in the file.                                     *)
WriteAnswer(n) == IF n = Len(req.data) THEN "OK" ELSE "FAILED"

WriteData ==
  /\ pc = "data" /\ req.op = "Write"
  /\ \/ Respond("FAILED") /\ UNCHANGED files
     \/ \E n \in 0..Len(req.data) :
          LET content == Overlay(files[req.id], pos, SubSeq(req.data, 1, n))
          IN  /\ Len(content) <= MaxSize
              /\ files' = [files EXCEPT ![req.id] = content]
              /\ Respond(WriteAnswer(n))
  /\ UNCHANGED <<req, pos, got, base, tries, asks>>

(* What one read of `want` bytes returns: some of what is there, nothing   *)
(* at the end of the file.                                                 *)
Readable(want) ==
  LET rest == SubSeq(Content(req.id), pos + 1, Len(Content(req.id)))
      most == IF Len(rest) < want THEN Len(rest) ELSE want
  IN  IF most = 0 THEN {<<>>} ELSE {SubSeq(rest, 1, n) : n \in 1..most}

(* A single read.  The end of the file and an error are FAILED; a length   *)
(* of 0 or less is OK with no content.                                     *)
ReadData ==
  /\ pc = "data" /\ req.op = "Read" /\ req.len <= MaxAlloc
  /\ \/ req.len <= 0 /\ Respond("OK") /\ UNCHANGED <<pos, got>>
     \/ /\ req.len > 0
        /\ \E b \in Readable(req.len) :
             /\ got' = b /\ pos' = pos + Len(b)
             /\ Respond(IF b = <<>> THEN "FAILED" ELSE "OK")
     \/ req.len > 0 /\ Respond("FAILED") /\ UNCHANGED <<pos, got>>
  /\ UNCHANGED <<files, req, base, tries, asks>>

(* std::string data(to_read): nothing catches what the allocation throws.  *)
ReadTooLong ==
  /\ pc = "data" /\ req.op = "Read" /\ req.len > MaxAlloc
  /\ pc' = "lost"
  /\ UNCHANGED <<files, req, pos, got, answer, base, tries, asks>>

(* SSLHasher's constructor looks the digest up into a variable of its own  *)
(* and leaves its member `md` unset; start and digest_size use the member. *)
(* Whatever it holds, the digest may work, fail, or stop the process.      *)
HashDigest ==
  /\ pc = "data" /\ req.op = "Hash" /\ got = <<>>
  /\ \/ Respond("FAILED")
     \/ pc' = "lost" /\ UNCHANGED answer
  /\ UNCHANGED <<files, req, pos, got, base, tries, asks>>

(* remaining: what is left of data_len; 0 stands for "to the end". *)
Remaining == IF req.len > 0 THEN req.len - Len(got) ELSE 0

HashSpins ==                    \* faulty: an early end of the file is read again
  /\ pc = "data" /\ req.op = "Hash"
  /\ req.len > 0 => Remaining > 0
  /\ \E b \in Readable(IF req.len > 0 /\ Remaining < Chunk THEN Remaining ELSE Chunk) :
       /\ got' = got \o b /\ pos' = pos + Len(b)
       /\ IF b = <<>> /\ req.len <= 0 THEN Respond("OK") ELSE UNCHANGED <<pc, answer>>
  /\ UNCHANGED <<files, req, base, tries, asks>>

HashWholeChunks ==              \* faulty: reads a chunk whatever is left
  /\ pc = "data" /\ req.op = "Hash"
  /\ req.len > 0 => Remaining > 0
  /\ \E b \in Readable(Chunk) :
       /\ got' = got \o b /\ pos' = pos + Len(b)
       /\ IF b # <<>> THEN UNCHANGED <<pc, answer>>
          ELSE Respond(IF req.len > 0 THEN "FAILED" ELSE "OK")
  /\ UNCHANGED <<files, req, base, tries, asks>>

(* One turn of the loop.  With a length the end of the file comes too      *)
(* early: FAILED; without one it is the end of the hash.                   *)
HashChunk ==
  /\ pc = "data" /\ req.op = "Hash"
  /\ req.len > 0 => Remaining > 0
  /\ \E b \in Readable(IF req.len > 0 /\ Remaining < Chunk THEN Remaining ELSE Chunk) :
       /\ got' = got \o b /\ pos' = pos + Len(b)
       /\ IF b # <<>> THEN UNCHANGED <<pc, answer>>
          ELSE Respond(IF req.len > 0 THEN "FAILED" ELSE "OK")
  /\ UNCHANGED <<files, req, base, tries, asks>>

HashEnd ==
  /\ pc = "data" /\ req.op = "Hash" /\ req.len > 0 /\ Remaining <= 0
  /\ Respond("OK")
  /\ UNCHANGED <<files, req, pos, got, base, tries, asks>>

(* A read error in the loop is FAILED like the early end. *)
HashError ==
  /\ pc = "data" /\ req.op = "Hash" /\ Respond("FAILED")
  /\ UNCHANGED <<files, req, pos, got, base, tries, asks>>

Reply ==
  /\ pc = "answer" /\ pc' = "idle"
  /\ UNCHANGED <<files, req, pos, got, answer, base, tries, asks>>

(* The process stops and is started again; the files stay. *)
Stop ==
  /\ pc \in {"open", "seek", "data", "answer"}
  /\ pc' = "lost" /\ answer' = "none"
  /\ UNCHANGED <<files, req, pos, got, base, tries, asks>>

(* What the serving thread does unless an error or the digest stops it. *)
Work == Open \/ Unlink \/ Seek \/ WriteData \/ ReadData \/ ReadTooLong
          \/ HashChunk \/ HashEnd \/ Reply

Next == (\E r \in Requests : Ask(r)) \/ AskAgain \/ Work \/ HashDigest \/ HashError \/ Stop

(* The loop of the serving thread goes on; nothing is assumed of the client, *)
(* of errors or of stops.                                                    *)
LiveSpec == Init /\ [][Next]_vars /\ WF_vars(Work)

-----------------------------------------------------------------------------
(* Properties                                                              *)

Before(o) == IF base[o] = Missing THEN <<>> ELSE base[o]

Answered(op) == pc \in {"answer", "idle"} /\ req.op = op /\ answer = "OK"

(* However often a positional write was cut short, refused, lost with the  *)
(* process and sent again, once it is OK the object is what a single write *)
(* would have made of it, holes included (obj_store.cc:69-84).             *)
RetryHeals ==
  Answered("Write") /\ req.offset >= 0 =>
    Content(req.id) = Overlay(Before(req.id), req.offset, req.data)

(* An append (offset -1) that is OK ends the object with its data and      *)
(* keeps what was there; what lies between are the attempts that did not   *)
(* say so, each a beginning of the data (obj_store.cc:21-30, 77-84).       *)
AppendKeepsAll ==
  Answered("Write") /\ req.offset = -1 =>
    /\ IsPrefix(Before(req.id), Content(req.id))
    /\ IsSuffix(req.data, Content(req.id))
    /\ Len(Content(req.id)) \in Len(Before(req.id)) + Len(req.data)
                               ..Len(Before(req.id)) + tries * Len(req.data)

(* A request that fails or is lost half way damages nothing but the range  *)
(* it was to write: outside it, and in every other object, the bytes are   *)
(* those from before the first attempt; reads and hashes write nothing.    *)
DamageIsLocal ==
  \A o \in Objects :
    \/ files[o] = base[o]
    \/ o = req.id /\ req.op = "Delete" /\ files[o] = Missing
    \/ /\ o = req.id /\ req.op = "Write"
       /\ \A i \in 1..Len(Before(o)) :
            \/ i <= Len(Content(o)) /\ Content(o)[i] = Before(o)[i]
            \/ LET from == SeekTo(req.offset, Len(Before(o)))
               IN  i > from /\ i <= from + tries * Len(req.data)

(* An OK read returns bytes from the place asked for, at least one and at  *)
(* most len of them; an OK hash is of exactly the len bytes from there, or *)
(* of all up to the end, however the kernel splits the reads               *)
(* (obj_store.cc:117-126, 196-220).                                        *)
AnswerIsTheRange ==
  \A op \in {"Read", "Hash"} : Answered(op) =>
    LET from == SeekTo(req.offset, Len(Content(req.id)))
        rest == SubSeq(Content(req.id), from + 1, Len(Content(req.id)))
    IN  CASE req.len > 0 /\ op = "Hash" -> got = SubSeq(rest, 1, req.len) /\ Len(got) = req.len
          [] req.len > 0 /\ op = "Read" -> got # <<>> /\ IsPrefix(got, rest) /\ Len(got) <= req.len
          [] OTHER -> got = IF op = "Hash" THEN rest ELSE <<>>

(* Every request is answered unless the process stops: no length or offset *)
(* makes a loop of the handlers go on for ever (obj_store.cc:202-220).     *)
RequestsEnd == (pc = "open") ~> (pc \in {"idle", "lost"})
=============================================================================
