--------------------------- MODULE ObjStore_proofs ---------------------------
(***************************************************************************)
(* Theorems about ObjStore, for any objects, requests, contents, chunk     *)
(* size and numbers of attempts; and at the end about UnaryHandler, the    *)
(* handlers that take its requests, for any sets of handlers and services. *)
(***************************************************************************)
EXTENDS ObjStore, UnaryHandler, SequenceTheorems, FiniteSetTheorems, TLAPS

(* The content C that attempts to write d at position at may have made of  *)
(* B: each byte is as it was, or the new one, or in the hole before them.  *)
Between(B, C, at, d) ==
  /\ Len(C) = Len(B) \/ (Len(B) <= Len(C) /\ at < Len(C) /\ Len(C) <= at + Len(d))
  /\ \A i \in 1..Len(C) :
       \/ i <= Len(B) /\ C[i] = B[i]
       \/ at < i /\ i <= at + Len(d) /\ C[i] = d[i - at]
       \/ Len(B) < i /\ i <= at /\ C[i] = Zero

(* The content C that attempts of at most x bytes together may have made   *)
(* of B, at a position counted from the end: what is before the place of   *)
(* the first one, or further than x behind it, is as it was.               *)
Behind(B, C, offset, x) ==
  LET from == Len(B) + offset + 1
  IN  /\ Len(B) <= Len(C) /\ Len(C) <= Len(B) + x
      /\ \A i \in 1..Len(B) : C[i] = B[i] \/ (from < i /\ i <= from + x)

(* The bytes g are those of C behind a position. *)
Taken(g, C, from) ==
  /\ g = <<>> \/ from + Len(g) <= Len(C)
  /\ \A i \in 1..Len(g) : g[i] = C[from + i]

-----------------------------------------------------------------------------
(* The bytes of w are those of d at a position, around it those of c. *)
Laid(w, c, at, d) ==
  /\ w \in Seq(Bytes)
  /\ Len(w) = IF d = <<>> \/ at + Len(d) <= Len(c) THEN Len(c) ELSE at + Len(d)
  /\ \A i \in 1..Len(w) :
       w[i] = IF at < i /\ i <= at + Len(d) THEN d[i - at]
              ELSE IF i <= Len(c) THEN c[i] ELSE Zero

LEMMA OverlayLemma ==
  ASSUME NEW c \in Seq(Bytes), NEW at \in Nat, NEW d \in Seq(Bytes)
  PROVE  Laid(Overlay(c, at, d), c, at, d)
<1> DEFINE w == Overlay(c, at, d)
<1>1. CASE d = <<>>
  BY <1>1 DEF Overlay, Laid
<1>2. CASE d # <<>>
  <2> DEFINE N == IF at + Len(d) > Len(c) THEN at + Len(d) ELSE Len(c)
             e(i) == IF i > at /\ i <= at + Len(d) THEN d[i - at]
                     ELSE IF i <= Len(c) THEN c[i] ELSE Zero
  <2>1. N \in Nat /\ Len(d) \in Nat /\ Len(c) \in Nat /\ Len(d) > 0
    BY <1>2
  <2>2. \A i \in 1..N : e(i) \in Bytes
    <3> TAKE i \in 1..N
    <3>1. CASE i > at /\ i <= at + Len(d)
      <4>1. i - at \in 1..Len(d)
        BY <2>1, <3>1
      <4> QED
        BY <3>1, <4>1
    <3>2. CASE ~(i > at /\ i <= at + Len(d)) /\ i <= Len(c)
      BY <2>1, <3>2
    <3>3. CASE ~(i > at /\ i <= at + Len(d)) /\ ~(i <= Len(c))
      BY <3>3, BytesAssumption
    <3> QED
      BY <3>1, <3>2, <3>3
  <2>3. w = [i \in 1..N |-> e(i)]
    BY <1>2 DEF Overlay
  <2> HIDE DEF N, e, w
  <2>4. w \in Seq(Bytes) /\ Len(w) = N /\ \A i \in 1..N : w[i] = e(i)
    BY <2>1, <2>2, <2>3, IsASeq
  <2>5. Laid(w, c, at, d)
    BY <1>2, <2>1, <2>4 DEF N, e, Laid
  <2> QED
    BY <2>5 DEF w
<1> QED
  BY <1>1, <1>2

LEMMA BetweenStep ==
  ASSUME NEW B \in Seq(Bytes), NEW C \in Seq(Bytes), NEW at \in Nat, NEW d \in Seq(Bytes),
         NEW n \in 0..Len(d), Between(B, C, at, d)
  PROVE  Between(B, Overlay(C, at, SubSeq(d, 1, n)), at, d)
<1> DEFINE p == SubSeq(d, 1, n)
           w == Overlay(C, at, p)
<1>1. /\ p \in Seq(Bytes) /\ Len(p) = n /\ n \in Nat /\ n <= Len(d)
      /\ \A i \in 1..n : p[i] = d[i]
      /\ Len(B) \in Nat /\ Len(C) \in Nat /\ Len(d) \in Nat
  OBVIOUS
<1> HIDE DEF p
<1>2. Laid(w, C, at, p)
  BY <1>1, OverlayLemma
<1> HIDE DEF w
<1>3. Len(w) = Len(B) \/ (Len(B) <= Len(w) /\ at < Len(w) /\ Len(w) <= at + Len(d))
  BY <1>1, <1>2 DEF Between, Laid
<1>4. ASSUME NEW i \in 1..Len(w)
      PROVE  \/ i <= Len(B) /\ w[i] = B[i]
             \/ at < i /\ i <= at + Len(d) /\ w[i] = d[i - at]
             \/ Len(B) < i /\ i <= at /\ w[i] = Zero
  <2>1. CASE at < i /\ i <= at + n
    <3>1. i - at \in 1..n
      BY <1>1, <2>1
    <3>2. w[i] = p[i - at]
      BY <1>1, <1>2, <2>1 DEF Laid
    <3> QED
      BY <1>1, <2>1, <3>1, <3>2
  <2>2. CASE ~(at < i /\ i <= at + n) /\ i <= Len(C)
    <3>1. w[i] = C[i] /\ i \in 1..Len(C)
      BY <1>1, <1>2, <2>2 DEF Laid
    <3> QED
      BY <3>1 DEF Between, Laid
  <2>3. CASE ~(at < i /\ i <= at + n) /\ i > Len(C)
    <3>1. w[i] = Zero /\ i <= at
      BY <1>1, <1>2, <2>3 DEF Laid
    <3>2. Len(B) <= Len(C)
      BY <1>1 DEF Between, Laid
    <3> QED
      BY <1>1, <2>3, <3>1, <3>2
  <2> QED
    BY <1>1, <2>1, <2>2, <2>3
<1>5. Between(B, w, at, d)
  BY <1>3, <1>4 DEF Between, Laid
<1> QED
  BY <1>5 DEF w, p

(* Written in full, what the earlier attempts left does not matter. *)
LEMMA BetweenFull ==
  ASSUME NEW B \in Seq(Bytes), NEW C \in Seq(Bytes), NEW at \in Nat, NEW d \in Seq(Bytes),
         Between(B, C, at, d)
  PROVE  Overlay(C, at, d) = Overlay(B, at, d)
<1> DEFINE w == Overlay(C, at, d)
           v == Overlay(B, at, d)
<1>1. Len(B) \in Nat /\ Len(C) \in Nat /\ Len(d) \in Nat /\ (d = <<>> <=> Len(d) = 0)
  OBVIOUS
<1>2. Laid(w, C, at, d)
  BY OverlayLemma
<1>3. Laid(v, B, at, d)
  BY OverlayLemma
<1> HIDE DEF w, v
<1>4. Len(w) = Len(v)
  BY <1>1, <1>2, <1>3 DEF Between, Laid
<1>5. ASSUME NEW i \in 1..Len(w) PROVE w[i] = v[i]
  BY <1>1, <1>2, <1>3, <1>4 DEF Between, Laid
<1>6. w = v
  BY <1>2, <1>3, <1>4, <1>5, SeqEqual DEF Laid
<1> QED
  BY <1>6 DEF w, v

LEMMA BehindStep ==
  ASSUME NEW B \in Seq(Bytes), NEW C \in Seq(Bytes), NEW offset \in Int, offset < 0,
         NEW d \in Seq(Bytes), NEW n \in 0..Len(d), NEW x \in Nat, Behind(B, C, offset, x),
         NEW at \in Nat, at = Len(C) + offset + 1
  PROVE  Behind(B, Overlay(C, at, SubSeq(d, 1, n)), offset, x + Len(d))
<1> DEFINE p == SubSeq(d, 1, n)
           w == Overlay(C, at, p)
<1>1. /\ p \in Seq(Bytes) /\ Len(p) = n /\ n \in Nat /\ n <= Len(d)
      /\ Len(B) \in Nat /\ Len(C) \in Nat /\ Len(d) \in Nat
  OBVIOUS
<1> HIDE DEF p
<1>2. Laid(w, C, at, p)
  BY <1>1, OverlayLemma
<1> HIDE DEF w
<1>3. Len(B) <= Len(w) /\ Len(w) <= Len(B) + (x + Len(d)) /\ Len(w) >= Len(C)
  BY <1>1, <1>2 DEF Behind, Laid
<1>4. ASSUME NEW i \in 1..Len(B)
      PROVE  \/ w[i] = B[i]
             \/ Len(B) + offset + 1 < i /\ i <= Len(B) + offset + 1 + (x + Len(d))
  <2>1. i \in 1..Len(w) /\ i <= Len(C)
    BY <1>1, <1>2, <1>3 DEF Behind, Laid
  <2>2. CASE at < i /\ i <= at + n
    BY <1>1, <2>2 DEF Behind, Laid
  <2>3. CASE ~(at < i /\ i <= at + n)
    <3>1. w[i] = C[i]
      BY <1>1, <1>2, <2>1, <2>3 DEF Laid
    <3> QED
      BY <1>1, <3>1 DEF Behind, Laid
  <2> QED
    BY <2>2, <2>3
<1>5. Behind(B, w, offset, x + Len(d))
  BY <1>1, <1>3, <1>4 DEF Behind, Laid
<1> QED
  BY <1>5 DEF w, p

LEMMA BetweenSame ==
  ASSUME NEW C \in Seq(Bytes), NEW at \in Nat, NEW d \in Seq(Bytes)
  PROVE  Between(C, C, at, d)
  BY DEF Between

LEMMA BehindMore ==
  ASSUME NEW B \in Seq(Bytes), NEW C \in Seq(Bytes), NEW offset \in Int, NEW x \in Nat,
         NEW y \in Nat, x <= y, Behind(B, C, offset, x)
  PROVE  Behind(B, C, offset, y)
<1>1. Len(B) \in Nat /\ Len(C) \in Nat
  OBVIOUS
<1> QED
  BY <1>1 DEF Behind

LEMMA BehindSame ==
  ASSUME NEW C \in Seq(Bytes), NEW offset \in Int, NEW x \in Nat
  PROVE  Behind(C, C, offset, x)
<1>1. Len(C) \in Nat
  OBVIOUS
<1> QED
  BY <1>1 DEF Behind

LEMMA Products ==
  ASSUME NEW k \in Nat, NEW m \in Nat, NEW l \in Nat, k <= m
  PROVE  k * l \in Nat /\ m * l \in Nat /\ k * l <= m * l
  OBVIOUS

LEMMA NextProduct ==
  ASSUME NEW k \in Nat, NEW m, m = k + 1, NEW l \in Nat
  PROVE  k * l \in Nat /\ m * l = k * l + l
  OBVIOUS

-----------------------------------------------------------------------------
(* The bytes written so far: those of the attempts that came to write.     *)
Running == pc \in {"open", "seek", "data"}
Spent == IF Running THEN tries - 1 ELSE tries

TypeInv ==
  /\ files \in [Objects -> Seq(Bytes) \cup {Missing}]
  /\ base \in [Objects -> Seq(Bytes) \cup {Missing}]
  /\ pc \in {"idle", "open", "seek", "data", "answer", "lost"}
  /\ got \in Seq(Bytes) /\ pos \in Int /\ tries \in Nat
  /\ answer \in {"none", "OK", "FAILED"}
  /\ Running => answer = "none"
  /\ \/ req \in Requests /\ tries >= 1
     \/ req = NoRequest /\ pc = "idle" /\ answer = "none"

(* Only the object of a write or of a delete changes. *)
OthersInv ==
  /\ \A o \in Objects : req.op \in {"none", "Read", "Hash"} \/ o # req.id => files[o] = base[o]
  /\ req.op = "Delete" => files[req.id] \in {base[req.id], Missing}

WriteInv ==
  req.op = "Write" =>
    /\ req.offset >= 0 => Between(Before(req.id), Content(req.id), req.offset, req.data)
    /\ req.offset < 0 => Behind(Before(req.id), Content(req.id), req.offset,
                                Spent * Len(req.data))

(* Where the descriptor is, and what was read up to there. *)
From == SeekTo(req.offset, Len(Content(req.id)))

PlaceInv ==
  /\ pc \in {"open", "seek"} => got = <<>>
  /\ pc \in {"seek", "data"} => req.op # "Delete" /\ files[req.id] # Missing
  /\ pc = "data" =>
       /\ From >= 0 /\ pos = From + Len(got)
       /\ Taken(got, Content(req.id), From)
       /\ req.op = "Hash" /\ req.len > 0 => Len(got) <= req.len
       /\ req.op # "Hash" => got = <<>>

(* What an answer says. *)
WrittenInv ==
  Answered("Write") =>
    LET C == Content(req.id)
        B == Before(req.id)
        d == req.data
    IN  /\ req.offset >= 0 => C = Overlay(B, req.offset, d)
        /\ req.offset = -1 => /\ Len(B) + Len(d) <= Len(C)
                              /\ \A i \in 1..Len(d) : C[Len(C) - Len(d) + i] = d[i]

ReadInv ==
  Answered("Read") =>
    /\ From >= 0 /\ Taken(got, Content(req.id), From)
    /\ IF req.len > 0 THEN got # <<>> /\ Len(got) <= req.len ELSE got = <<>>

HashInv ==
  Answered("Hash") =>
    /\ From >= 0 /\ Taken(got, Content(req.id), From)
    /\ IF req.len > 0 THEN Len(got) = req.len ELSE Len(Content(req.id)) <= From + Len(got)

IInv == TypeInv /\ OthersInv /\ WriteInv /\ PlaceInv /\ WrittenInv /\ ReadInv /\ HashInv

-----------------------------------------------------------------------------
LEMMA RequestLemma ==
  ASSUME NEW r \in Requests
  PROVE  /\ r.op \in {"Write", "Read", "Hash", "Delete"} /\ r.id \in Objects
         /\ r.op # "Delete" => r.offset \in Int
         /\ r.op = "Write" => r.data \in Seq(Bytes) /\ Len(r.data) \in Nat
         /\ r.op \in {"Read", "Hash"} => r.len \in Int
<1>1. r.op = "Write" => r.data \in Seq(Bytes)
  BY RequestsAssumption
<1> QED
  BY <1>1, RequestsAssumption

(* There is no request of the initial kind. *)
LEMMA NoRequestLemma == NoRequest \notin Requests
  BY RequestLemma DEF NoRequest

LEMMA ContentLemma ==
  ASSUME TypeInv, NEW o \in Objects
  PROVE  /\ Content(o) \in Seq(Bytes) /\ Before(o) \in Seq(Bytes)
         /\ Len(Content(o)) \in Nat /\ Len(Before(o)) \in Nat
<1>1. Content(o) \in Seq(Bytes) /\ Before(o) \in Seq(Bytes)
  BY DEF TypeInv, Content, Before
<1> QED
  BY <1>1

LEMMA InitInv == Init => IInv
<1> SUFFICES ASSUME Init PROVE IInv
  OBVIOUS
<1>1. req.op = "none" /\ req = NoRequest
  BY DEF Init, NoRequest
<1>2. TypeInv
  BY <1>1 DEF Init, TypeInv, Running
<1>3. OthersInv /\ WriteInv
  BY <1>1 DEF Init, OthersInv, WriteInv
<1>4. PlaceInv
  <2>1. pc = "idle"
    BY DEF Init
  <2>2. pc \notin {"open", "seek"} /\ pc \notin {"seek", "data"} /\ pc # "data"
    BY <2>1
  <2> QED
    BY <2>2, Zenon DEF PlaceInv
<1>5. WrittenInv /\ ReadInv /\ HashInv
  BY <1>1 DEF WrittenInv, ReadInv, HashInv, Answered
<1> QED
  BY <1>2, <1>3, <1>4, <1>5 DEF IInv

(* The handler stops, fails, or answers: the files stay as they are.       *)
LEMMA RestStep ==
  ASSUME IInv, req \in Requests, UNCHANGED <<files, req, base, tries>>,
         pc' \in {"answer", "idle", "lost"}, answer' \in {"none", "OK", "FAILED"},
         got' \in Seq(Bytes), pos' \in Int,
         WrittenInv', ReadInv', HashInv'
  PROVE  IInv'
<1>1. TypeInv'
  BY NoRequestLemma DEF IInv, TypeInv, Running
<1>2. OthersInv'
  BY DEF IInv, OthersInv
<1>3. WriteInv'
  <2> SUFFICES ASSUME req.op = "Write", req.offset < 0
               PROVE  Behind(Before(req.id), Content(req.id), req.offset, Spent' * Len(req.data))
    BY DEF IInv, WriteInv, Before, Content
  <2>1. /\ req.offset \in Int /\ req.id \in Objects /\ Len(req.data) \in Nat
    BY RequestLemma
  <2>2. Spent \in Nat /\ Spent' \in Nat /\ Spent <= Spent'
    BY NoRequestLemma DEF IInv, TypeInv, Spent, Running
  <2>3. /\ Spent * Len(req.data) \in Nat /\ Spent' * Len(req.data) \in Nat
        /\ Spent * Len(req.data) <= Spent' * Len(req.data)
    BY <2>1, <2>2, Products
  <2>4. Before(req.id) \in Seq(Bytes) /\ Content(req.id) \in Seq(Bytes)
    BY <2>1, ContentLemma DEF IInv
  <2> QED
    BY <2>1, <2>3, <2>4, BehindMore DEF IInv, WriteInv
<1>4. PlaceInv'
  BY DEF PlaceInv
<1> QED
  BY <1>1, <1>2, <1>3, <1>4 DEF IInv

(* It does not say OK. *)
LEMMA FailStep ==
  ASSUME IInv, req \in Requests, UNCHANGED <<files, req, base, tries>>,
         pc' \in {"answer", "idle", "lost"}, answer' \in {"none", "FAILED"},
         got' \in Seq(Bytes), pos' \in Int
  PROVE  IInv'
<1>1. WrittenInv' /\ ReadInv' /\ HashInv'
  BY DEF WrittenInv, ReadInv, HashInv, Answered
<1> QED
  BY <1>1, RestStep

(* The client sends a request, or the same one again. *)
LEMMA AskStep ==
  ASSUME IInv, NEW r \in Requests, Ask(r)
  PROVE  IInv'
<1>1. /\ pc' = "open" /\ req' = r /\ answer' = "none" /\ base' = files /\ tries' = 1
      /\ pos' = 0 /\ got' = <<>> /\ files' = files
  BY DEF Ask
<1>2. TypeInv'
  BY <1>1 DEF IInv, TypeInv, Running
<1>3. OthersInv'
  BY <1>1 DEF OthersInv
<1>4. WriteInv'
  <2> SUFFICES ASSUME r.op = "Write"
               PROVE  /\ r.offset >= 0 => Between(Content(r.id), Content(r.id), r.offset, r.data)
                      /\ r.offset < 0 => Behind(Content(r.id), Content(r.id), r.offset,
                                                Spent' * Len(r.data))
    BY <1>1 DEF WriteInv, Before, Content
  <2>1. /\ r.id \in Objects /\ r.offset \in Int /\ r.data \in Seq(Bytes) /\ Len(r.data) \in Nat
    BY RequestLemma
  <2>2. Spent' = 0
    BY <1>1 DEF Spent, Running
  <2>3. Content(r.id) \in Seq(Bytes) /\ Spent' * Len(r.data) = 0
    BY <2>1, <2>2, ContentLemma DEF IInv
  <2> QED
    BY <2>1, <2>3, BetweenSame, BehindSame
<1>5. PlaceInv'
  BY <1>1 DEF PlaceInv
<1>6. WrittenInv' /\ ReadInv' /\ HashInv'
  BY <1>1 DEF WrittenInv, ReadInv, HashInv, Answered
<1> QED
  BY <1>2, <1>3, <1>4, <1>5, <1>6 DEF IInv

LEMMA AskAgainStep ==
  ASSUME IInv, AskAgain
  PROVE  IInv'
<1>1. /\ pc \in {"lost", "idle"} /\ (pc = "lost" \/ answer = "FAILED")
      /\ pc' = "open" /\ answer' = "none" /\ tries' = tries + 1
      /\ pos' = 0 /\ got' = <<>> /\ files' = files /\ req' = req /\ base' = base
  BY DEF AskAgain
<1>2. req \in Requests /\ tries \in Nat
  BY <1>1 DEF IInv, TypeInv
<1>3. TypeInv'
  BY <1>1, <1>2 DEF IInv, TypeInv, Running
<1>4. OthersInv'
  BY <1>1 DEF IInv, OthersInv
<1>5. WriteInv'
  <2>1. Spent' = Spent
    BY <1>1, <1>2 DEF Spent, Running
  <2> QED
    BY <1>1, <2>1 DEF IInv, WriteInv, Before, Content
<1>6. PlaceInv'
  BY <1>1 DEF PlaceInv
<1>7. WrittenInv' /\ ReadInv' /\ HashInv'
  BY <1>1 DEF WrittenInv, ReadInv, HashInv, Answered
<1> QED
  BY <1>3, <1>4, <1>5, <1>6, <1>7 DEF IInv

(* The file is opened: created, but not changed. *)
LEMMA OpenStep ==
  ASSUME IInv, Open
  PROVE  IInv'
<1>1. /\ pc = "open" /\ req.op # "Delete" /\ UNCHANGED <<req, pos, got, base, tries>>
      /\ \/ answer' = "FAILED" /\ pc' = "answer" /\ files' = files
         \/ /\ req.op = "Write" \/ files[req.id] # Missing
            /\ files' = [files EXCEPT ![req.id] = Content(req.id)]
            /\ pc' = "seek" /\ answer' = answer
  BY DEF Open, Respond
<1>2. req \in Requests /\ req.id \in Objects
  BY <1>1, RequestLemma DEF IInv, TypeInv
<1>3. CASE answer' = "FAILED" /\ pc' = "answer" /\ files' = files
  BY <1>1, <1>2, <1>3, FailStep DEF IInv, TypeInv
<1>4. CASE /\ req.op = "Write" \/ files[req.id] # Missing
           /\ files' = [files EXCEPT ![req.id] = Content(req.id)]
           /\ pc' = "seek" /\ answer' = answer
  <2>1. Content(req.id) \in Seq(Bytes)
    BY <1>2, ContentLemma DEF IInv
  <2>2. /\ files' \in [Objects -> Seq(Bytes) \cup {Missing}]
        /\ \A o \in Objects : o # req.id => files'[o] = files[o]
        /\ files'[req.id] = Content(req.id)
    BY <1>2, <1>4, <2>1 DEF IInv, TypeInv
  <2>3. Content(req.id)' = Content(req.id) /\ Before(req.id)' = Before(req.id)
    BY <1>1, <2>1, <2>2, BytesAssumption DEF Content, Before
  <2>4. TypeInv'
    BY <1>1, <1>2, <1>4, <2>2 DEF IInv, TypeInv, Running
  <2>5. files[req.id] # Missing => files'[req.id] = files[req.id]
    BY <2>2 DEF Content
  <2>6. OthersInv'
    <3>1. req.op \in {"Read", "Hash"} => files'[req.id] = files[req.id]
      BY <1>4, <2>5
    <3>2. req.op # "none"
      BY <1>2, RequestLemma
    <3> QED
      BY <1>1, <2>2, <3>1, <3>2 DEF IInv, OthersInv
  <2>7. WriteInv'
    <3>1. Spent' = Spent
      BY <1>1, <1>4 DEF Spent, Running
    <3> QED
      BY <1>1, <2>3, <3>1 DEF IInv, WriteInv
  <2>8. PlaceInv'
    <3>1. files'[req.id] # Missing
      BY <2>1, <2>2, BytesAssumption
    <3> QED
      BY <1>1, <1>4, <3>1 DEF IInv, PlaceInv
  <2>9. WrittenInv' /\ ReadInv' /\ HashInv'
    BY <1>4 DEF WrittenInv, ReadInv, HashInv, Answered
  <2> QED
    BY <2>4, <2>6, <2>7, <2>8, <2>9 DEF IInv
<1> QED
  BY <1>1, <1>3, <1>4

LEMMA UnlinkStep ==
  ASSUME IInv, Unlink
  PROVE  IInv'
<1>1. /\ pc = "open" /\ req.op = "Delete" /\ UNCHANGED <<req, pos, got, base, tries>>
      /\ pc' = "answer"
      /\ \/ answer' = "FAILED" /\ files' = files
         \/ answer' = "OK" /\ files' = [files EXCEPT ![req.id] = Missing]
  BY DEF Unlink, Respond
<1>2. req \in Requests /\ req.id \in Objects
  BY <1>1, RequestLemma DEF IInv, TypeInv
<1>3. CASE answer' = "FAILED" /\ files' = files
  BY <1>1, <1>2, <1>3, FailStep DEF IInv, TypeInv
<1>4. CASE answer' = "OK" /\ files' = [files EXCEPT ![req.id] = Missing]
  <2>1. TypeInv'
    BY <1>1, <1>2, <1>4 DEF IInv, TypeInv, Running
  <2>2. OthersInv'
    BY <1>1, <1>2, <1>4 DEF IInv, TypeInv, OthersInv
  <2>3. WriteInv' /\ PlaceInv'
    BY <1>1 DEF WriteInv, PlaceInv
  <2>4. WrittenInv' /\ ReadInv' /\ HashInv'
    BY <1>1 DEF WrittenInv, ReadInv, HashInv, Answered
  <2> QED
    BY <2>1, <2>2, <2>3, <2>4 DEF IInv
<1> QED
  BY <1>1, <1>3, <1>4

LEMMA SeekStep ==
  ASSUME IInv, Seek
  PROVE  IInv'
<1>1. /\ pc = "seek" /\ UNCHANGED <<files, req, got, base, tries>>
      /\ IF From < 0 THEN answer' = "FAILED" /\ pc' = "answer" /\ pos' = pos
         ELSE pos' = From /\ pc' = "data" /\ answer' = answer
  BY DEF Seek, Respond, From
<1>2. req \in Requests /\ req.op # "Delete" /\ req.id \in Objects /\ req.offset \in Int
  BY <1>1, RequestLemma DEF IInv, TypeInv, PlaceInv
<1>3. Content(req.id) \in Seq(Bytes) /\ From \in Int
  BY <1>2, ContentLemma DEF IInv, From, SeekTo
<1>4. CASE From < 0
  BY <1>1, <1>2, <1>4, FailStep DEF IInv, TypeInv
<1>5. CASE From >= 0
  <2>1. pos' = From /\ pc' = "data" /\ answer' = answer /\ From' = From
    BY <1>1, <1>3, <1>5 DEF From, Content
  <2>2. TypeInv'
    BY <1>1, <1>2, <1>3, <2>1 DEF IInv, TypeInv, Running
  <2>3. OthersInv'
    BY <1>1 DEF IInv, OthersInv
  <2>4. WriteInv'
    <3>1. Spent' = Spent
      BY <1>1, <2>1 DEF Spent, Running
    <3> QED
      BY <1>1, <3>1 DEF IInv, WriteInv, Before, Content
  <2>5. PlaceInv'
    <3>1. got = <<>> /\ Len(<<>>) = 0 /\ files[req.id] # Missing
      BY <1>1 DEF IInv, PlaceInv
    <3>2. Taken(<<>>, Content(req.id), From)
      BY DEF Taken
    <3>3. /\ From' >= 0 /\ pos' = From' + Len(got') /\ got' = <<>>
          /\ Taken(got', Content(req.id)', From')
      BY <1>1, <1>3, <1>5, <2>1, <3>1, <3>2 DEF Content
    <3>4. req.op = "Hash" /\ req.len > 0 => 0 <= req.len
      BY <1>2, RequestLemma
    <3> QED
      BY <1>1, <1>2, <2>1, <3>1, <3>3, <3>4 DEF PlaceInv
  <2>6. WrittenInv' /\ ReadInv' /\ HashInv'
    BY <2>1 DEF WrittenInv, ReadInv, HashInv, Answered
  <2> QED
    BY <2>2, <2>3, <2>4, <2>5, <2>6 DEF IInv
<1> QED
  BY <1>3, <1>4, <1>5

(* Some of the bytes are written, all of them when the answer is OK.       *)
LEMMA WriteStep ==
  ASSUME IInv, WriteData
  PROVE  IInv'
<1>1. pc = "data" /\ req.op = "Write" /\ UNCHANGED <<req, pos, got, base, tries>> /\ pc' = "answer"
  BY DEF WriteData, Respond
<1>2. req \in Requests
  BY <1>1 DEF IInv, TypeInv
<1> DEFINE C == Content(req.id)
           B == Before(req.id)
           d == req.data
<1>3. /\ req.id \in Objects /\ req.offset \in Int /\ d \in Seq(Bytes) /\ Len(d) \in Nat
  BY <1>1, <1>2, RequestLemma
<1>4. C \in Seq(Bytes) /\ B \in Seq(Bytes) /\ Len(C) \in Nat /\ Len(B) \in Nat
  BY <1>3, ContentLemma DEF IInv
<1>5. pos = From /\ pos \in Nat
  <2>1. got = <<>> /\ From >= 0 /\ pos = From + Len(got)
    BY <1>1 DEF IInv, PlaceInv
  <2> QED
    BY <1>3, <1>4, <2>1 DEF From, SeekTo
<1>6. CASE answer' = "FAILED" /\ files' = files
  BY <1>1, <1>2, <1>6, FailStep DEF IInv, TypeInv
<1>7. ASSUME NEW n \in 0..Len(d), answer' = WriteAnswer(n),
             files' = [files EXCEPT ![req.id] = Overlay(files[req.id], pos, SubSeq(d, 1, n))]
      PROVE  IInv'
  <2> DEFINE e == SubSeq(d, 1, n)
             w == Overlay(C, pos, e)
  <2>1. /\ e \in Seq(Bytes) /\ Len(e) = n /\ n \in Nat /\ n <= Len(d)
        /\ n = Len(d) => e = d
    BY <1>3
  <2>2. files[req.id] = C
    BY <1>1 DEF IInv, PlaceInv, Content
  <2>3. Laid(w, C, pos, e)
    BY <1>4, <1>5, <2>1, OverlayLemma
  <2>4. w \in Seq(Bytes)
    BY <2>3 DEF Laid
  <2>5. files' = [files EXCEPT ![req.id] = w]
    BY <1>7, <2>2
  <2> HIDE DEF w, e
  <2>6. /\ files' \in [Objects -> Seq(Bytes) \cup {Missing}]
        /\ \A o \in Objects : o # req.id => files'[o] = files[o]
        /\ files'[req.id] = w
    BY <1>3, <2>4, <2>5 DEF IInv, TypeInv
  <2>7. Content(req.id)' = w /\ Before(req.id)' = B
    BY <1>1, <2>4, <2>6, BytesAssumption DEF Content, Before
  <2>8. answer' \in {"OK", "FAILED"} /\ (answer' = "OK" => n = Len(d))
    BY <1>7 DEF WriteAnswer
  <2>9. TypeInv'
    BY <1>1, <1>2, <2>6, <2>8 DEF IInv, TypeInv, Running
  <2>10. OthersInv'
    BY <1>1, <2>6 DEF IInv, OthersInv
  <2>11. WriteInv'
    <3>1. CASE req.offset >= 0
      <4>1. pos = req.offset /\ Between(B, C, pos, d)
        BY <1>1, <1>5, <3>1 DEF IInv, WriteInv, From, SeekTo
      <4>2. Between(B, Overlay(C, pos, SubSeq(d, 1, n)), pos, d)
        BY <1>3, <1>4, <1>5, <4>1, BetweenStep
      <4> QED
        BY <1>1, <1>3, <2>7, <3>1, <4>1, <4>2 DEF WriteInv, w, e
    <3>2. CASE req.offset < 0
      <4>1. /\ pos = Len(C) + req.offset + 1
            /\ Behind(B, C, req.offset, Spent * Len(d))
        BY <1>1, <1>5, <3>2 DEF IInv, WriteInv, From, SeekTo
      <4>2. Spent \in Nat /\ Spent' = Spent + 1
        BY <1>1, <1>2, NoRequestLemma DEF IInv, TypeInv, Spent, Running
      <4>3. /\ Spent * Len(d) \in Nat
            /\ Spent' * Len(d) = Spent * Len(d) + Len(d)
        BY <1>3, <4>2, NextProduct
      <4>4. Behind(B, Overlay(C, pos, SubSeq(d, 1, n)), req.offset, Spent * Len(d) + Len(d))
        BY <1>3, <1>4, <1>5, <3>2, <4>1, <4>3, BehindStep
      <4> QED
        BY <1>1, <1>3, <2>7, <3>2, <4>3, <4>4 DEF WriteInv, w, e
    <3> QED
      BY <1>3, <3>1, <3>2
  <2>12. PlaceInv'
    BY <1>1 DEF PlaceInv
  <2>13. WrittenInv'
    <3> SUFFICES ASSUME answer' = "OK"
                 PROVE  /\ req.offset >= 0 => w = Overlay(B, req.offset, d)
                        /\ req.offset = -1 => /\ Len(B) + Len(d) <= Len(w)
                                              /\ \A i \in 1..Len(d) : w[Len(w) - Len(d) + i] = d[i]
      BY <1>1, <2>7 DEF WrittenInv, Answered
    <3>1. e = d
      BY <2>1, <2>8
    <3>2. CASE req.offset >= 0
      <4>1. pos = req.offset /\ Between(B, C, pos, d)
        BY <1>1, <1>5, <3>2 DEF IInv, WriteInv, From, SeekTo
      <4>2. Overlay(C, pos, d) = Overlay(B, pos, d)
        BY <1>3, <1>4, <1>5, <4>1, BetweenFull
      <4>3. w = Overlay(C, pos, d)
        BY <3>1 DEF w
      <4>4. w = Overlay(B, req.offset, d)
        BY <4>1, <4>2, <4>3
      <4>5. req.offset # -1
        BY <3>2
      <4> QED
        BY <4>4, <4>5, Zenon
    <3>3. CASE req.offset = -1
      <4>1. pos = Len(C) /\ Len(B) <= Len(C)
        <5>1. From = Len(C) + req.offset + 1
          BY <1>3, <3>3 DEF From, SeekTo
        <5>2. Behind(B, C, req.offset, Spent * Len(d))
          BY <1>1, <3>3 DEF IInv, WriteInv
        <5>3. Len(B) <= Len(C)
          BY <5>2 DEF Behind
        <5> HIDE DEF C
        <5> QED
          BY <1>4, <1>5, <3>3, <5>1, <5>3
      <4>2. /\ Len(w) = Len(C) + Len(d)
            /\ \A i \in 1..Len(w) :
                 w[i] = IF Len(C) < i /\ i <= Len(C) + Len(d) THEN d[i - Len(C)]
                        ELSE IF i <= Len(C) THEN C[i] ELSE Zero
        <5>1. Laid(w, C, Len(C), d)
          BY <2>3, <3>1, <4>1
        <5>2. d = <<>> <=> Len(d) = 0
          BY <1>3
        <5> HIDE DEF C, d
        <5>3. Len(w) = Len(C) + Len(d)
          BY <1>3, <1>4, <5>1, <5>2 DEF Laid
        <5> QED
          BY <5>1, <5>3 DEF Laid
      <4>3. ASSUME NEW i \in 1..Len(d) PROVE w[Len(w) - Len(d) + i] = d[i]
        <5>1. /\ Len(w) - Len(d) + i = Len(C) + i /\ Len(C) + i \in 1..Len(w)
              /\ Len(C) < Len(C) + i /\ Len(C) + i <= Len(C) + Len(d)
              /\ (Len(C) + i) - Len(C) = i
          BY <1>3, <1>4, <4>2
        <5>2. i \in Nat /\ Len(C) + i \in 1..Len(w)
          BY <5>1
        <5> QED
          BY <4>2, <5>1, <5>2
      <4> QED
        BY <1>3, <1>4, <3>3, <4>1, <4>2, <4>3
    <3> QED
      BY <3>2, <3>3
  <2>14. ReadInv' /\ HashInv'
    BY <1>1 DEF ReadInv, HashInv, Answered
  <2> QED
    BY <2>9, <2>10, <2>11, <2>12, <2>13, <2>14 DEF IInv
<1> QED
  BY <1>6, <1>7 DEF WriteData, Respond

(* What one read of `want` bytes at a position of C may return. *)
FromFile(b, C, at, want) ==
  /\ b \in Seq(Bytes) /\ Len(b) <= want
  /\ IF b = <<>> THEN Len(C) <= at ELSE at + Len(b) <= Len(C)
  /\ \A i \in 1..Len(b) : b[i] = C[at + i]

LEMMA ReadableLemma ==
  ASSUME Content(req.id) \in Seq(Bytes), pos \in Nat, NEW want \in Nat, want > 0,
         NEW b \in Readable(want)
  PROVE  FromFile(b, Content(req.id), pos, want)
<1> DEFINE C == Content(req.id)
           rest == SubSeq(C, pos + 1, Len(C))
           most == IF Len(rest) < want THEN Len(rest) ELSE want
<1>1. b \in IF most = 0 THEN {<<>>} ELSE {SubSeq(rest, 1, n) : n \in 1..most}
  BY DEF Readable
<1>2. C \in Seq(Bytes) /\ Len(C) \in Nat
  OBVIOUS
<1> HIDE DEF C
<1>3. /\ rest \in Seq(Bytes) /\ Len(rest) \in Nat
      /\ Len(rest) = IF pos >= Len(C) THEN 0 ELSE Len(C) - pos
      /\ \A i \in 1..Len(rest) : rest[i] = C[pos + i]
  BY <1>2
<1> HIDE DEF rest
<1>4. most \in Nat /\ most <= want /\ most <= Len(rest) /\ (most = 0 => Len(rest) = 0)
  BY <1>3
<1> HIDE DEF most
<1>5. CASE most = 0
  <2>1. b = <<>> /\ Len(C) <= pos
    BY <1>1, <1>2, <1>3, <1>4, <1>5
  <2>2. FromFile(b, C, pos, want)
    BY <2>1 DEF FromFile
  <2> QED
    BY <2>2 DEF C
<1>6. CASE most # 0
  <2>1. PICK n \in 1..most : b = SubSeq(rest, 1, n)
    BY <1>1, <1>6
  <2>2. n \in Nat /\ n >= 1 /\ n <= want /\ n <= Len(rest)
    BY <1>3, <1>4
  <2>3. b \in Seq(Bytes) /\ Len(b) = n /\ b # <<>> /\ \A i \in 1..n : b[i] = rest[i]
    <3>1. n \in 0..Len(rest)
      BY <1>3, <2>2
    <3>2. SubSeq(rest, 1, n) \in Seq(Bytes) /\ Len(SubSeq(rest, 1, n)) = n
      BY <1>3, <3>1
    <3>3. \A i \in 1..n : SubSeq(rest, 1, n)[i] = rest[i]
      BY <1>3, <3>1
    <3>4. SubSeq(rest, 1, n) # <<>>
      BY <2>2, <3>2
    <3> QED
      BY <2>1, <3>2, <3>3, <3>4
  <2>4. pos + n <= Len(C)
    BY <1>2, <1>3, <2>2
  <2>5. FromFile(b, C, pos, want)
    <3>1. \A i \in 1..Len(b) : b[i] = C[pos + i]
      <4> TAKE i \in 1..Len(b)
      <4>1. i \in 1..n /\ i \in 1..Len(rest)
        BY <1>3, <2>2, <2>3
      <4> QED
        BY <1>3, <2>3, <4>1
    <3> QED
      BY <2>2, <2>3, <2>4, <3>1 DEF FromFile
  <2> QED
    BY <2>5 DEF C
<1> QED
  BY <1>5, <1>6

(* A read goes on where the one before it ended. *)
LEMMA TakenMore ==
  ASSUME NEW C \in Seq(Bytes), NEW g \in Seq(Bytes), NEW from \in Nat, Taken(g, C, from),
         NEW b, NEW want, FromFile(b, C, from + Len(g), want)
  PROVE  /\ g \o b \in Seq(Bytes) /\ Len(g \o b) = Len(g) + Len(b) /\ Taken(g \o b, C, from)
         /\ b = <<>> => g \o b = g
<1>1. /\ b \in Seq(Bytes) /\ Len(b) \in Nat /\ Len(g) \in Nat /\ Len(C) \in Nat
  BY DEF FromFile
<1>2. /\ g \o b \in Seq(Bytes) /\ Len(g \o b) = Len(g) + Len(b)
      /\ b = <<>> => g \o b = g
  BY <1>1
<1>3. g \o b = <<>> \/ from + (Len(g) + Len(b)) <= Len(C)
  <2>1. CASE b = <<>>
    <3>1. g = <<>> => g \o b = <<>>
      BY <2>1, <1>2
    <3>2. Len(b) = 0 /\ (g # <<>> => from + Len(g) <= Len(C))
      BY <2>1 DEF Taken
    <3>3. Len(g) + Len(b) = Len(g)
      BY <1>1, <3>2
    <3> QED
      BY <3>1, <3>2, <3>3
  <2>2. CASE b # <<>>
    <3>1. (from + Len(g)) + Len(b) <= Len(C)
      BY <2>2 DEF FromFile
    <3>2. (from + Len(g)) + Len(b) = from + (Len(g) + Len(b))
      BY <1>1
    <3> QED
      BY <3>1, <3>2
  <2> QED
    BY <2>1, <2>2
<1>4. ASSUME NEW i \in 1..Len(g) + Len(b) PROVE (g \o b)[i] = C[from + i]
  <2>1. CASE i <= Len(g)
    <3>1. i \in 1..Len(g) /\ (g \o b)[i] = g[i]
      BY <1>1, <2>1
    <3> QED
      BY <3>1 DEF Taken
  <2>2. CASE i > Len(g)
    <3> DEFINE j == i - Len(g)
    <3>1. j \in 1..Len(b) /\ (from + Len(g)) + j = from + i /\ (g \o b)[i] = b[j]
      BY <1>1, <2>2
    <3> HIDE DEF j
    <3> QED
      BY <3>1 DEF FromFile
  <2> QED
    BY <1>1, <2>1, <2>2
<1> QED
  BY <1>2, <1>3, <1>4 DEF Taken

-----------------------------------------------------------------------------
(* What is known at the descriptor of a read or a hash. *)
LEMMA AtData ==
  ASSUME IInv, pc = "data"
  PROVE  /\ req \in Requests /\ req.id \in Objects /\ req.op # "Delete" /\ answer = "none"
         /\ Content(req.id) \in Seq(Bytes) /\ got \in Seq(Bytes) /\ Len(got) \in Nat
         /\ From \in Nat /\ pos \in Nat /\ pos = From + Len(got)
         /\ Taken(got, Content(req.id), From)
<1>1. req \in Requests /\ req.op # "Delete" /\ answer = "none" /\ got \in Seq(Bytes)
  BY DEF IInv, TypeInv, PlaceInv, Running
<1>2. req.id \in Objects /\ req.offset \in Int
  BY <1>1, RequestLemma
<1>3. Content(req.id) \in Seq(Bytes) /\ Len(Content(req.id)) \in Nat
  BY <1>2, ContentLemma DEF IInv
<1>4. From >= 0 /\ pos = From + Len(got) /\ Taken(got, Content(req.id), From)
  BY DEF IInv, PlaceInv
<1>5. From \in Int /\ Len(got) \in Nat
  BY <1>1, <1>2, <1>3 DEF From, SeekTo
<1> HIDE DEF From
<1> QED
  BY <1>1, <1>2, <1>3, <1>4, <1>5

LEMMA ReadStep ==
  ASSUME IInv, ReadData
  PROVE  IInv'
<1>1. /\ pc = "data" /\ req.op = "Read" /\ UNCHANGED <<files, req, base, tries>>
      /\ pc' = "answer"
  BY DEF ReadData, Respond
<1>2. /\ req \in Requests /\ Content(req.id) \in Seq(Bytes) /\ got = <<>>
      /\ From \in Nat /\ pos = From /\ pos \in Nat /\ req.len \in Int
  <2>1. got = <<>>
    BY <1>1 DEF IInv, PlaceInv
  <2>2. Len(got) = 0
    BY <2>1
  <2>3. req.len \in Int
    BY <1>1, AtData, RequestLemma
  <2> QED
    BY <1>1, <2>1, <2>2, <2>3, AtData
<1>3. From' = From /\ Content(req.id)' = Content(req.id)
  BY <1>1 DEF From, Content
<1>4. CASE req.len <= 0 /\ answer' = "OK" /\ got' = got /\ pos' = pos
  <2>1. WrittenInv' /\ HashInv'
    BY <1>1 DEF WrittenInv, HashInv, Answered
  <2>2. ReadInv'
    <3>1. Taken(got', Content(req.id)', From')
      BY <1>2, <1>3, <1>4 DEF Taken
    <3>2. got' = <<>> /\ From' >= 0 /\ ~(req'.len > 0)
      BY <1>1, <1>2, <1>3, <1>4
    <3> QED
      BY <3>1, <3>2 DEF ReadInv
  <2> QED
    BY <1>1, <1>2, <1>4, <2>1, <2>2, RestStep
<1>5. ASSUME req.len > 0, NEW b \in Readable(req.len), got' = b, pos' = pos + Len(b),
             answer' = IF b = <<>> THEN "FAILED" ELSE "OK"
      PROVE  IInv'
  <2>1. req.len \in Nat
    BY <1>2, <1>5
  <2>2. FromFile(b, Content(req.id), pos, req.len)
    BY <1>2, <1>5, <2>1, ReadableLemma
  <2>3. b \in Seq(Bytes) /\ Len(b) \in Nat /\ Len(b) <= req.len
    BY <2>2 DEF FromFile
  <2>4. pos' \in Int /\ got' \in Seq(Bytes) /\ answer' \in {"OK", "FAILED"}
    BY <1>2, <1>5, <2>3
  <2>5. CASE b = <<>>
    BY <1>1, <1>2, <1>5, <2>4, <2>5, FailStep
  <2>6. CASE b # <<>>
    <3>1. WrittenInv' /\ HashInv'
      BY <1>1 DEF WrittenInv, HashInv, Answered
    <3>2. Taken(b, Content(req.id), From)
      BY <1>2, <2>2, <2>6 DEF FromFile, Taken
    <3>3. Taken(got', Content(req.id)', From') /\ From' >= 0
      BY <1>2, <1>3, <1>5, <3>2
    <3>4. got' # <<>> /\ Len(got') <= req'.len /\ req'.len > 0
      BY <1>1, <1>5, <2>3, <2>6
    <3>5. ReadInv'
      BY <3>3, <3>4 DEF ReadInv
    <3> QED
      BY <1>1, <1>2, <2>4, <3>1, <3>5, RestStep
  <2> QED
    BY <2>5, <2>6
<1>6. CASE req.len > 0 /\ answer' = "FAILED" /\ pos' = pos /\ got' = got
  BY <1>1, <1>2, <1>6, FailStep DEF IInv, TypeInv
<1> QED
  BY <1>4, <1>5, <1>6 DEF ReadData, Respond

(* How long the next read of a hash is. *)
Want == IF req.len > 0 /\ Remaining < Chunk THEN Remaining ELSE Chunk

LEMMA HashStep ==
  ASSUME IInv, HashChunk
  PROVE  IInv'
<1>1. /\ pc = "data" /\ req.op = "Hash" /\ UNCHANGED <<files, req, base, tries>>
      /\ req.len > 0 => Remaining > 0
  BY DEF HashChunk
<1>2. PICK b \in Readable(Want) :
        /\ got' = got \o b /\ pos' = pos + Len(b)
        /\ IF b # <<>> THEN pc' = pc /\ answer' = answer
           ELSE Respond(IF req.len > 0 THEN "FAILED" ELSE "OK")
  BY DEF HashChunk, Want
<1> DEFINE C == Content(req.id)
<1>3. /\ req \in Requests /\ C \in Seq(Bytes) /\ got \in Seq(Bytes) /\ Len(got) \in Nat
      /\ From \in Nat /\ pos \in Nat /\ pos = From + Len(got) /\ Taken(got, C, From)
      /\ answer = "none"
  BY <1>1, AtData
<1>4. req.len \in Int
  BY <1>1, <1>3, RequestLemma
<1>5. Want \in Nat /\ Want > 0 /\ (req.len > 0 => Want <= req.len - Len(got))
  BY <1>1, <1>3, <1>4, ChunkAssumption DEF Want, Remaining
<1>6. FromFile(b, C, pos, Want)
  BY <1>3, <1>5, ReadableLemma
<1>7. From' = From /\ Content(req.id)' = C
  BY <1>1 DEF From, Content
<1> HIDE DEF C
<1>8. FromFile(b, C, From + Len(got), Want)
  BY <1>3, <1>6
<1>9. /\ got' \in Seq(Bytes) /\ Len(got') = Len(got) + Len(b) /\ Taken(got', C, From)
      /\ b = <<>> => got' = got
  BY <1>2, <1>3, <1>8, TakenMore
<1>10. Len(b) \in Nat /\ Len(b) <= Want /\ (b = <<>> => Len(C) <= pos)
  BY <1>6 DEF FromFile
<1>11. pos' \in Int /\ pos' = From' + Len(got')
  BY <1>2, <1>3, <1>7, <1>9, <1>10
<1>12. CASE b # <<>>
  <2>1. pc' = "data" /\ answer' = answer
    BY <1>1, <1>2, <1>12
  <2>2. TypeInv'
    BY <1>1, <1>3, <1>9, <1>11, <2>1 DEF IInv, TypeInv, Running
  <2>3. OthersInv' /\ WriteInv'
    BY <1>1 DEF IInv, OthersInv, WriteInv
  <2>4. PlaceInv'
    <3>1. req'.op # "Delete" /\ files'[req'.id] # Missing
      BY <1>1 DEF IInv, PlaceInv
    <3>2. From' >= 0 /\ Taken(got', Content(req.id)', From')
      BY <1>3, <1>7, <1>9
    <3>3. req'.len > 0 => Len(got') <= req'.len
      BY <1>1, <1>3, <1>4, <1>5, <1>9, <1>10
    <3>4. pc' \notin {"open", "seek"} /\ req'.op = "Hash"
      BY <1>1, <2>1
    <3> QED
      BY <1>11, <3>1, <3>2, <3>3, <3>4 DEF PlaceInv
  <2>5. WrittenInv' /\ ReadInv' /\ HashInv'
    BY <2>1 DEF WrittenInv, ReadInv, HashInv, Answered
  <2> QED
    BY <2>2, <2>3, <2>4, <2>5 DEF IInv
<1>13. CASE b = <<>> /\ req.len > 0
  <2>1. pc' = "answer" /\ answer' = "FAILED"
    BY <1>2, <1>13 DEF Respond
  <2> QED
    BY <1>1, <1>3, <1>9, <1>11, <2>1, FailStep
<1>14. CASE b = <<>> /\ ~(req.len > 0)
  <2>1. pc' = "answer" /\ answer' = "OK"
    BY <1>2, <1>14 DEF Respond
  <2>2. WrittenInv' /\ ReadInv'
    BY <1>1 DEF WrittenInv, ReadInv, Answered
  <2>3. HashInv'
    <3>1. From' >= 0 /\ Taken(got', Content(req.id)', From')
      BY <1>3, <1>7, <1>9
    <3>2. Len(Content(req.id)') <= From' + Len(got')
      BY <1>3, <1>7, <1>9, <1>10, <1>14
    <3> QED
      BY <1>1, <1>14, <3>1, <3>2 DEF HashInv
  <2> QED
    BY <1>1, <1>3, <1>9, <1>11, <2>1, <2>2, <2>3, RestStep
<1> QED
  BY <1>12, <1>13, <1>14

LEMMA HashEndStep ==
  ASSUME IInv, HashEnd
  PROVE  IInv'
<1>1. /\ pc = "data" /\ req.op = "Hash" /\ req.len > 0 /\ Remaining <= 0
      /\ pc' = "answer" /\ answer' = "OK" /\ UNCHANGED <<files, req, pos, got, base, tries>>
  BY DEF HashEnd, Respond
<1>2. req \in Requests /\ got \in Seq(Bytes) /\ pos \in Int /\ Len(got) \in Nat
  BY <1>1, AtData
<1>3. WrittenInv' /\ ReadInv'
  BY <1>1 DEF WrittenInv, ReadInv, Answered
<1>4. HashInv'
  <2>1. From' = From /\ Content(req.id)' = Content(req.id)
    BY <1>1 DEF From, Content
  <2>2. From >= 0 /\ Taken(got, Content(req.id), From) /\ Len(got) <= req.len
    BY <1>1 DEF IInv, PlaceInv
  <2>3. Len(got) = req.len
    <3>1. req.len \in Int
      BY <1>1, <1>2, RequestLemma
    <3> QED
      BY <1>1, <1>2, <2>2, <3>1 DEF Remaining
  <2> QED
    BY <1>1, <2>1, <2>2, <2>3 DEF HashInv
<1> QED
  BY <1>1, <1>2, <1>3, <1>4, RestStep

LEMMA ReplyStep ==
  ASSUME IInv, Reply
  PROVE  IInv'
<1>1. pc = "answer" /\ pc' = "idle" /\ UNCHANGED <<files, req, pos, got, answer, base, tries>>
  BY DEF Reply
<1>2. req \in Requests /\ got \in Seq(Bytes) /\ pos \in Int /\ answer \in {"none", "OK", "FAILED"}
  BY <1>1 DEF IInv, TypeInv
<1>3. WrittenInv' /\ ReadInv' /\ HashInv'
  BY <1>1 DEF IInv, WrittenInv, ReadInv, HashInv, Answered, From, Content, Before
<1> QED
  BY <1>1, <1>2, <1>3, RestStep

(* No buffer, no digest, an error, a stop. *)
LEMMA EndStep ==
  ASSUME IInv, ReadTooLong \/ HashDigest \/ HashError \/ Stop
  PROVE  IInv'
<1>1. /\ pc \in {"open", "seek", "data", "answer"} /\ pc' \in {"lost", "answer"}
      /\ UNCHANGED <<files, req, pos, got, base, tries>>
      /\ answer' \in {"none", "FAILED"} \/ (pc = "data" /\ answer' = answer)
  BY DEF ReadTooLong, HashDigest, HashError, Stop, Respond
<1>2. req \in Requests /\ got \in Seq(Bytes) /\ pos \in Int /\ (pc = "data" => answer = "none")
  BY <1>1 DEF IInv, TypeInv, Running
<1> QED
  BY <1>1, <1>2, FailStep

LEMMA StepInv == IInv /\ [Next]_vars => IInv'
<1> SUFFICES ASSUME IInv, [Next]_vars PROVE IInv'
  OBVIOUS
<1>1. CASE UNCHANGED vars
  <2>1. TypeInv'
    BY <1>1 DEF vars, IInv, TypeInv, Running
  <2>2. OthersInv' /\ WriteInv'
    BY <1>1 DEF vars, IInv, OthersInv, WriteInv, Before, Content, Spent, Running
  <2>3. PlaceInv'
    BY <1>1 DEF vars, IInv, PlaceInv, From, Content
  <2>4. WrittenInv' /\ ReadInv' /\ HashInv'
    BY <1>1 DEF vars, IInv, WrittenInv, ReadInv, HashInv, Answered, From, Content, Before
  <2> QED
    BY <2>1, <2>2, <2>3, <2>4 DEF IInv
<1>2. CASE \E r \in Requests : Ask(r)
  BY <1>2, AskStep
<1>3. CASE AskAgain
  BY <1>3, AskAgainStep
<1>4. CASE Open
  BY <1>4, OpenStep
<1>5. CASE Unlink
  BY <1>5, UnlinkStep
<1>6. CASE Seek
  BY <1>6, SeekStep
<1>7. CASE WriteData
  BY <1>7, WriteStep
<1>8. CASE ReadData
  BY <1>8, ReadStep
<1>9. CASE HashChunk
  BY <1>9, HashStep
<1>10. CASE HashEnd
  BY <1>10, HashEndStep
<1>11. CASE Reply
  BY <1>11, ReplyStep
<1>12. CASE ReadTooLong \/ HashDigest \/ HashError \/ Stop
  BY <1>12, EndStep
<1> QED
  BY <1>1, <1>2, <1>3, <1>4, <1>5, <1>6, <1>7, <1>8, <1>9, <1>10, <1>11, <1>12 DEF Next, Work

(* At every step of every handler: the objects but the one a write or a    *)
(* delete names are as they were, the bytes of that one are what the       *)
(* attempts so far explain, the descriptor is where the bytes read say,    *)
(* and an OK says what was done (obj_store.cc).                            *)
THEOREM Invariance == LiveSpec => []IInv
<1> QED
  BY InitInv, StepInv, PTL DEF LiveSpec

(* A positional write that says OK has made of the object what one whole   *)
(* write makes of it, after any attempts (obj_store.cc:69-84).             *)
THEOREM Healing == LiveSpec => []RetryHeals
<1>1. IInv => RetryHeals
  BY DEF IInv, WrittenInv, RetryHeals
<1> QED
  BY <1>1, Invariance, PTL

LEMMA PrefixLemma ==
  ASSUME NEW S, NEW g \in Seq(S), NEW c \in Seq(S), Len(g) <= Len(c),
         \A i \in 1..Len(g) : g[i] = c[i]
  PROVE  IsPrefix(g, c) /\ SubSeq(c, 1, Len(g)) = g
<1> DEFINE p == SubSeq(c, 1, Len(g))
<1>1. Len(g) \in Nat /\ Len(c) \in Nat
  OBVIOUS
<1>2. p \in Seq(S) /\ Len(p) = Len(g) /\ \A i \in 1..Len(g) : p[i] = c[i]
  BY <1>1
<1>3. SubSeq(g, 1, Len(g)) = g
  OBVIOUS
<1> HIDE DEF p
<1>4. p = g
  BY <1>2, SeqEqual
<1> QED
  BY <1>3, <1>4 DEF IsPrefix, p

LEMMA ReverseLemma ==
  ASSUME NEW S, NEW g \in Seq(S)
  PROVE  /\ Reverse(g) \in Seq(S) /\ Len(Reverse(g)) = Len(g)
         /\ \A i \in 1..Len(g) : Reverse(g)[i] = g[(Len(g) - i) + 1]
<1> DEFINE l == Len(g)
           e(i) == g[(l - i) + 1]
<1>1. l \in Nat
  OBVIOUS
<1>2. \A i \in 1..l : e(i) \in S
  <2> TAKE i \in 1..l
  <2>1. (l - i) + 1 \in 1..Len(g)
    BY <1>1
  <2> QED
    BY <2>1
<1>3. Reverse(g) = [i \in 1..l |-> e(i)]
  BY DEF Reverse
<1> HIDE DEF e, l
<1>4. Reverse(g) \in Seq(S) /\ Len(Reverse(g)) = l /\ \A i \in 1..l : Reverse(g)[i] = e(i)
  BY <1>1, <1>2, <1>3, IsASeq
<1> QED
  BY <1>4 DEF e, l

LEMMA SuffixLemma ==
  ASSUME NEW S, NEW g \in Seq(S), NEW c \in Seq(S), Len(g) <= Len(c),
         \A i \in 1..Len(g) : c[Len(c) - Len(g) + i] = g[i]
  PROVE  IsSuffix(g, c)
<1> DEFINE l == Len(g)
           m == Len(c)
           rg == Reverse(g)
           rc == Reverse(c)
<1>1. l \in Nat /\ m \in Nat /\ l <= m /\ \A i \in 1..l : c[(m - l) + i] = g[i]
  OBVIOUS
<1>2. rg \in Seq(S) /\ Len(rg) = l /\ \A i \in 1..l : rg[i] = g[(l - i) + 1]
  BY ReverseLemma
<1>3. rc \in Seq(S) /\ Len(rc) = m /\ \A i \in 1..m : rc[i] = c[(m - i) + 1]
  BY ReverseLemma
<1>4. IsSuffix(g, c) <=> IsPrefix(rg, rc)
  BY DEF IsSuffix
<1> HIDE DEF l, m, rg, rc
<1>5. ASSUME NEW i \in 1..l PROVE rg[i] = rc[i]
  <2> DEFINE j == (l - i) + 1
  <2>1. j \in 1..l /\ (m - l) + j = (m - i) + 1 /\ i \in 1..m
    BY <1>1
  <2>2. rg[i] = g[j] /\ rc[i] = c[(m - i) + 1]
    BY <1>2, <1>3, <2>1
  <2> HIDE DEF j
  <2> QED
    BY <1>1, <2>1, <2>2
<1>6. IsPrefix(rg, rc)
  BY <1>1, <1>2, <1>3, <1>5, PrefixLemma
<1> QED
  BY <1>4, <1>6

(* An append that says OK ends the object with the data and keeps all that *)
(* was there before the first attempt, with at most one beginning of the   *)
(* data between them per attempt (obj_store.cc:21-30, 77-84).              *)
THEOREM Appending == LiveSpec => []AppendKeepsAll
<1>1. IInv => AppendKeepsAll
  <2> SUFFICES ASSUME IInv, Answered("Write"), req.offset = -1
               PROVE  /\ IsPrefix(Before(req.id), Content(req.id))
                      /\ IsSuffix(req.data, Content(req.id))
                      /\ Len(Content(req.id)) \in Len(Before(req.id)) + Len(req.data)
                                                 ..Len(Before(req.id)) + tries * Len(req.data)
    BY DEF AppendKeepsAll
  <2> DEFINE B == Before(req.id)
             C == Content(req.id)
             d == req.data
             x == tries * Len(d)
  <2>1. req \in Requests /\ req.op = "Write" /\ pc \in {"answer", "idle"} /\ tries \in Nat
    BY NoRequestLemma DEF IInv, TypeInv, Answered
  <2>2. req.id \in Objects /\ d \in Seq(Bytes) /\ Len(d) \in Nat
    BY <2>1, RequestLemma
  <2>3. B \in Seq(Bytes) /\ C \in Seq(Bytes) /\ Len(B) \in Nat /\ Len(C) \in Nat
    BY <2>2, ContentLemma DEF IInv
  <2>4. Spent = tries
    BY <2>1 DEF Spent, Running
  <2>5. Behind(B, C, -1, x)
    BY <2>1, <2>4 DEF IInv, WriteInv
  <2>6. Len(B) + Len(d) <= Len(C) /\ \A i \in 1..Len(d) : C[Len(C) - Len(d) + i] = d[i]
    BY DEF IInv, WrittenInv
  <2>7. x \in Nat
    BY <2>1, <2>2, NextProduct
  <2> HIDE DEF B, C, d, x
  <2>8. \A i \in 1..Len(B) : B[i] = C[i]
    BY <2>3, <2>5, <2>7 DEF Behind
  <2>9. Len(B) <= Len(C) /\ Len(C) <= Len(B) + x /\ Len(d) <= Len(C)
    BY <2>2, <2>3, <2>5, <2>6 DEF Behind
  <2>10. IsPrefix(B, C)
    BY <2>3, <2>8, <2>9, PrefixLemma
  <2>11. IsSuffix(d, C)
    BY <2>2, <2>3, <2>6, <2>9, SuffixLemma
  <2>12. Len(C) \in Len(B) + Len(d)..Len(B) + x
    BY <2>2, <2>3, <2>6, <2>7, <2>9
  <2> QED
    BY <2>10, <2>11, <2>12 DEF B, C, d, x
<1> QED
  BY <1>1, Invariance, PTL

LEMMA LocalLemma ==
  ASSUME IInv, req.op = "Write", req \in Requests, NEW i \in 1..Len(Before(req.id)),
         NEW from, from = SeekTo(req.offset, Len(Before(req.id)))
  PROVE  \/ i <= Len(Content(req.id)) /\ Content(req.id)[i] = Before(req.id)[i]
         \/ i > from /\ i <= from + tries * Len(req.data)
<1> DEFINE B == Before(req.id)
           C == Content(req.id)
           l == Len(req.data)
<1>1. req.id \in Objects /\ req.offset \in Int /\ l \in Nat
  BY RequestLemma
<1>2. B \in Seq(Bytes) /\ C \in Seq(Bytes) /\ Len(B) \in Nat /\ Len(C) \in Nat
  BY <1>1, ContentLemma DEF IInv
<1>3. tries \in Nat /\ tries >= 1 /\ Spent \in Nat /\ Spent <= tries
  BY NoRequestLemma DEF IInv, TypeInv, Spent, Running
<1>4. /\ Spent * l \in Nat /\ tries * l \in Nat /\ Spent * l <= tries * l
      /\ 1 * l <= tries * l
  BY <1>1, <1>3, Products
<1>5. CASE req.offset >= 0
  <2>1. Between(B, C, req.offset, req.data) /\ from = req.offset
    BY <1>5 DEF IInv, WriteInv, SeekTo
  <2> HIDE DEF B, C
  <2>2. Len(B) <= Len(C) /\ i \in 1..Len(B)
    BY <1>2, <2>1 DEF Between, B
  <2>3. i \in 1..Len(C) /\ i \in Nat
    BY <1>2, <2>2
  <2>4. CASE C[i] = B[i]
    BY <2>3, <2>4 DEF B, C
  <2>5. CASE req.offset < i /\ i <= req.offset + l
    <3> HIDE DEF l
    <3>1. i > from /\ i <= from + tries * l
      BY <1>1, <1>4, <2>1, <2>3, <2>5
    <3> QED
      BY <3>1 DEF l
  <2>6. ~(Len(B) < i)
    BY <1>2, <2>2
  <2> QED
    BY <2>1, <2>3, <2>4, <2>5, <2>6 DEF Between
<1>6. CASE req.offset < 0
  <2>1. Behind(B, C, req.offset, Spent * l)
    BY <1>6 DEF IInv, WriteInv
  <2>2. from = Len(B) + req.offset + 1
    BY <1>1, <1>2, <1>6 DEF SeekTo
  <2>3. i \in 1..Len(B)
    OBVIOUS
  <2> HIDE DEF B, C, l
  <2>4. i <= Len(C) /\ i \in Nat
    BY <1>2, <2>1, <2>3 DEF Behind
  <2>5. C[i] = B[i] \/ (from < i /\ i <= from + Spent * l)
    BY <2>1, <2>2, <2>3 DEF Behind
  <2>6. from \in Int
    BY <1>1, <1>2, <2>2
  <2>7. from < i /\ i <= from + Spent * l => i > from /\ i <= from + tries * l
    BY <1>4, <2>4, <2>6
  <2> QED
    BY <2>4, <2>5, <2>7 DEF B, C, l
<1> QED
  BY <1>1, <1>5, <1>6

(* Whatever fails, stops or is sent again, a write changes only the range  *)
(* it names, and every other object stays as it is (obj_store.cc:61-84).   *)
THEOREM Locality == LiveSpec => []DamageIsLocal
<1>1. IInv => DamageIsLocal
  <2> SUFFICES ASSUME IInv, NEW o \in Objects, files[o] # base[o],
                      ~(o = req.id /\ req.op = "Delete" /\ files[o] = Missing)
               PROVE  /\ o = req.id /\ req.op = "Write"
                      /\ \A i \in 1..Len(Before(o)) :
                           \/ i <= Len(Content(o)) /\ Content(o)[i] = Before(o)[i]
                           \/ LET from == SeekTo(req.offset, Len(Before(o)))
                              IN  i > from /\ i <= from + tries * Len(req.data)
    BY Zenon DEF DamageIsLocal
  <2>1. o = req.id /\ req.op \notin {"none", "Read", "Hash"}
    BY DEF IInv, OthersInv
  <2>2. req \in Requests
    BY <2>1 DEF IInv, TypeInv, NoRequest
  <2>3. req.op # "Delete"
    BY <2>1 DEF IInv, OthersInv
  <2>4. req.op = "Write"
    BY <2>1, <2>2, <2>3, RequestLemma
  <2> DEFINE from == SeekTo(req.offset, Len(Before(req.id)))
  <2>5. \A i \in 1..Len(Before(req.id)) :
          \/ i <= Len(Content(req.id)) /\ Content(req.id)[i] = Before(req.id)[i]
          \/ i > from /\ i <= from + tries * Len(req.data)
    BY <2>2, <2>4, LocalLemma
  <2> QED
    BY <2>1, <2>4, <2>5
<1> QED
  BY <1>1, Invariance, PTL

(* The bytes taken behind a place are a beginning of the rest from there.  *)
Rest(C, from) == SubSeq(C, from + 1, Len(C))

StartOf(g, rest) == IsPrefix(g, rest) /\ SubSeq(rest, 1, Len(g)) = g

LEMMA TakenLemma ==
  ASSUME NEW C \in Seq(Bytes), NEW from \in Nat, NEW g \in Seq(Bytes), Taken(g, C, from)
  PROVE  StartOf(g, Rest(C, from)) /\ (Len(C) <= from + Len(g) => g = Rest(C, from))
<1> DEFINE rest == Rest(C, from)
<1>1. Len(C) \in Nat /\ Len(g) \in Nat
  OBVIOUS
<1>2. /\ rest \in Seq(Bytes) /\ Len(rest) \in Nat
      /\ Len(rest) = IF from >= Len(C) THEN 0 ELSE Len(C) - from
      /\ \A i \in 1..Len(rest) : rest[i] = C[from + i]
  BY <1>1 DEF Rest
<1> HIDE DEF rest
<1>3. Len(g) <= Len(rest)
  <2>1. CASE g = <<>>
    BY <1>2, <2>1
  <2>2. CASE g # <<>>
    BY <1>1, <1>2, <2>2 DEF Taken
  <2> QED
    BY <2>1, <2>2
<1>4. \A i \in 1..Len(g) : g[i] = rest[i]
  BY <1>1, <1>2, <1>3 DEF Taken
<1>5. IsPrefix(g, rest) /\ SubSeq(rest, 1, Len(g)) = g
  BY <1>2, <1>3, <1>4, PrefixLemma
<1>6. ASSUME Len(C) <= from + Len(g) PROVE g = rest
  <2>1. Len(g) = Len(rest)
    BY <1>1, <1>2, <1>3, <1>6
  <2> QED
    BY <1>2, <1>4, <2>1, SeqEqual
<1> QED
  BY <1>5, <1>6 DEF rest, StartOf

(* An OK read or hash is of the bytes at the place asked for: at least one *)
(* and at most len for a read, exactly len for a hash, or all to the end   *)
(* (obj_store.cc:117-126, 196-220).                                        *)
THEOREM Answers == LiveSpec => []AnswerIsTheRange
<1> DEFINE C == Content(req.id)
           rest == Rest(C, From)
           Said(op) ==
             CASE req.len > 0 /\ op = "Hash" -> got = SubSeq(rest, 1, req.len) /\ Len(got) = req.len
               [] req.len > 0 /\ op = "Read" -> got # <<>> /\ IsPrefix(got, rest) /\ Len(got) <= req.len
               [] OTHER -> got = IF op = "Hash" THEN rest ELSE <<>>
<1>0. (\A op \in {"Read", "Hash"} : Answered(op) => Said(op)) => AnswerIsTheRange
  BY Zenon DEF AnswerIsTheRange, From, Rest
<1> HIDE DEF Said
<1>1. ASSUME IInv, NEW op \in {"Read", "Hash"}, Answered(op)
      PROVE  Said(op)
  <2>1. req \in Requests /\ req.op = op /\ got \in Seq(Bytes)
    BY <1>1, NoRequestLemma DEF IInv, TypeInv, Answered
  <2>2. req.id \in Objects /\ req.offset \in Int /\ req.len \in Int
    BY <2>1, RequestLemma
  <2>3. C \in Seq(Bytes) /\ Len(C) \in Nat
    BY <1>1, <2>2, ContentLemma DEF IInv
  <2>4. From \in Int
    BY <2>2, <2>3 DEF From, SeekTo
  <2>5. From >= 0 /\ Taken(got, C, From)
    BY <1>1 DEF IInv, ReadInv, HashInv
  <2>6. /\ op = "Read" => IF req.len > 0 THEN got # <<>> /\ Len(got) <= req.len ELSE got = <<>>
        /\ op = "Hash" => IF req.len > 0 THEN Len(got) = req.len ELSE Len(C) <= From + Len(got)
    BY <1>1 DEF IInv, ReadInv, HashInv
  <2> HIDE DEF C
  <2>7. StartOf(got, rest) /\ (Len(C) <= From + Len(got) => got = rest)
    BY <2>1, <2>3, <2>4, <2>5, TakenLemma
  <2> HIDE DEF rest
  <2>8. CASE req.len > 0 /\ op = "Hash"
    BY <2>6, <2>7, <2>8 DEF Said, StartOf
  <2>9. CASE req.len > 0 /\ op = "Read"
    BY <2>6, <2>7, <2>9 DEF Said, StartOf
  <2>10. CASE ~(req.len > 0)
    BY <2>6, <2>7, <2>10 DEF Said, StartOf
  <2> QED
    BY <2>8, <2>9, <2>10
<1>2. IInv => \A op \in {"Read", "Hash"} : Answered(op) => Said(op)
  BY <1>1
<1> QED
  BY <1>0, <1>2, Invariance, PTL

-----------------------------------------------------------------------------
(* The handlers of UnaryHandler, which take the store's requests from gRPC.*)

(* A handler that gRPC holds an operation for has requested an RPC and is  *)
(* in state 1; state 2 holds none.                                         *)
RpcState ==
  \A h \in Handlers :
    /\ ops[h] # {} => ops[h] = {"Accept"} /\ state[h] = 1 /\ service[h] # NoService
    /\ state[h] \in 0..2

Listens(h, s) == service[h] = s /\ "Accept" \in ops[h]

(* One handler listens for each service. *)
ListenInv ==
  serverUp => \A s \in Services :
    /\ \E h \in Handlers : Listens(h, s)
    /\ \A g, h \in Handlers : Listens(g, s) /\ Listens(h, s) => g = h

RpcInv == TypeOK /\ RpcState /\ ListenInv

-----------------------------------------------------------------------------
LEMMA RpcInit ==
  ASSUME HandlerInit
  PROVE  RpcInv
<1> USE ServicesAssumption
<1>1. PICK first \in [Services -> Handlers] :
        /\ \A s, t \in Services : first[s] = first[t] => s = t
        /\ service = [h \in Handlers |->
             IF \E s \in Services : first[s] = h
             THEN CHOOSE s \in Services : first[s] = h ELSE NoService]
        /\ state = [h \in Handlers |-> IF service[h] = NoService THEN 0 ELSE 1]
        /\ ops = [h \in Handlers |-> IF service[h] = NoService THEN {} ELSE {"Accept"}]
        /\ rpc = [h \in Handlers |-> FALSE]
  BY DEF HandlerInit
<1>2. \A h \in Handlers : /\ service[h] \in Services => first[service[h]] = h
                          /\ service[h] \in Services \cup {NoService}
  <2> TAKE h \in Handlers
  <2>1. CASE \E s \in Services : first[s] = h
    <3>1. service[h] \in Services /\ first[service[h]] = h
      BY <1>1, <2>1
    <3> QED
      BY <3>1
  <2>2. CASE ~\E s \in Services : first[s] = h
    <3>1. service[h] = NoService
      BY <1>1, <2>2
    <3> QED
      BY <3>1
  <2> QED
    BY <2>1, <2>2
<1>3. \A s \in Services : service[first[s]] = s
  BY <1>1
<1>4. service \in [Handlers -> Services \cup {NoService}]
  BY <1>1, <1>2
<1>5. TypeOK /\ RpcState
  BY <1>1, <1>4 DEF TypeOK, RpcState, Unused, LastState
<1>6. ListenInv
  BY <1>1, <1>2, <1>3 DEF ListenInv, Listens
<1> QED
  BY <1>5, <1>6 DEF RpcInv

(* An RPC arrives: the clone takes over listening. *)
LEMMA RpcAccept ==
  ASSUME RpcInv, NEW h \in Handlers, NEW ok \in BOOLEAN,
         "Accept" \in ops[h], ok = serverUp, ok => Unused # {}, Process(h, "Accept", ok)
  PROVE  RpcInv'
<1> USE ServicesAssumption
<1>1. /\ state[h] = 1 /\ ops[h] = {"Accept"} /\ service[h] \in Services
  BY DEF RpcInv, RpcState, TypeOK
<1>2. PICK C \in (IF ok THEN {{n} : n \in Unused} ELSE {{}}) :
        /\ service' = [x \in Handlers |-> IF x \in C THEN service[h] ELSE service[x]]
        /\ state' = [x \in Handlers |-> IF x \in C THEN 1 ELSE IF x # h THEN state[x] ELSE 2]
        /\ ops' = [x \in Handlers |->
             IF x \in C THEN {"Accept"} ELSE IF x = h THEN {} ELSE ops[x]]
        /\ rpc' = [rpc EXCEPT ![h] = ok \/ rpc[h]]
        /\ serverUp' = serverUp
  <2>1. PICK C \in (IF state[h] = 1 /\ ok THEN {{n} : n \in Unused} ELSE {{}}) :
          /\ service' = [x \in Handlers |->
               IF x \in C THEN service[h]
               ELSE IF x = h /\ Destroys(state[h]) THEN NoService ELSE service[x]]
          /\ state' = [x \in Handlers |->
               IF x \in C THEN NextState(0)
               ELSE IF x # h THEN state[x]
               ELSE IF Destroys(state[h]) THEN 0 ELSE NextState(state[h])]
          /\ ops' = [x \in Handlers |->
               IF x \in C THEN Emits(0)
               ELSE IF x = h THEN (ops[h] \ {"Accept"}) \cup Emits(state[h]) ELSE ops[x]]
          /\ rpc' = [rpc EXCEPT ![h] = ("Accept" = "Accept" /\ ok) \/ (rpc[h] /\ state[h] # 2)]
          /\ serverUp' = serverUp
    BY Zenon DEF Process
  <2>2. ~Destroys(1) /\ NextState(0) = 1 /\ NextState(1) = 2
    BY DEF Destroys, NextState
  <2>3. Emits(0) = {"Accept"} /\ (ops[h] \ {"Accept"}) \cup Emits(1) = {}
    BY <1>1 DEF Emits
  <2> QED
    <3>1. service' = [x \in Handlers |-> IF x \in C THEN service[h] ELSE service[x]]
      BY <1>1, <2>1, <2>2
    <3>2. state' = [x \in Handlers |-> IF x \in C THEN 1 ELSE IF x # h THEN state[x] ELSE 2]
      BY <1>1, <2>1, <2>2
    <3>3. ops' = [x \in Handlers |->
             IF x \in C THEN {"Accept"} ELSE IF x = h THEN {} ELSE ops[x]]
      BY <1>1, <2>1, <2>3
    <3>4. C \in (IF ok THEN {{n} : n \in Unused} ELSE {{}})
      BY <1>1, <2>1
    <3>5. rpc' = [rpc EXCEPT ![h] = ok \/ rpc[h]]
      BY <1>1, <2>1
    <3> QED
      BY <2>1, <3>1, <3>2, <3>3, <3>4, <3>5, Zenon
<1>3. /\ \A n \in C : n \in Handlers /\ service[n] = NoService /\ ops[n] = {} /\ n # h
      /\ \A m, n \in C : m = n
  BY <1>1, <1>2 DEF RpcInv, TypeOK, Unused
<1>4. /\ service' \in [Handlers -> Services \cup {NoService}]
      /\ state' \in [Handlers -> {0, 1, 2, LastState}]
      /\ ops' \in [Handlers -> SUBSET {"Accept", "Finish"}]
      /\ rpc' \in [Handlers -> BOOLEAN]
  BY <1>1, <1>2 DEF RpcInv, TypeOK
<1>5. \A x \in Unused' : state'[x] = 0 /\ ops'[x] = {} /\ ~rpc'[x]
  <2> SUFFICES ASSUME NEW x \in Handlers, service'[x] = NoService
               PROVE  state'[x] = 0 /\ ops'[x] = {} /\ ~rpc'[x]
    BY DEF Unused
  <2>1. x \notin C /\ x # h /\ service[x] = NoService
    BY <1>1, <1>2
  <2> QED
    BY <1>2, <2>1 DEF RpcInv, TypeOK, Unused
<1>6. RpcState'
  BY <1>1, <1>2 DEF RpcInv, RpcState
<1>7. ListenInv'
  <2> SUFFICES ASSUME serverUp, NEW s \in Services
               PROVE  /\ \E g \in Handlers : Listens(g, s)'
                      /\ \A f, g \in Handlers : Listens(f, s)' /\ Listens(g, s)' => f = g
    BY <1>2 DEF ListenInv
  <2>1. PICK n \in Handlers : C = {n}
    BY <1>2 DEF Unused
  <2>2. \A g \in Handlers :
          Listens(g, s)' <=> IF g = n THEN s = service[h] ELSE g # h /\ Listens(g, s)
    BY <1>2, <1>3, <2>1 DEF Listens
  <2>3. CASE s = service[h]
    <3>1. Listens(h, s)
      BY <2>3 DEF Listens
    <3>2. \A g \in Handlers : Listens(g, s) => g = h
      BY <3>1 DEF RpcInv, ListenInv
    <3> QED
      BY <2>2, <2>3, <3>2
  <2>4. CASE s # service[h]
    <3>1. ~Listens(h, s) /\ ~Listens(n, s)
      BY <1>3, <2>1, <2>4 DEF Listens
    <3>2. \A g \in Handlers : Listens(g, s)' <=> Listens(g, s)
      BY <2>2, <2>4, <3>1
    <3> QED
      BY <3>2 DEF RpcInv, ListenInv
  <2> QED
    BY <2>3, <2>4
<1> QED
  BY <1>4, <1>5, <1>6, <1>7 DEF RpcInv, TypeOK

(* callback.h: whatever happens on the chains of the services, each has    *)
(* exactly one handler waiting for it until the server shuts down.         *)
THEOREM Listening == Spec => []EveryServiceListens
<1>0. HandlerInit => RpcInv
  BY RpcInit
<1>1. RpcInv /\ [HandlerNext]_handlerVars => RpcInv'
  <2> SUFFICES ASSUME RpcInv, [HandlerNext]_handlerVars PROVE RpcInv'
    OBVIOUS
  <2>1. ASSUME NEW h \in Handlers, Completion(h) PROVE RpcInv'
    <3>1. PICK op \in {"Accept", "Finish"}, ok \in BOOLEAN :
            Delivers(h, op, ok) /\ Process(h, op, ok)
      BY <2>1 DEF Completion
    <3>2. op = "Accept"
      BY <3>1 DEF Delivers, RpcInv, RpcState
    <3> QED
      BY <3>1, <3>2, RpcAccept DEF Delivers
  <2>2. CASE Shutdown
    BY <2>2 DEF Shutdown, RpcInv, TypeOK, RpcState, ListenInv, Unused
  <2>3. CASE UNCHANGED handlerVars
    BY <2>3 DEF handlerVars, RpcInv, TypeOK, RpcState, ListenInv, Listens, Unused
  <2> QED
    BY <2>1, <2>2, <2>3 DEF HandlerNext
<1>2. RpcInv => EveryServiceListens
  <2> SUFFICES ASSUME RpcInv, serverUp, NEW s \in Services
               PROVE  Cardinality({h \in Handlers : service[h] = s /\ "Accept" \in ops[h]}) = 1
    BY Zenon DEF EveryServiceListens
  <2>1. PICK h \in Handlers : Listens(h, s)
    BY DEF RpcInv, ListenInv
  <2>2. {g \in Handlers : service[g] = s /\ "Accept" \in ops[g]} = {h}
    BY <2>1 DEF RpcInv, ListenInv, Listens
  <2> QED
    BY <2>2, FS_Singleton
<1> QED
  BY <1>0, <1>1, <1>2, PTL DEF Spec
=============================================================================
