--------------------------- MODULE Endpoint_proofs ---------------------------
(***************************************************************************)
(* Theorems about Endpoint, for any payloads, any number of operations and *)
(* handshakes and any buffers.  The inductive invariant adds to the        *)
(* property that the buffer still has the refused slice: a write that ends *)
(* well leaves nothing for the library to ask for.  For two operations     *)
(* that wait together it adds that the descriptor is armed for nothing     *)
(* else, so that what epoll then reports is for one of them.               *)
(***************************************************************************)
EXTENDS Endpoint, SequenceTheorems, WellFoundedInduction, TLAPS

Stages == {"idle", "try", "push", "waiting", "taken", "writing"}

TypeInv ==
  /\ stage \in [Ops -> Stages]
  /\ stage["read"] # "writing"
  /\ want  \in [Ops -> {"In", "Out"}]
  /\ armed \subseteq {"In", "Out"} /\ fired \subseteq {"In", "Out"}
  /\ data  \in Seq(Seq(Nat))
  /\ retry \in Seq(Nat)

(* What the library refused is what the write will offer it next. *)
RetryInv == retry # <<>> => stage["write"] # "idle" /\ data # <<>> /\ Head(data) = retry

IInv == TypeInv /\ RetryInv

-----------------------------------------------------------------------------
LEMMA OpsFact == "read" \in Ops /\ "write" \in Ops /\ Ops = {"read", "write"}
  BY DEF Ops

(* The slices of a buffer. *)
LEMMA SliceType ==
  ASSUME NEW d \in Seq(Seq(Nat)), d # <<>>
  PROVE  Head(d) \in Seq(Nat) /\ Tail(d) \in Seq(Seq(Nat))
  BY HeadTailProperties

LEMMA WantedType == \A o : Wanted(o) \in {"", "In", "Out"}
  BY Zenon DEF Wanted

LEMMA InitInv == Init => IInv
  BY OpsFact DEF Init, IInv, TypeInv, RetryInv, Stages

(* A step that leaves the write, its buffer and the library's demand alone. *)
LEMMA WriteUntouched ==
  ASSUME IInv, TypeInv', UNCHANGED <<data, retry>>,
         stage["write"] # "idle" => stage'["write"] # "idle"
  PROVE  IInv'
  BY DEF IInv, RetryInv

(* The operations asked for. *)
LEMMA AskStep == ASSUME IInv, Read \/ Write PROVE IInv'
<1>1. CASE Read
  BY <1>1, OpsFact DEF Read, IInv, TypeInv, RetryInv, Stages, poll, library
<1>2. CASE Write
  <2>1. retry' = <<>>
    BY <1>2 DEF Write, IInv, RetryInv, library
  <2>2. TypeInv'
    BY <1>2, OpsFact, PayloadsAssumption DEF Write, IInv, TypeInv, Stages, poll, library
  <2> QED BY <2>1, <2>2 DEF IInv, RetryInv
<1> QED BY <1>1, <1>2

(* The peer, the library's handshake and the poll engine do not touch the  *)
(* buffer.                                                                 *)
LEMMA PeerStep ==
  ASSUME IInv, PeerSends \/ PeerStartsHandshake \/ PeerTakes \/ PeerAnswers
  PROVE  IInv'
  BY DEF PeerSends, PeerStartsHandshake, PeerTakes, PeerAnswers, IInv, TypeInv, RetryInv,
     poll, history

LEMMA PollStep ==
  ASSUME IInv, NEW o \in Ops, EpollWait \/ Take \/ Steps(o)
  PROVE  IInv'
<1>1. CASE EpollWait
  BY <1>1 DEF EpollWait, IInv, TypeInv, RetryInv, Ready, library, history
<1>2. CASE Take
  <2>1. TypeInv'
    BY <1>2, OpsFact DEF Take, IInv, TypeInv, Stages, library, history
  <2>2. stage["write"] # "idle" => stage'["write"] # "idle"
    BY <1>2, OpsFact DEF Take
  <2> QED BY <1>2, <2>1, <2>2, WriteUntouched DEF Take, library
<1>3. CASE Handshake(o)
  BY <1>3 DEF Handshake, IInv, TypeInv, RetryInv, poll, history
<1>4. CASE Push(o)
  <2>1. TypeInv'
    BY <1>4, OpsFact DEF Push, Armed, WaitingFor, IInv, TypeInv, Stages, library, history
  <2>2. stage["write"] # "idle" => stage'["write"] # "idle"
    BY <1>4, OpsFact DEF Push, IInv, TypeInv
  <2> QED BY <1>4, <2>1, <2>2, WriteUntouched DEF Push, library
<1>5. CASE Call(o)
  <2>1. TypeInv'
    BY <1>5, OpsFact DEF Call, IInv, TypeInv, Stages, poll, library, history
  <2>2. stage["write"] # "idle" => stage'["write"] # "idle"
    BY <1>5, OpsFact DEF Call, IInv, TypeInv
  <2> QED BY <1>5, <2>1, <2>2, WriteUntouched DEF Call, library
<1> QED BY <1>1, <1>2, <1>3, <1>4, <1>5 DEF Steps

(* A read moves itself only. *)
LEMMA ReadStep == ASSUME IInv, DoRead PROVE IInv'
<1>1. stage' = [stage EXCEPT !["read"] = "push"] \/ stage' = [stage EXCEPT !["read"] = "idle"]
  BY DEF DoRead, Blocked
<1>2. want' \in [Ops -> {"In", "Out"}]
  BY WantedType, OpsFact DEF DoRead, Blocked, IInv, TypeInv
<1>3. TypeInv'
  BY <1>1, <1>2, OpsFact DEF DoRead, IInv, TypeInv, Stages, poll, history
<1> QED BY <1>1, <1>3, OpsFact, WriteUntouched DEF DoRead, IInv, TypeInv

(* A write takes a slice, in part or whole, or is refused, fails or ends.  *)
LEMMA WriteSteps == ASSUME IInv, WriteStep PROVE IInv'
<1>1. CASE WriteSlice \/ WritePart
  <2>1. CanSend /\ data' = Tail(data) /\ retry' = <<>> /\ UNCHANGED <<want, poll>>
    BY <1>1, Zenon DEF WriteSlice, WritePart, Sends
  <2>2. data' \in Seq(Seq(Nat))
    BY <2>1, SliceType DEF CanSend, IInv, TypeInv
  <2>3. stage' = [stage EXCEPT !["write"] = "writing"] \/ stage' = stage
    BY <1>1, Zenon DEF WriteSlice, WritePart
  <2>4. stage' \in [Ops -> Stages] /\ stage'["read"] # "writing"
    BY <2>3, OpsFact DEF IInv, TypeInv, Stages
  <2> QED BY <2>1, <2>2, <2>4 DEF IInv, TypeInv, RetryInv, poll
<1>2. CASE WriteBlocked
  <2>1. Head(data) \in Seq(Nat)
    BY <1>2, SliceType DEF WriteBlocked, IInv, TypeInv
  <2>2. TypeInv'
    BY <1>2, <2>1, WantedType, OpsFact DEF WriteBlocked, Blocked, Requeued, IInv, TypeInv,
       Stages, poll, history
  <2>3. stage'["write"] # "idle" /\ data' = data /\ data # <<>> /\ retry' = Head(data)
    BY <1>2, OpsFact DEF WriteBlocked, Blocked, Requeued, IInv, TypeInv
  <2> QED BY <2>2, <2>3 DEF IInv, RetryInv
<1>3. CASE WriteDone
  <2>1. retry = <<>>
    BY <1>3 DEF WriteDone, IInv, RetryInv
  <2> QED BY <1>3, <2>1, OpsFact DEF WriteDone, IInv, TypeInv, RetryInv, Stages, poll,
             library, history
<1>4. CASE WriteFails
  BY <1>4, OpsFact DEF WriteFails, IInv, TypeInv, RetryInv, Stages, poll
<1> QED BY <1>1, <1>2, <1>3, <1>4 DEF WriteStep

(* Nothing changes. *)
LEMMA StutterStep == ASSUME IInv, UNCHANGED vars PROVE IInv'
  BY DEF IInv, TypeInv, RetryInv, vars

LEMMA StepInv == IInv /\ [Next]_vars => IInv'
<1> SUFFICES ASSUME IInv, [Next]_vars PROVE IInv'
  OBVIOUS
<1>1. CASE Next
  BY <1>1, OpsFact, AskStep, PeerStep, PollStep, ReadStep, WriteSteps DEF Next
<1> QED BY <1>1, StutterStep

THEOREM Invariance == Spec => []IInv
  BY InitInv, StepInv, PTL DEF Spec

(* A slice the library refused is offered again as it was                  *)
(* (ssl_endpoint.cc:155-158), for any payloads and handshakes.             *)
THEOREM SameRetry == Spec => []RetryIsSame
<1>1. IInv => RetryIsSame
  BY DEF IInv, RetryInv, RetryIsSame
<1> QED BY <1>1, Invariance, PTL

-----------------------------------------------------------------------------
(* The slices of a buffer in one sequence.  FlattenSeq is a recursive      *)
(* function: that it exists, and what it is, follows from induction over   *)
(* the naturals, stated for a set.                                         *)

Below == {ss \in Nat \X Nat : ss[1] < ss[2]}

LEMMA BelowWellFounded == IsWellFoundedOn(Below, Nat)
  BY NatLessThanWellFounded DEF OpToRel, Below

LEMMA LeastNatural ==
  ASSUME NEW T \in SUBSET Nat, T # {}
  PROVE  \E n \in T : \A m \in T : n <= m
<1>1. PICK x \in T : \A y \in T : <<y, x>> \notin Below
  BY BelowWellFounded, WFMin
<1>2. \A y \in T : ~ (y < x)
  BY <1>1 DEF Below
<1> QED
  BY <1>2

LEMMA SetInduction ==
  ASSUME NEW T, 0 \in T, \A n \in Nat : n \in T => n + 1 \in T
  PROVE  Nat \subseteq T
<1> DEFINE U == Nat \ T
<1> SUFFICES ASSUME U # {} PROVE FALSE
  OBVIOUS
<1>1. PICK n \in U : \A m \in U : n <= m
  BY LeastNatural
<1>2. n # 0 /\ n - 1 \in Nat /\ n - 1 \notin U
  BY <1>1
<1> QED
  BY <1>1, <1>2

(* `f` is the recursive function of FlattenSeq, for the first n slices.    *)
Joins(f, s, n) == f = [i \in 1..n |-> IF i = 1 THEN s[i] ELSE f[i - 1] \o s[i]]

LEMMA FlattenDef ==
  ASSUME NEW s, Len(s) # 0, NEW g, Joins(g, s, Len(s)),
         \A f : Joins(f, s, Len(s)) => f[Len(s)] = g[Len(s)]
  PROVE  FlattenSeq(s) = g[Len(s)]
<1> DEFINE P(f) == f = [i \in 1..Len(s) |-> IF i = 1 THEN s[i] ELSE f[i - 1] \o s[i]]
<1>1. FlattenSeq(s) = (CHOOSE f : P(f))[Len(s)]
  BY DEF FlattenSeq
<1>2. ASSUME NEW f PROVE P(f) <=> Joins(f, s, Len(s))
  BY DEF Joins
<1> HIDE DEF P
<1>3. P(CHOOSE f : P(f))
  BY <1>2
<1> QED
  BY <1>1, <1>2, <1>3

LEMMA JoinsExists ==
  ASSUME NEW s, NEW n \in Nat
  PROVE  \E f : Joins(f, s, n)
<1> DEFINE T == {k \in Nat : \E f : Joins(f, s, k)}
<1>1. 0 \in T
  <2> DEFINE f == [i \in 1..0 |-> 0]
  <2>1. f = [i \in 1..0 |-> IF i = 1 THEN s[i] ELSE f[i - 1] \o s[i]]
    OBVIOUS
  <2> HIDE DEF f
  <2>2. Joins(f, s, 0)
    BY <2>1 DEF Joins
  <2> QED
    BY <2>2
<1>2. ASSUME NEW k \in Nat, k \in T PROVE k + 1 \in T
  <2>1. PICK old : Joins(old, s, k)
    BY <1>2
  <2>2. old = [i \in 1..k |-> IF i = 1 THEN s[i] ELSE old[i - 1] \o s[i]]
    BY <2>1 DEF Joins
  <2> DEFINE f == [i \in 1..k + 1 |-> IF i = 1 THEN s[i] ELSE old[i - 1] \o s[i]]
  <2>3. \A i \in 1..k : f[i] = old[i]
    <3> TAKE i \in 1..k
    <3>1. i \in 1..k + 1
      OBVIOUS
    <3> QED
      BY <2>2, <3>1
  <2>4. \A i \in 1..k + 1 : i # 1 => f[i - 1] = old[i - 1]
    <3> TAKE i \in 1..k + 1
    <3>1. i # 1 => i - 1 \in 1..k
      OBVIOUS
    <3> QED
      BY <2>3, <3>1
  <2>5. f = [i \in 1..k + 1 |-> IF i = 1 THEN s[i] ELSE f[i - 1] \o s[i]]
    BY <2>4
  <2> HIDE DEF f
  <2>6. Joins(f, s, k + 1)
    BY <2>5 DEF Joins
  <2> QED
    BY <2>6
<1> HIDE DEF T
<1>3. n \in T
  BY <1>1, <1>2, SetInduction
<1> QED
  BY <1>3 DEF T

LEMMA JoinsAt ==
  ASSUME NEW s, NEW n \in Nat, NEW f, Joins(f, s, n), NEW i \in 1..n
  PROVE  f[i] = IF i = 1 THEN s[i] ELSE f[i - 1] \o s[i]
  BY DEF Joins

LEMMA JoinsUnique ==
  ASSUME NEW s, NEW n \in Nat, NEW f, Joins(f, s, n), NEW g, Joins(g, s, n), NEW i \in 1..n
  PROVE  f[i] = g[i]
<1> DEFINE T == {k \in Nat : k \in 1..n => f[k] = g[k]}
<1>1. 0 \in T
  OBVIOUS
<1>2. ASSUME NEW k \in Nat, k \in T PROVE k + 1 \in T
  <2> SUFFICES ASSUME k + 1 \in 1..n PROVE f[k + 1] = g[k + 1]
    OBVIOUS
  <2>1. PICK j \in 1..n : j = k + 1
    OBVIOUS
  <2>2. /\ f[j] = IF j = 1 THEN s[j] ELSE f[j - 1] \o s[j]
        /\ g[j] = IF j = 1 THEN s[j] ELSE g[j - 1] \o s[j]
    BY JoinsAt
  <2>3. j # 1 => f[j - 1] = g[j - 1]
    BY <1>2, <2>1
  <2> QED
    BY <2>1, <2>2, <2>3
<1> HIDE DEF T
<1>3. i \in T
  BY <1>1, <1>2, SetInduction
<1> QED
  BY <1>3 DEF T

LEMMA FlattenIs ==
  ASSUME NEW s \in Seq(Seq(Nat)), s # <<>>, NEW f, Joins(f, s, Len(s))
  PROVE  FlattenSeq(s) = f[Len(s)]
<1>1. Len(s) \in Nat /\ Len(s) # 0 /\ Len(s) \in 1..Len(s)
  OBVIOUS
<1>2. ASSUME NEW g, Joins(g, s, Len(s)) PROVE g[Len(s)] = f[Len(s)]
  BY <1>1, <1>2, JoinsUnique
<1> QED
  BY <1>1, <1>2, FlattenDef

LEMMA JoinsType ==
  ASSUME NEW s \in Seq(Seq(Nat)), NEW f, Joins(f, s, Len(s)), NEW i \in 1..Len(s)
  PROVE  f[i] \in Seq(Nat)
<1> DEFINE T == {k \in Nat : k \in 1..Len(s) => f[k] \in Seq(Nat)}
<1>0. Len(s) \in Nat
  OBVIOUS
<1>1. 0 \in T
  OBVIOUS
<1>2. ASSUME NEW k \in Nat, k \in T PROVE k + 1 \in T
  <2> SUFFICES ASSUME k + 1 \in 1..Len(s) PROVE f[k + 1] \in Seq(Nat)
    OBVIOUS
  <2>1. PICK j \in 1..Len(s) : j = k + 1
    OBVIOUS
  <2>2. f[j] = IF j = 1 THEN s[j] ELSE f[j - 1] \o s[j]
    BY <1>0, JoinsAt
  <2>3. j # 1 => f[j - 1] \in Seq(Nat)
    BY <1>2, <2>1
  <2>4. s[j] \in Seq(Nat)
    OBVIOUS
  <2> QED
    BY <2>1, <2>2, <2>3, <2>4
<1> HIDE DEF T
<1>3. Nat \subseteq T
  BY <1>1, <1>2, SetInduction
<1>4. i \in Nat
  OBVIOUS
<1> QED
  BY <1>3, <1>4 DEF T

LEMMA FlattenType ==
  ASSUME NEW s \in Seq(Seq(Nat))
  PROVE  FlattenSeq(s) \in Seq(Nat)
<1>1. CASE s = <<>>
  BY <1>1 DEF FlattenSeq
<1>2. CASE s # <<>>
  <2>1. Len(s) \in Nat /\ Len(s) \in 1..Len(s)
    BY <1>2
  <2>2. PICK f : Joins(f, s, Len(s))
    BY <2>1, JoinsExists
  <2>3. f[Len(s)] \in Seq(Nat)
    BY <2>1, <2>2, JoinsType
  <2> QED
    BY <1>2, <2>2, <2>3, FlattenIs
<1> QED
  BY <1>1, <1>2

LEMMA Associates ==
  ASSUME NEW s \in Seq(Nat), NEW t \in Seq(Nat), NEW u \in Seq(Nat)
  PROVE  (s \o t) \o u = s \o (t \o u)
<1> DEFINE l == (s \o t) \o u
           r == s \o (t \o u)
<1>1. l \in Seq(Nat) /\ r \in Seq(Nat) /\ Len(l) = Len(r)
  OBVIOUS
<1>2. \A i \in 1..Len(l) : l[i] = r[i]
  OBVIOUS
<1> HIDE DEF l, r
<1>3. l = r
  BY <1>1, <1>2, SeqEqual
<1> QED
  BY <1>3 DEF l, r

(* The first slice comes first. *)
LEMMA FlattenCons ==
  ASSUME NEW x \in Seq(Nat), NEW t \in Seq(Seq(Nat))
  PROVE  FlattenSeq(<<x>> \o t) = x \o FlattenSeq(t)
<1> DEFINE d == <<x>> \o t
<1>1. /\ d \in Seq(Seq(Nat)) /\ d # <<>> /\ Len(d) = Len(t) + 1 /\ d[1] = x
      /\ \A i \in 1..Len(t) : d[i + 1] = t[i]
      /\ Len(t) \in Nat /\ Len(d) \in Nat
  OBVIOUS
<1> HIDE DEF d
<1>2. PICK f : Joins(f, d, Len(d))
  BY <1>1, JoinsExists
<1>3. FlattenSeq(d) = f[Len(d)]
  BY <1>1, <1>2, FlattenIs
<1>4. f[1] = x
  <2>1. 1 \in 1..Len(d)
    BY <1>1
  <2> QED
    BY <1>1, <1>2, <2>1, JoinsAt
<1>5. CASE t = <<>>
  <2>1. FlattenSeq(t) = <<>> /\ Len(d) = 1
    BY <1>1, <1>5 DEF FlattenSeq
  <2> QED
    BY <1>3, <1>4, <2>1 DEF d
<1>6. CASE t # <<>>
  <2>1. Len(t) \in 1..Len(t)
    BY <1>1, <1>6
  <2>2. PICK g : Joins(g, t, Len(t))
    BY <1>1, JoinsExists
  <2>3. FlattenSeq(t) = g[Len(t)]
    BY <1>6, <2>2, FlattenIs
  <2> DEFINE T == {k \in Nat : k \in 1..Len(t) => f[k + 1] = x \o g[k]}
  <2>4. 0 \in T
    OBVIOUS
  <2>5. ASSUME NEW k \in Nat, k \in T PROVE k + 1 \in T
    <3> SUFFICES ASSUME k + 1 \in 1..Len(t) PROVE f[(k + 1) + 1] = x \o g[k + 1]
      OBVIOUS
    <3>1. PICK j \in 1..Len(t) : j = k + 1
      OBVIOUS
    <3>2. PICK m \in 1..Len(d) : m = j + 1
      BY <1>1
    <3>0. Len(t) \in Nat /\ Len(d) \in Nat
      BY <1>1
    <3>3. /\ f[m] = IF m = 1 THEN d[m] ELSE f[m - 1] \o d[m]
          /\ g[j] = IF j = 1 THEN t[j] ELSE g[j - 1] \o t[j]
      <4>1. f[m] = IF m = 1 THEN d[m] ELSE f[m - 1] \o d[m]
        BY <1>2, <3>0, JoinsAt
      <4>2. g[j] = IF j = 1 THEN t[j] ELSE g[j - 1] \o t[j]
        BY <2>2, <3>0, JoinsAt
      <4> QED
        BY <4>1, <4>2
    <3>4. m # 1 /\ m - 1 = j /\ d[m] = t[j] /\ t[j] \in Seq(Nat)
      BY <1>1, <3>1, <3>2
    <3>5. f[m] = f[j] \o t[j]
      BY <3>3, <3>4
    <3>6. CASE j = 1
      BY <1>4, <3>1, <3>2, <3>3, <3>5, <3>6
    <3>7. CASE j # 1
      <4>a. k \in 1..Len(t) /\ j - 1 = k
        BY <1>1, <3>1, <3>7
      <4>b. f[k + 1] = x \o g[k]
        BY <2>5, <4>a
      <4>c. g[j] = g[k] \o t[j]
        BY <3>3, <3>7, <4>a
      <4>1. k \in 1..Len(t) /\ f[j] = x \o g[k] /\ g[j] = g[k] \o t[j]
        BY <3>1, <4>a, <4>b, <4>c
      <4>2. g[k] \in Seq(Nat)
        BY <4>1, <2>2, JoinsType
      <4>3. (x \o g[k]) \o t[j] = x \o (g[k] \o t[j])
        BY <3>4, <4>2, Associates
      <4> QED
        BY <3>1, <3>2, <3>5, <4>1, <4>3
    <3> QED
      BY <3>6, <3>7
  <2> HIDE DEF T
  <2>6. Nat \subseteq T
    BY <2>4, <2>5, SetInduction
  <2>7. f[Len(t) + 1] = x \o g[Len(t)]
    BY <1>1, <2>1, <2>6 DEF T
  <2> QED
    BY <1>1, <1>3, <2>3, <2>7 DEF d
<1> QED
  BY <1>5, <1>6

LEMMA FlattenNothing == FlattenSeq(<<>>) = <<>>
  BY DEF FlattenSeq

LEMMA FlattenFirst ==
  ASSUME NEW s \in Seq(Seq(Nat)), s # <<>>
  PROVE  FlattenSeq(s) = Head(s) \o FlattenSeq(Tail(s))
<1>1. Head(s) \in Seq(Nat) /\ Tail(s) \in Seq(Seq(Nat)) /\ s = <<Head(s)>> \o Tail(s)
  OBVIOUS
<1> QED
  BY <1>1, FlattenCons

-----------------------------------------------------------------------------
(* What the library took and what the write holds are what was submitted,  *)
(* and a write that has ended well holds nothing: the next one starts with *)
(* its own slices only.                                                    *)
BytesInv ==
  /\ accepted \in Seq(Nat) /\ submitted \in Seq(Nat)
  /\ BytesInOrder
  /\ stage["write"] = "idle" /\ ~failed => data = <<>>

LEMMA InitBytes == Init => BytesInv
  BY OpsFact, FlattenNothing DEF Init, BytesInv, BytesInOrder

(* A step that leaves the write and its buffer alone. *)
LEMMA BytesUntouched ==
  ASSUME BytesInv, UNCHANGED <<data, accepted, submitted, failed, aborted>>,
         stage'["write"] = "idle" => stage["write"] = "idle"
  PROVE  BytesInv'
  BY DEF BytesInv, BytesInOrder

(* A new write follows the ones before it. *)
LEMMA WriteBytes == ASSUME IInv, BytesInv, ~aborted, Write PROVE BytesInv'
<1>1. PICK p \in Payloads : data' = p /\ submitted' = submitted \o FlattenSeq(p)
  BY Zenon DEF Write
<1>2. /\ ~failed /\ stage["write"] = "idle" /\ UNCHANGED <<accepted, failed, aborted>>
      /\ stage' = [stage EXCEPT !["write"] = "try"]
  BY Zenon DEF Write
<1>3. p \in Seq(Seq(Nat)) /\ FlattenSeq(p) \in Seq(Nat)
  BY PayloadsAssumption, FlattenType
<1>4. accepted \o FlattenSeq(data) = submitted /\ data = <<>> /\ accepted \in Seq(Nat)
  BY <1>2 DEF BytesInv, BytesInOrder
<1>5. submitted = accepted
  BY <1>4, FlattenNothing, ConcatEmptySeq
<1>6. stage'["write"] = "try"
  BY <1>2, OpsFact DEF IInv, TypeInv
<1> QED
  BY <1>1, <1>2, <1>3, <1>5, <1>6 DEF BytesInv, BytesInOrder

(* A slice taken whole. *)
LEMMA SliceBytes == ASSUME IInv, BytesInv, WriteSlice PROVE BytesInv'
<1> DEFINE h == Head(data)
           t == Tail(data)
<1>1. data \in Seq(Seq(Nat)) /\ data # <<>>
  BY DEF WriteSlice, CanSend, IInv, TypeInv
<1>2. h \in Seq(Nat) /\ t \in Seq(Seq(Nat))
  BY <1>1
<1>3. /\ accepted' = accepted \o SubSeq(h, 1, Len(h)) /\ data' = t
      /\ UNCHANGED <<submitted, failed, aborted>>
      /\ stage' = [stage EXCEPT !["write"] = "writing"]
  BY Zenon DEF WriteSlice, Sends
<1>4. stage'["write"] # "idle"
  BY <1>3, OpsFact DEF IInv, TypeInv
<1>5. FlattenSeq(data) = h \o FlattenSeq(t)
  BY <1>1, FlattenFirst
<1>6. FlattenSeq(t) \in Seq(Nat)
  BY <1>2, FlattenType
<1> HIDE DEF h, t
<1>7. SubSeq(h, 1, Len(h)) = h
  BY <1>2
<1>8. accepted \in Seq(Nat) /\ submitted \in Seq(Nat)
  BY DEF BytesInv
<1>9. accepted' \in Seq(Nat)
  BY <1>2, <1>3, <1>7, <1>8
<1>10. ASSUME ~failed, ~aborted PROVE accepted' \o FlattenSeq(data)' = submitted
  <2>1. accepted \o (h \o FlattenSeq(t)) = submitted
    BY <1>5, <1>10 DEF BytesInv, BytesInOrder
  <2>2. (accepted \o h) \o FlattenSeq(t) = accepted \o (h \o FlattenSeq(t))
    BY <1>2, <1>6, <1>8, Associates
  <2>3. accepted' \o FlattenSeq(data)' = (accepted \o h) \o FlattenSeq(t)
    BY <1>3, <1>7
  <2> QED
    BY <2>1, <2>2, <2>3
<1> QED
  BY <1>3, <1>4, <1>8, <1>9, <1>10 DEF BytesInv, BytesInOrder

(* A slice taken in part is the last step of the process. *)
LEMMA PartBytes == ASSUME IInv, BytesInv, WritePart PROVE BytesInv'
<1>1. PICK n \in 1..Len(Head(data)) - 1 : Sends(n)
  BY Zenon DEF WritePart
<1>2. /\ accepted' = accepted \o SubSeq(Head(data), 1, n)
      /\ UNCHANGED <<submitted, failed, stage>> /\ aborted'
  BY <1>1, Zenon DEF WritePart, Sends
<1>3. Head(data) \in Seq(Nat) /\ stage["write"] # "idle"
  BY SliceType DEF WritePart, CanSend, IInv, TypeInv
<1>4. SubSeq(Head(data), 1, n) \in Seq(Nat)
  BY <1>3
<1> QED
  BY <1>2, <1>3, <1>4 DEF BytesInv, BytesInOrder

(* The other ways a write goes on. *)
LEMMA EndBytes ==
  ASSUME IInv, BytesInv, WriteBlocked \/ WriteDone \/ WriteFails
  PROVE  BytesInv'
<1>1. CASE WriteBlocked
  <2>1. stage'["write"] # "idle" /\ UNCHANGED <<data, accepted, submitted, failed, aborted>>
    BY <1>1, OpsFact DEF WriteBlocked, Blocked, Requeued, IInv, TypeInv, history
  <2> QED
    BY <2>1, BytesUntouched
<1>2. CASE WriteDone
  BY <1>2 DEF WriteDone, BytesInv, BytesInOrder, history
<1>3. CASE WriteFails
  BY <1>3 DEF WriteFails, BytesInv, BytesInOrder
<1> QED
  BY <1>1, <1>2, <1>3

(* A read, the peer, the handshake and the poll engine. *)
LEMMA OtherBytes ==
  ASSUME IInv, BytesInv, NEW o \in Ops,
         \/ Read \/ PeerSends \/ PeerStartsHandshake \/ PeerTakes \/ PeerAnswers
         \/ DoRead \/ EpollWait \/ Take \/ Steps(o)
  PROVE  BytesInv'
<1>1. CASE Read
  <2>1. stage'["write"] = stage["write"]
    BY <1>1, OpsFact DEF Read, IInv, TypeInv
  <2> QED
    BY <1>1, <2>1, BytesUntouched DEF Read
<1>2. CASE PeerSends \/ PeerStartsHandshake \/ PeerTakes \/ PeerAnswers
  BY <1>2, BytesUntouched
     DEF PeerSends, PeerStartsHandshake, PeerTakes, PeerAnswers, history
<1>3. CASE DoRead
  <2>1. stage'["write"] = stage["write"]
    BY <1>3, OpsFact DEF DoRead, Blocked, IInv, TypeInv
  <2> QED
    BY <1>3, <2>1, BytesUntouched DEF DoRead, history
<1>4. CASE EpollWait
  BY <1>4, BytesUntouched DEF EpollWait, history
<1>5. CASE Take
  <2>1. stage'["write"] = "idle" => stage["write"] = "idle"
    BY <1>5, OpsFact DEF Take
  <2> QED
    BY <1>5, <2>1, BytesUntouched DEF Take, history
<1>6. CASE Steps(o)
  <2>1. stage'["write"] = "idle" => stage["write"] = "idle"
    BY <1>6, OpsFact DEF Steps, Handshake, Push, Call, IInv, TypeInv
  <2>2. UNCHANGED <<data, accepted, submitted, failed, aborted>>
    BY <1>6 DEF Steps, Handshake, Push, Call, history
  <2> QED
    BY <2>1, <2>2, BytesUntouched
<1> QED
  BY <1>1, <1>2, <1>3, <1>4, <1>5, <1>6

LEMMA StepBytes == IInv /\ BytesInv /\ [Next]_vars => BytesInv'
<1> SUFFICES ASSUME IInv, BytesInv, [Next]_vars PROVE BytesInv'
  OBVIOUS
<1>1. CASE UNCHANGED vars
  BY <1>1, BytesUntouched DEF vars
<1>2. CASE Next
  BY <1>2, OpsFact, WriteBytes, SliceBytes, PartBytes, EndBytes, OtherBytes
     DEF Next, WriteStep
<1> QED
  BY <1>1, <1>2

(* Every byte of every write reaches the library once and in order,        *)
(* through slices refused and offered again (ssl_endpoint.cc:120-184), for *)
(* any payloads, any number of writes and any handshakes, until a write    *)
(* fails or a slice is taken in part, which stops the process.             *)
THEOREM BytesArrive == Spec => []BytesInOrder
<1>1. Spec => []BytesInv
  BY InitBytes, StepBytes, Invariance, PTL DEF Spec
<1>2. BytesInv => BytesInOrder
  BY DEF BytesInv
<1> QED
  BY <1>1, <1>2, PTL

-----------------------------------------------------------------------------
(* The descriptor of two operations that wait is armed for these two and   *)
(* for nothing else, unless an event of one of them was reported since.    *)
WaitInv ==
  (\A o \in Ops : stage[o] = "waiting") =>
    armed = WaitingFor \/ WaitingFor \cap fired # {}

LEMMA InitWait == Init => WaitInv
  BY DEF Init, WaitInv, WaitingFor, Ops

(* A step that neither begins nor ends a wait. *)
LEMMA WaitUntouched ==
  ASSUME WaitInv, UNCHANGED poll,
         \A o \in Ops : /\ stage'[o] = "waiting" <=> stage[o] = "waiting"
                        /\ stage[o] = "waiting" => want'[o] = want[o]
  PROVE  WaitInv'
<1>1. WaitingFor' = WaitingFor
  BY DEF WaitingFor
<1> QED BY <1>1 DEF WaitInv, poll

(* The steps of an operation outside the poll engine. *)
LEMMA RunWait ==
  ASSUME IInv, WaitInv, NEW o \in Ops,
         \/ Read \/ Write \/ PeerSends \/ PeerStartsHandshake \/ PeerTakes \/ PeerAnswers
         \/ DoRead \/ WriteStep \/ Handshake(o) \/ Call(o)
  PROVE  WaitInv'
<1>1. CASE Read \/ Write \/ Call(o)
  BY <1>1, OpsFact, WaitUntouched DEF Read, Write, Call, IInv, TypeInv
<1>2. CASE PeerSends \/ PeerStartsHandshake \/ PeerTakes \/ PeerAnswers \/ Handshake(o)
  BY <1>2, WaitUntouched
     DEF PeerSends, PeerStartsHandshake, PeerTakes, PeerAnswers, Handshake
<1>3. CASE DoRead
  BY <1>3, OpsFact, WaitUntouched DEF DoRead, Blocked, IInv, TypeInv
<1>4. CASE WriteSlice \/ WritePart
  <2>1. /\ stage["write"] \in {"try", "writing"} /\ UNCHANGED <<want, poll>>
        /\ stage' = [stage EXCEPT !["write"] = "writing"] \/ stage' = stage
    BY <1>4, Zenon DEF WriteSlice, WritePart, CanSend, Sends
  <2> QED BY <2>1, OpsFact, WaitUntouched DEF IInv, TypeInv
<1>5. CASE WriteBlocked \/ WriteDone \/ WriteFails
  BY <1>5, OpsFact, WaitUntouched DEF WriteBlocked, Blocked, WriteDone, WriteFails, IInv, TypeInv
<1> QED BY <1>1, <1>2, <1>3, <1>4, <1>5 DEF WriteStep

(* The poll engine: a push arms the descriptor for all that wait, an event *)
(* disarms it and is for one of them, and who is taken waits no more.      *)
LEMMA PushWait == ASSUME IInv, WaitInv, NEW o \in Ops, Push(o) PROVE WaitInv'
<1>1. /\ stage[o] = "push" /\ stage' = [stage EXCEPT ![o] = "waiting"]
      /\ UNCHANGED want /\ armed' = WaitingFor \cup {want[o]}
  BY DEF Push, Armed
<1>2. WaitingFor' = WaitingFor \cup {want[o]}
  BY <1>1 DEF WaitingFor, IInv, TypeInv
<1> QED BY <1>1, <1>2 DEF WaitInv

LEMMA ReportWait == ASSUME IInv, WaitInv, EpollWait PROVE WaitInv'
<1>1. WaitingFor' = WaitingFor /\ UNCHANGED stage
  BY DEF EpollWait, WaitingFor
<1> QED BY <1>1 DEF EpollWait, WaitInv

LEMMA TakeWait == ASSUME IInv, WaitInv, Take PROVE WaitInv'
<1> SUFFICES ASSUME \A o \in Ops : stage'[o] = "waiting"
             PROVE  armed' = WaitingFor'
  BY DEF WaitInv
<1>1. UNCHANGED <<want, armed>>
  BY DEF Take
<1>2. \A o \in Ops : stage'[o] = IF stage[o] = "waiting" /\ want[o] \in fired THEN "taken"
                                 ELSE stage[o]
  BY DEF Take
<1>3. \A o \in Ops : stage[o] = "waiting" /\ want[o] \notin fired
  BY <1>2
<1>4. WaitingFor' = WaitingFor /\ WaitingFor \cap fired = {}
  BY <1>1, <1>3 DEF WaitingFor
<1> QED BY <1>1, <1>3, <1>4 DEF WaitInv

LEMMA StepWait == IInv /\ WaitInv /\ [Next]_vars => WaitInv'
<1> SUFFICES ASSUME IInv, WaitInv, [Next]_vars PROVE WaitInv'
  OBVIOUS
<1>1. CASE UNCHANGED vars
  BY <1>1, WaitUntouched DEF vars, poll
<1>2. CASE Next
  BY <1>2, OpsFact, RunWait, PushWait, ReportWait, TakeWait DEF Next, Steps
<1> QED
  BY <1>1, <1>2

(* A read and a write that wait together never both lose the event they    *)
(* wait for (ssl_endpoint.cc:90-102, 155-170), for any directions the      *)
(* library asks for and any number of operations.                          *)
THEOREM NoneForgotten == Spec => []WaitTogether
<1>1. Spec => []WaitInv
  BY InitWait, StepWait, Invariance, PTL DEF Spec
<1>2. WaitInv => WaitTogether
  BY DEF WaitInv, WaitTogether
<1> QED
  BY <1>1, <1>2, PTL
=============================================================================
