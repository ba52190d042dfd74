------------------------ MODULE QueryPlanner_proofs ------------------------
(***************************************************************************)
(* Proofs about the query planner: the rules of minion/planner/rules.h     *)
(* keep what an operation is worth and pull_df settles; a compact graph    *)
(* has the terms of the graph it was made of, leaves first, and equal      *)
(* terms get equal hashes; the edges of a graph make the graph again, and  *)
(* turned round the reverse of it.                                         *)
(*                                                                         *)
(* What a rewriting step does is proved from one inductive invariant,      *)
(* PhaseInv and GraphInv: the graph a query is rewritten in is a graph     *)
(* without a cycle.  It starts as what parsing made, of which ParsingOrder *)
(* says that arguments come before the nodes that use them; that is a      *)
(* premise here, and checked by TLC, as the parser recurs over the syntax  *)
(* tree.                                                                   *)
(*                                                                         *)
(* In order: folds and flattened sequences; graphs without a cycle; each   *)
(* rule; the inductive invariant and PullSettles; what a node is worth and *)
(* its term; the meaning of each rule; orders of nodes by depth; the walk  *)
(* that numbers nodes by depth; compaction; hashes; edge lists.            *)
(***************************************************************************)
EXTENDS QueryPlanner, FiniteSetTheorems, SequenceTheorems, WellFoundedInduction, TLAPS

Below == {ss \in Nat \X Nat : ss[1] < ss[2]}

LEMMA BelowWellFounded == IsWellFoundedOn(Below, Nat)
  BY NatLessThanWellFounded DEF OpToRel, Below

LEMMA LeastNatural ==
  ASSUME NEW T \in SUBSET Nat, T # {}
  PROVE  \E n \in T : \A m \in T : n <= m
<1>1. PICK x \in T : \A y \in T : <<y, x>> \notin Below
  BY BelowWellFounded, WFMin
<1>2. \A y \in T : ~ (y < x)
  BY <1>1 DEF Below
<1> QED
  BY <1>2

(* A set that holds 0 and the successor of each of its numbers holds all. *)
LEMMA SetInduction ==
  ASSUME NEW T, 0 \in T, \A n \in Nat : n \in T => n + 1 \in T
  PROVE  Nat \subseteq T
<1> DEFINE U == Nat \ T
<1> SUFFICES ASSUME U # {} PROVE FALSE
  OBVIOUS
<1>1. PICK n \in U : \A m \in U : n <= m
  BY LeastNatural
<1>2. n # 0 /\ n - 1 \in Nat /\ n - 1 \notin U
  BY <1>1
<1> QED
  BY <1>1, <1>2

(* The least of some natural numbers, and the greatest when they have a    *)
(* bound.                                                                  *)
LEMMA NatMin ==
  ASSUME NEW S \in SUBSET Nat, S # {}
  PROVE  Min(S) \in S /\ \A y \in S : Min(S) <= y
  BY LeastNatural DEF Min

LEMMA NatMax ==
  ASSUME NEW b \in Nat, NEW S \in SUBSET (0..b), S # {}
  PROVE  Max(S) \in S /\ \A y \in S : y <= Max(S)
<1> DEFINE T == {d \in Nat : b - d \in S}
<1>1. T # {}
  <2>1. PICK x \in S : TRUE
    OBVIOUS
  <2>2. b - x \in T
    BY <2>1
  <2> QED BY <2>2
<1>2. PICK d \in T : \A e \in T : d <= e
  BY <1>1, LeastNatural
<1>3. \A y \in S : b - y \in T
  OBVIOUS
<1>4. b - d \in S /\ \A y \in S : y <= b - d
  BY <1>2, <1>3
<1>5. \E x \in S : \A y \in S : x >= y
  BY <1>4
<1>6. Max(S) \in S /\ \A y \in S : Max(S) >= y
  BY <1>5 DEF Max
<1> QED BY <1>6

-----------------------------------------------------------------------------
(* A fold over a sequence from the left, by a function of two values.      *)
Folded(f, base, s) == FoldLeft(LAMBDA a, b : f[<<a, b>>], base, s)

(* `h` is the recursive function of FoldLeft.  *)
FoldsUpTo(h, f, base, s, n) ==
  h = [t \in SUBSET (1..n) |->
         IF t = {} THEN base ELSE f[<<h[t \ {Max(t)}], s[Max(t)]>>]]

Folds(h, f, base, s) == FoldsUpTo(h, f, base, s, Len(s))

(* What that function gives for the first places of the sequence. *)
FoldSteps(h, f, base, s) ==
  /\ h[1..0] = base
  /\ \A k \in 1..Len(s) : h[1..k] = f[<<h[1..k - 1], s[k]>>]

LEMMA WithoutMax ==
  ASSUME NEW k \in Nat, NEW t \in SUBSET (1..k + 1), t # {}
  PROVE  t \ {Max(t)} \subseteq 1..k
<1>1. Max(t) \in t /\ \A y \in t : y <= Max(t)
  <2>1. PICK b \in Nat : b = k + 1
    OBVIOUS
  <2>2. t \in SUBSET (0..b)
    BY <2>1
  <2>3. Max(t) \in t /\ \A y \in t : y <= Max(t)
    BY <2>2, NatMax
  <2> QED BY <2>3
<1>2. ASSUME NEW y \in t, y # Max(t) PROVE y \in 1..k
  <2>1. y \in 1..k + 1 /\ Max(t) \in 1..k + 1 /\ y <= Max(t)
    BY <1>1
  <2> HIDE <1>1
  <2> QED BY <1>2, <2>1
<1> QED BY <1>2

LEMMA FoldsExist ==
  ASSUME NEW f, NEW base, NEW s, NEW n \in Nat
  PROVE  \E h : FoldsUpTo(h, f, base, s, n)
<1> DEFINE Is(h, k) == h = [t \in SUBSET (1..k) |->
                              IF t = {} THEN base ELSE f[<<h[t \ {Max(t)}], s[Max(t)]>>]]
           T == {k \in Nat : \E h : Is(h, k)}
<1>1. 0 \in T
  <2> DEFINE h == [t \in SUBSET (1..0) |-> base]
  <2>1. \A t \in SUBSET (1..0) : t = {}
    OBVIOUS
  <2>2. Is(h, 0)
    BY <2>1
  <2> HIDE DEF h, Is
  <2> QED BY <2>2
<1>2. ASSUME NEW k \in Nat, k \in T PROVE k + 1 \in T
  <2>1. PICK old : Is(old, k)
    BY <1>2
  <2> DEFINE h == [t \in SUBSET (1..k + 1) |->
                     IF t = {} THEN base ELSE f[<<old[t \ {Max(t)}], s[Max(t)]>>]]
  <2>2. ASSUME NEW t \in SUBSET (1..k)
        PROVE  h[t] = old[t]
    <3>1. t \in SUBSET (1..k + 1)
      OBVIOUS
    <3>2. old[t] = IF t = {} THEN base ELSE f[<<old[t \ {Max(t)}], s[Max(t)]>>]
      BY <2>1
    <3> QED BY <3>1, <3>2
  <2>3. ASSUME NEW t \in SUBSET (1..k + 1), t # {}
        PROVE  h[t \ {Max(t)}] = old[t \ {Max(t)}]
    BY <2>2, <2>3, WithoutMax
  <2>4. Is(h, k + 1)
    BY <2>3
  <2> HIDE DEF h, Is
  <2> QED BY <2>4
<1> HIDE DEF T
<1>3. n \in T
  BY <1>1, <1>2, SetInduction
<1> QED BY <1>3 DEF T, FoldsUpTo

LEMMA FoldsAt ==
  ASSUME NEW f, NEW base, NEW V, NEW s \in Seq(V), NEW h, Folds(h, f, base, s)
  PROVE  FoldSteps(h, f, base, s)
<1>0. DOMAIN s = 1..Len(s) /\ Len(s) \in Nat
  OBVIOUS
<1>1. h[1..0] = base
  <2>1. 1..0 = {} /\ {} \in SUBSET DOMAIN s
    OBVIOUS
  <2> QED BY <1>0, <2>1 DEF Folds, FoldsUpTo
<1>2. ASSUME NEW k \in 1..Len(s)
      PROVE  h[1..k] = f[<<h[1..k - 1], s[k]>>]
  <2>0. k \in Nat /\ k \in 1..k
    BY <1>0
  <2>1. 1..k \in SUBSET DOMAIN s /\ 1..k # {} /\ k \in Nat /\ 1..k \in SUBSET (0..k)
    BY <1>0, <2>0
  <2>2. Max(1..k) \in 1..k /\ \A y \in 1..k : y <= Max(1..k)
    BY <2>1, NatMax
  <2>3. Max(1..k) = k
    BY <2>1, <2>2
  <2>4. (1..k) \ {k} = 1..k - 1
    BY <2>1
  <2> QED BY <1>0, <2>1, <2>3, <2>4 DEF Folds, FoldsUpTo
<1> QED BY <1>1, <1>2 DEF FoldSteps

LEMMA FoldsAgree ==
  ASSUME NEW f, NEW base, NEW V, NEW s \in Seq(V), NEW t \in Seq(V), NEW n \in Nat,
         n <= Len(s), n <= Len(t), \A i \in 1..n : s[i] = t[i],
         NEW g1, Folds(g1, f, base, s), NEW h1, Folds(h1, f, base, t)
  PROVE  g1[1..n] = h1[1..n]
<1> DEFINE T == {k \in Nat : k <= n => g1[1..k] = h1[1..k]}
<1>0. /\ g1[1..0] = base /\ h1[1..0] = base
      /\ \A k \in 1..Len(s) : g1[1..k] = f[<<g1[1..k - 1], s[k]>>]
      /\ \A k \in 1..Len(t) : h1[1..k] = f[<<h1[1..k - 1], t[k]>>]
  <2>1. FoldSteps(g1, f, base, s)
    BY FoldsAt
  <2>2. FoldSteps(h1, f, base, t)
    BY FoldsAt
  <2> QED BY <2>1, <2>2 DEF FoldSteps
<1>1. 0 \in T
  BY <1>0
<1>2. ASSUME NEW k \in Nat, k \in T PROVE k + 1 \in T
  <2> SUFFICES ASSUME k + 1 <= n PROVE g1[1..k + 1] = h1[1..k + 1]
    OBVIOUS
  <2>1. k + 1 \in 1..Len(s) /\ k + 1 \in 1..Len(t) /\ k + 1 \in 1..n /\ (k + 1) - 1 = k
    OBVIOUS
  <2>2. g1[1..k] = h1[1..k]
    BY <1>2
  <2>3. PICK j \in 1..n : j = k + 1
    BY <2>1
  <2>4. g1[1..j] = f[<<g1[1..j - 1], s[j]>>]
    BY <1>0, <2>3, <2>1
  <2>5. h1[1..j] = f[<<h1[1..j - 1], t[j]>>]
    BY <1>0, <2>3, <2>1
  <2>6. j - 1 = k /\ s[j] = t[j]
    BY <2>3
  <2> QED BY <2>2, <2>3, <2>4, <2>5, <2>6
<1> HIDE DEF T
<1>3. n \in T
  BY <1>1, <1>2, SetInduction
<1> QED BY <1>3 DEF T

LEMMA FoldedIs ==
  ASSUME NEW f, NEW base, NEW V, NEW s \in Seq(V)
  PROVE  \E h : Folds(h, f, base, s) /\ Folded(f, base, s) = h[1..Len(s)]
<1> DEFINE P(h) == h = [t \in SUBSET DOMAIN s |->
                          IF t = {} THEN base ELSE f[<<h[t \ {Max(t)}], s[Max(t)]>>]]
<1>0. DOMAIN s = 1..Len(s) /\ Len(s) \in Nat
  OBVIOUS
<1>1. Folded(f, base, s) = (CHOOSE h : P(h))[DOMAIN s]
  BY DEF Folded, FoldLeft, MapThenFoldSet
<1>2. ASSUME NEW h PROVE P(h) <=> Folds(h, f, base, s)
  BY <1>0 DEF Folds, FoldsUpTo
<1>3. \E h : Folds(h, f, base, s)
  BY <1>0, FoldsExist DEF Folds
<1> HIDE DEF P
<1>4. P(CHOOSE h : P(h))
  BY <1>2, <1>3
<1> QED BY <1>0, <1>1, <1>2, <1>4

LEMMA FoldedEmpty ==
  ASSUME NEW f, NEW base PROVE Folded(f, base, <<>>) = base
<1>1. <<>> \in Seq({}) /\ Len(<<>>) = 0
  OBVIOUS
<1>2. PICK h : Folds(h, f, base, <<>>) /\ Folded(f, base, <<>>) = h[1..Len(<<>>)]
  BY <1>1, FoldedIs
<1>3. FoldSteps(h, f, base, <<>>)
  BY <1>1, <1>2, FoldsAt
<1> QED BY <1>1, <1>2, <1>3 DEF FoldSteps

(* A fold over one more element is one more step of the fold. *)
LEMMA FoldedAppend ==
  ASSUME NEW f, NEW base, NEW V, NEW s \in Seq(V), NEW x \in V
  PROVE  Folded(f, base, Append(s, x)) = f[<<Folded(f, base, s), x>>]
<1> DEFINE t == Append(s, x)
           n == Len(s)
<1>1. /\ t \in Seq(V) /\ Len(t) = n + 1 /\ n \in Nat /\ t[n + 1] = x
      /\ \A i \in 1..n : s[i] = t[i]
  OBVIOUS
<1> HIDE DEF t
<1>2. PICK h : Folds(h, f, base, s) /\ Folded(f, base, s) = h[1..n]
  BY FoldedIs
<1>3. PICK i : Folds(i, f, base, t) /\ Folded(f, base, t) = i[1..Len(t)]
  BY <1>1, FoldedIs
<1>4. h[1..n] = i[1..n]
  BY <1>1, <1>2, <1>3, FoldsAgree
<1>5. n + 1 \in 1..Len(t) /\ (n + 1) - 1 = n
  BY <1>1
<1>6. i[1..n + 1] = f[<<i[1..n], t[n + 1]>>]
  <2>1. FoldSteps(i, f, base, t)
    BY <1>1, <1>3, FoldsAt
  <2> QED BY <1>5, <2>1 DEF FoldSteps
<1> QED BY <1>1, <1>2, <1>3, <1>4, <1>6 DEF t

-----------------------------------------------------------------------------
(* `f` is the recursive function of FlattenSeq, for the first n slices.    *)
Joins(f, s, n) == f = [i \in 1..n |-> IF i = 1 THEN s[i] ELSE f[i - 1] \o s[i]]

LEMMA FlattenDef ==
  ASSUME NEW s, Len(s) # 0, NEW h, Joins(h, s, Len(s)),
         \A f : Joins(f, s, Len(s)) => f[Len(s)] = h[Len(s)]
  PROVE  FlattenSeq(s) = h[Len(s)]
<1> DEFINE P(f) == f = [i \in 1..Len(s) |-> IF i = 1 THEN s[i] ELSE f[i - 1] \o s[i]]
<1>1. FlattenSeq(s) = (CHOOSE f : P(f))[Len(s)]
  BY DEF FlattenSeq
<1>2. ASSUME NEW f PROVE P(f) <=> Joins(f, s, Len(s))
  BY DEF Joins
<1> HIDE DEF P
<1>3. P(CHOOSE f : P(f))
  BY <1>2
<1> QED
  BY <1>1, <1>2, <1>3

LEMMA JoinsExists ==
  ASSUME NEW s, NEW n \in Nat
  PROVE  \E f : Joins(f, s, n)
<1> DEFINE T == {k \in Nat : \E f : Joins(f, s, k)}
<1>1. 0 \in T
  <2> DEFINE f == [i \in 1..0 |-> 0]
  <2>1. f = [i \in 1..0 |-> IF i = 1 THEN s[i] ELSE f[i - 1] \o s[i]]
    OBVIOUS
  <2> HIDE DEF f
  <2>2. Joins(f, s, 0)
    BY <2>1 DEF Joins
  <2> QED
    BY <2>2
<1>2. ASSUME NEW k \in Nat, k \in T PROVE k + 1 \in T
  <2>1. PICK old : Joins(old, s, k)
    BY <1>2
  <2>2. old = [i \in 1..k |-> IF i = 1 THEN s[i] ELSE old[i - 1] \o s[i]]
    BY <2>1 DEF Joins
  <2> DEFINE f == [i \in 1..k + 1 |-> IF i = 1 THEN s[i] ELSE old[i - 1] \o s[i]]
  <2>3. \A i \in 1..k : f[i] = old[i]
    <3> TAKE i \in 1..k
    <3>1. i \in 1..k + 1
      OBVIOUS
    <3> QED
      BY <2>2, <3>1
  <2>4. \A i \in 1..k + 1 : i # 1 => f[i - 1] = old[i - 1]
    <3> TAKE i \in 1..k + 1
    <3>1. i # 1 => i - 1 \in 1..k
      OBVIOUS
    <3> QED
      BY <2>3, <3>1
  <2>5. f = [i \in 1..k + 1 |-> IF i = 1 THEN s[i] ELSE f[i - 1] \o s[i]]
    BY <2>4
  <2> HIDE DEF f
  <2>6. Joins(f, s, k + 1)
    BY <2>5 DEF Joins
  <2> QED
    BY <2>6
<1> HIDE DEF T
<1>3. n \in T
  BY <1>1, <1>2, SetInduction
<1> QED
  BY <1>3 DEF T

LEMMA JoinsAt ==
  ASSUME NEW s, NEW n \in Nat, NEW f, Joins(f, s, n), NEW i \in 1..n
  PROVE  f[i] = IF i = 1 THEN s[i] ELSE f[i - 1] \o s[i]
  BY DEF Joins

LEMMA JoinsUnique ==
  ASSUME NEW s, NEW n \in Nat, NEW f, Joins(f, s, n), NEW h, Joins(h, s, n), NEW i \in 1..n
  PROVE  f[i] = h[i]
<1> DEFINE T == {k \in Nat : k \in 1..n => f[k] = h[k]}
<1>1. 0 \in T
  OBVIOUS
<1>2. ASSUME NEW k \in Nat, k \in T PROVE k + 1 \in T
  <2> SUFFICES ASSUME k + 1 \in 1..n PROVE f[k + 1] = h[k + 1]
    OBVIOUS
  <2>1. PICK j \in 1..n : j = k + 1
    OBVIOUS
  <2>2. /\ f[j] = IF j = 1 THEN s[j] ELSE f[j - 1] \o s[j]
        /\ h[j] = IF j = 1 THEN s[j] ELSE h[j - 1] \o s[j]
    BY JoinsAt
  <2>3. j # 1 => f[j - 1] = h[j - 1]
    BY <1>2, <2>1
  <2> QED
    BY <2>1, <2>2, <2>3
<1> HIDE DEF T
<1>3. i \in T
  BY <1>1, <1>2, SetInduction
<1> QED
  BY <1>3 DEF T

LEMMA JoinsType ==
  ASSUME NEW V, NEW s \in Seq(Seq(V)), NEW f, Joins(f, s, Len(s)), NEW i \in 1..Len(s)
  PROVE  f[i] \in Seq(V)
<1> DEFINE T == {k \in Nat : k \in 1..Len(s) => f[k] \in Seq(V)}
<1>0. Len(s) \in Nat
  OBVIOUS
<1>1. 0 \in T
  OBVIOUS
<1>2. ASSUME NEW k \in Nat, k \in T PROVE k + 1 \in T
  <2> SUFFICES ASSUME k + 1 \in 1..Len(s) PROVE f[k + 1] \in Seq(V)
    OBVIOUS
  <2>1. PICK j \in 1..Len(s) : j = k + 1
    OBVIOUS
  <2>2. f[j] = IF j = 1 THEN s[j] ELSE f[j - 1] \o s[j]
    BY <1>0, JoinsAt
  <2>3. j # 1 => f[j - 1] \in Seq(V)
    BY <1>2, <2>1
  <2>4. s[j] \in Seq(V)
    OBVIOUS
  <2> QED
    BY <2>1, <2>2, <2>3, <2>4
<1> HIDE DEF T
<1>3. Nat \subseteq T
  BY <1>1, <1>2, SetInduction
<1>4. i \in Nat
  OBVIOUS
<1> QED
  BY <1>3, <1>4 DEF T

(* The sequences of `s` joined, one after the other. *)
Joined(f, s, V) ==
  /\ FlattenSeq(s) = f[Len(s)]
  /\ f[1] = s[1]
  /\ \A i \in 1..Len(s) : f[i] \in Seq(V) /\ s[i] \in Seq(V)
  /\ \A i \in 1..Len(s) : i # 1 => f[i] = f[i - 1] \o s[i]

LEMMA FlattenIs ==
  ASSUME NEW V, NEW s \in Seq(Seq(V)), s # <<>>
  PROVE  \E f : Joined(f, s, V)
<1>1. Len(s) \in Nat /\ Len(s) # 0 /\ Len(s) \in 1..Len(s) /\ 1 \in 1..Len(s)
  OBVIOUS
<1>2. PICK f : Joins(f, s, Len(s))
  BY <1>1, JoinsExists
<1>3. ASSUME NEW h, Joins(h, s, Len(s)) PROVE h[Len(s)] = f[Len(s)]
  BY <1>1, <1>2, <1>3, JoinsUnique
<1>4. FlattenSeq(s) = f[Len(s)]
  BY <1>1, <1>2, <1>3, FlattenDef
<1>5. ASSUME NEW i \in 1..Len(s)
      PROVE  /\ f[i] \in Seq(V) /\ s[i] \in Seq(V)
             /\ f[i] = IF i = 1 THEN s[i] ELSE f[i - 1] \o s[i]
  <2>1. f[i] = IF i = 1 THEN s[i] ELSE f[i - 1] \o s[i]
    BY <1>1, <1>2, JoinsAt
  <2>2. f[i] \in Seq(V)
    BY <1>2, JoinsType
  <2> QED BY <2>1, <2>2
<1> QED
  BY <1>1, <1>4, <1>5 DEF Joined

LEMMA FlattenNothing == FlattenSeq(<<>>) = <<>>
  BY DEF FlattenSeq

(* Sequences of one kind, joined, are a sequence of that kind. *)
LEMMA FlattenType ==
  ASSUME NEW V, NEW s \in Seq(Seq(V))
  PROVE  FlattenSeq(s) \in Seq(V)
<1>1. CASE s = <<>>
  <2>1. FlattenSeq(s) = <<>> /\ <<>> \in Seq(V)
    BY <1>1, FlattenNothing
  <2> QED BY <2>1
<1>2. CASE s # <<>>
  <2>1. Len(s) \in 1..Len(s)
    BY <1>2
  <2>2. PICK f : Joined(f, s, V)
    BY <1>2, FlattenIs
  <2> QED
    BY <2>1, <2>2 DEF Joined
<1> QED
  BY <1>1, <1>2

LEMMA ElementsType ==
  ASSUME NEW V, NEW s \in Seq(V), NEW W, \A i \in 1..Len(s) : s[i] \in W
  PROVE  s \in Seq(W)
<1>1. Len(s) \in Nat /\ s = [i \in 1..Len(s) |-> s[i]]
  OBVIOUS
<1>2. PICK n \in Nat : n = Len(s)
  BY <1>1
<1>3. s \in [1..n -> W]
  BY <1>1, <1>2
<1> QED BY <1>3, SeqDef

(* Whatever is in the joined sequence is in one of them. *)
LEMMA FlattenElements ==
  ASSUME NEW V, NEW s \in Seq(Seq(V)), NEW k \in DOMAIN FlattenSeq(s)
  PROVE  \E i \in DOMAIN s : \E j \in DOMAIN s[i] : FlattenSeq(s)[k] = s[i][j]
<1> DEFINE W == {x \in V : \E i \in DOMAIN s : \E j \in DOMAIN s[i] : x = s[i][j]}
<1>1. ASSUME NEW i \in DOMAIN s PROVE s[i] \in Seq(W)
  <2>1. s[i] \in Seq(V) /\ \A j \in 1..Len(s[i]) : s[i][j] \in W
    OBVIOUS
  <2> HIDE DEF W
  <2> QED BY <2>1, ElementsType
<1> HIDE DEF W
<1>2. s \in Seq(Seq(W))
  BY <1>1, ElementsType
<1>3. FlattenSeq(s) \in Seq(W)
  BY <1>2, FlattenType
<1>4. FlattenSeq(s)[k] \in W
  BY <1>3
<1> QED BY <1>4 DEF W

LEMMA FlattenSomething ==
  ASSUME NEW V, NEW s \in Seq(Seq(V)), s # <<>>, \A i \in DOMAIN s : s[i] # <<>>
  PROVE  FlattenSeq(s) # <<>>
<1>1. PICK f : Joined(f, s, V)
  BY FlattenIs
<1>2. Len(s) \in 1..Len(s) /\ Len(s) \in Nat /\ s[Len(s)] # <<>>
  OBVIOUS
<1>3. \/ f[Len(s)] = s[Len(s)]
      \/ /\ Len(s) - 1 \in 1..Len(s)
         /\ f[Len(s)] = f[Len(s) - 1] \o s[Len(s)]
  <2>1. PICK n \in 1..Len(s) : n = Len(s)
    BY <1>2
  <2>2. n # 1 => f[n] = f[n - 1] \o s[n]
    BY <1>1 DEF Joined
  <2>3. n = 1 => f[n] = s[n]
    BY <1>1 DEF Joined
  <2>4. n # 1 => n - 1 \in 1..Len(s)
    BY <1>2
  <2>5. CASE n = 1
    BY <2>1, <2>3, <2>5
  <2>6. CASE n # 1
    BY <2>1, <2>2, <2>4, <2>6
  <2> QED BY <2>5, <2>6
<1>4. \A x, y \in Seq(V) : y # <<>> => x \o y # <<>>
  OBVIOUS
<1>5. FlattenSeq(s) = f[Len(s)] /\ \A i \in 1..Len(s) : f[i] \in Seq(V) /\ s[i] \in Seq(V)
  BY <1>1 DEF Joined
<1> QED BY <1>2, <1>3, <1>4, <1>5

-----------------------------------------------------------------------------
(* Graphs: sequences of nodes whose arguments are nodes. *)
IsGraph(h) ==
  /\ h \in [names : Seq(STRING), nodes : Seq(AnyNode), consts : [Types -> Seq(Int)]]
  /\ \A n \in Ids(h) :
       /\ Sound(h, Node(h, n))
       /\ \A i \in DOMAIN Args(h, n) : Args(h, n)[i] \in Ids(h)

(* No node is among its own arguments, theirs, and so on: a rank falls     *)
(* from a node to its arguments.                                           *)
Ranks(h, b, r) ==
  /\ r \in [Ids(h) -> 0..b]
  /\ \A n \in Ids(h) : \A i \in DOMAIN Args(h, n) : r[Args(h, n)[i]] < r[n]

Acyclic(h) == IsGraph(h) /\ \E b \in Nat : \E r : Ranks(h, b, r)

LEMMA SizeType ==
  ASSUME NEW h, h.nodes \in Seq(AnyNode)
  PROVE  /\ Size(h) \in Nat /\ Ids(h) \subseteq Nat
         /\ \A n : n \in Ids(h) <=> n \in Nat /\ n < Size(h)
<1>1. Size(h) \in Nat
  BY DEF Size
<1> QED BY <1>1 DEF Ids

(* Every node of a graph is a node. *)
LEMMA NodeType ==
  ASSUME NEW h, IsGraph(h), NEW n \in Ids(h)
  PROVE  /\ Node(h, n) \in AnyNode
         /\ Args(h, n) \in Seq(Int)
         /\ \A i \in DOMAIN Args(h, n) : Args(h, n)[i] \in Ids(h)
<1>1. h.nodes \in Seq(AnyNode)
  BY DEF IsGraph
<1>2. n + 1 \in DOMAIN h.nodes
  BY <1>1 DEF Ids, Size
<1>3. Node(h, n) \in AnyNode
  <2> HIDE DEF AnyNode
  <2> QED BY <1>1, <1>2 DEF Node
<1>4. Args(h, n) \in Seq(Int)
  BY <1>3 DEF AnyNode, Args
<1> QED BY <1>3, <1>4 DEF IsGraph

(* What appending leaves as it was. *)
Extends(h, t) ==
  /\ t.consts = h.consts
  /\ \A n \in Ids(h) : n \in Ids(t) /\ Node(t, n) = Node(h, n)

(* New nodes made from nodes of the graph: an argument of a new one has a  *)
(* lower rank than the node it was made from, or was itself made from one. *)
Origins(h, r, more, o) ==
  /\ o \in [1..Len(more) -> Ids(h)]
  /\ \A i \in 1..Len(more) :
       /\ Sound(h, more[i])
       /\ \A k \in DOMAIN more[i].args :
            \/ more[i].args[k] \in Ids(h) /\ r[more[i].args[k]] < r[o[i]]
            \/ \E j \in 1..Len(more) :
                 more[i].args[k] = Size(h) + j - 1 /\ r[o[j]] < r[o[i]]

(* Appending nodes changes none that is there, and numbers the new ones    *)
(* from the size on.                                                       *)
LEMMA AppendedNodes ==
  ASSUME NEW h, IsGraph(h), NEW more \in Seq(AnyNode), NEW t, t = AppendAll(h, more)
  PROVE  /\ Extends(h, t)
         /\ Size(h) \in Nat /\ Size(t) = Size(h) + Len(more)
         /\ t \in [names : Seq(STRING), nodes : Seq(AnyNode), consts : [Types -> Seq(Int)]]
         /\ \A i \in 1..Len(more) : Size(h) + i - 1 \in Ids(t) /\ Node(t, Size(h) + i - 1) = more[i]
         /\ \A n \in Ids(t) : n \in Ids(h) \/ \E i \in 1..Len(more) : n = Size(h) + i - 1
<1>1. h.nodes \in Seq(AnyNode) /\ h.names \in Seq(STRING) /\ h.consts \in [Types -> Seq(Int)]
  BY DEF IsGraph
<1> HIDE DEF AnyNode
<1>2. h.nodes \o more \in Seq(AnyNode)
  BY <1>1
<1>3. t.nodes = h.nodes \o more /\ t.consts = h.consts /\ t.names = h.names
  BY Zenon DEF IsGraph, AppendAll
<1>4. t \in [names : Seq(STRING), nodes : Seq(AnyNode), consts : [Types -> Seq(Int)]]
  BY <1>2, Zenon DEF IsGraph, AppendAll
<1>5. /\ Len(t.nodes) = Len(h.nodes) + Len(more) /\ Len(h.nodes) \in Nat /\ Len(more) \in Nat
      /\ \A i \in 1..Len(h.nodes) : t.nodes[i] = h.nodes[i]
      /\ \A i \in 1..Len(more) : t.nodes[Len(h.nodes) + i] = more[i]
  BY <1>1, <1>3
<1>6. ASSUME NEW n \in Ids(h)
      PROVE  n \in Ids(t) /\ Node(t, n) = Node(h, n)
  <2>1. n \in Int /\ n + 1 \in 1..Len(h.nodes) /\ n \in Ids(t)
    BY <1>5 DEF Ids, Size
  <2> QED BY <1>5, <2>1 DEF Node
<1>7. ASSUME NEW i \in 1..Len(more)
      PROVE  Size(h) + i - 1 \in Ids(t) /\ Node(t, Size(h) + i - 1) = more[i]
  <2>1. Size(h) + i - 1 \in Ids(t) /\ (Size(h) + i - 1) + 1 = Len(h.nodes) + i
    BY <1>5 DEF Ids, Size
  <2> QED BY <1>5, <2>1 DEF Node
<1>8. ASSUME NEW n \in Ids(t), n \notin Ids(h)
      PROVE  \E i \in 1..Len(more) : n = Size(h) + i - 1
  <2>1. n - Size(h) + 1 \in 1..Len(more) /\ n = Size(h) + (n - Size(h) + 1) - 1
    BY <1>5, <1>8 DEF Ids, Size
  <2> QED BY <2>1
<1> QED BY <1>3, <1>4, <1>5, <1>6, <1>7, <1>8 DEF Extends, Size

(* A graph without a cycle stays one when nodes made from its own are      *)
(* appended.                                                               *)
LEMMA AppendAcyclic ==
  ASSUME NEW h, IsGraph(h), NEW b \in Nat, NEW r, Ranks(h, b, r),
         NEW more \in Seq(AnyNode), NEW o, Origins(h, r, more, o),
         NEW t, t = AppendAll(h, more)
  PROVE  Acyclic(t)
<1> DEFINE New(n) == n - Size(h) + 1
           q == [n \in Ids(t) |-> IF n \in Ids(h) THEN r[n] ELSE r[o[New(n)]]]
<1>1. /\ Extends(h, t) /\ Size(h) \in Nat /\ Size(t) = Size(h) + Len(more)
      /\ t \in [names : Seq(STRING), nodes : Seq(AnyNode), consts : [Types -> Seq(Int)]]
      /\ \A i \in 1..Len(more) : Size(h) + i - 1 \in Ids(t) /\ Node(t, Size(h) + i - 1) = more[i]
      /\ \A n \in Ids(t) : n \in Ids(h) \/ \E i \in 1..Len(more) : n = Size(h) + i - 1
  BY AppendedNodes
<1>2. /\ o \in [1..Len(more) -> Ids(h)] /\ r \in [Ids(h) -> 0..b] /\ Len(more) \in Nat
      /\ \A n : n \in Ids(h) <=> n \in Nat /\ n < Size(h)
  <2>1. o \in [1..Len(more) -> Ids(h)] /\ r \in [Ids(h) -> 0..b] /\ Len(more) \in Nat
    BY DEF Origins, Ranks
  <2>2. h.nodes \in Seq(AnyNode)
    BY DEF IsGraph
  <2> HIDE DEF AnyNode
  <2>3. \A n : n \in Ids(h) <=> n \in Nat /\ n < Size(h)
    BY <2>2, SizeType
  <2> QED BY <2>1, <2>3
<1>3. ASSUME NEW i \in 1..Len(more)
      PROVE  q[Size(h) + i - 1] = r[o[i]] /\ o[i] \in Ids(h)
  <2>1. Size(h) + i - 1 \notin Ids(h) /\ New(Size(h) + i - 1) = i
    BY <1>1, <1>2
  <2> QED BY <1>1, <1>2, <2>1
<1>4. \A n \in Ids(h) : q[n] = r[n]
  BY <1>1 DEF Extends
<1>5. q \in [Ids(t) -> 0..b]
  <2>1. ASSUME NEW n \in Ids(t) PROVE q[n] \in 0..b
    BY <1>1, <1>2, <1>3, <1>4
  <2> QED BY <2>1
<1> HIDE DEF q
<1>6. ASSUME NEW n \in Ids(t), NEW k \in DOMAIN Args(t, n)
      PROVE  /\ Sound(t, Node(t, n))
             /\ Args(t, n)[k] \in Ids(t) /\ q[Args(t, n)[k]] < q[n]
  <2>1. CASE n \in Ids(h)
    <3>1. Args(t, n) = Args(h, n) /\ Sound(h, Node(h, n)) /\ Node(t, n) = Node(h, n)
      BY <1>1, <2>1 DEF Extends, Args, IsGraph
    <3>2. Args(h, n)[k] \in Ids(h) /\ r[Args(h, n)[k]] < r[n]
      BY <2>1, <3>1 DEF IsGraph, Ranks
    <3>3. Sound(t, Node(t, n))
      BY <1>1, <3>1 DEF Extends, Sound
    <3> QED BY <1>1, <1>4, <2>1, <3>1, <3>2, <3>3 DEF Extends
  <2>2. CASE n \notin Ids(h)
    <3>1. PICK i \in 1..Len(more) : n = Size(h) + i - 1
      BY <1>1, <2>2
    <3>2. Args(t, n) = more[i].args /\ q[n] = r[o[i]] /\ Node(t, n) = more[i]
      BY <1>1, <1>3, <3>1 DEF Args
    <3>3. Sound(t, Node(t, n))
      BY <1>1, <3>2 DEF Extends, Sound, Origins
    <3>4. CASE Args(t, n)[k] \in Ids(h) /\ r[Args(t, n)[k]] < r[o[i]]
      BY <1>1, <1>4, <3>2, <3>3, <3>4 DEF Extends
    <3>5. CASE \E j \in 1..Len(more) : Args(t, n)[k] = Size(h) + j - 1 /\ r[o[j]] < r[o[i]]
      <4>1. PICK j \in 1..Len(more) : Args(t, n)[k] = Size(h) + j - 1 /\ r[o[j]] < r[o[i]]
        BY <3>5
      <4>2. q[Args(t, n)[k]] = r[o[j]] /\ Args(t, n)[k] \in Ids(t)
        BY <1>1, <1>3, <4>1
      <4> QED BY <3>2, <3>3, <4>1, <4>2
    <3> QED BY <3>2, <3>4, <3>5 DEF Origins
  <2> QED BY <2>1, <2>2
<1>7. \A n \in Ids(t) : Sound(t, Node(t, n))
  <2> SUFFICES ASSUME NEW n \in Ids(t) PROVE Sound(t, Node(t, n))
    OBVIOUS
  <2>1. CASE n \in Ids(h)
    <3>1. Sound(h, Node(h, n)) /\ Node(t, n) = Node(h, n) /\ t.consts = h.consts
      BY <1>1, <2>1 DEF Extends, IsGraph
    <3> QED BY <3>1 DEF Sound
  <2>2. CASE n \notin Ids(h)
    <3>1. PICK i \in 1..Len(more) : n = Size(h) + i - 1
      BY <1>1, <2>2
    <3>2. Sound(h, more[i]) /\ Node(t, n) = more[i] /\ t.consts = h.consts
      BY <1>1, <3>1 DEF Extends, Origins
    <3> QED BY <3>2 DEF Sound
  <2> QED BY <2>1, <2>2
<1>8. IsGraph(t)
  BY <1>1, <1>6, <1>7 DEF IsGraph
<1>9. Ranks(t, b, q)
  BY <1>5, <1>6 DEF Ranks
<1> QED BY <1>8, <1>9 DEF Acyclic

(* One node appended. *)
LEMMA AppendRawIsAll ==
  ASSUME NEW h, IsGraph(h), NEW node \in AnyNode
  PROVE  AppendRaw(h, node) = AppendAll(h, <<node>>) /\ <<node>> \in Seq(AnyNode)
<1>1. h.nodes \in Seq(AnyNode)
  BY DEF IsGraph
<1> HIDE DEF AnyNode
<1>2. Append(h.nodes, node) = h.nodes \o <<node>>
  BY <1>1, AppendIsConcat
<1> QED BY <1>2 DEF AppendRaw, AppendAll

LEMMA AppendedRaw ==
  ASSUME NEW h, IsGraph(h), NEW node \in AnyNode, NEW t, t = AppendRaw(h, node)
  PROVE  Extends(h, t) /\ Size(h) \in Ids(t) /\ Node(t, Size(h)) = node
<1> DEFINE more == <<node>>
<1>1. t = AppendAll(h, more) /\ more \in Seq(AnyNode) /\ Len(more) = 1 /\ more[1] = node
  BY AppendRawIsAll
<1> HIDE DEF more
<1>2. /\ Extends(h, t) /\ Size(h) \in Nat
      /\ \A i \in 1..Len(more) : Size(h) + i - 1 \in Ids(t) /\ Node(t, Size(h) + i - 1) = more[i]
  BY <1>1, AppendedNodes
<1>3. 1 \in 1..Len(more) /\ Size(h) + 1 - 1 = Size(h)
  BY <1>1, <1>2
<1>4. Size(h) \in Ids(t) /\ Node(t, Size(h)) = more[1]
  BY <1>2, <1>3
<1> QED BY <1>1, <1>2, <1>4

LEMMA AppendedNode ==
  ASSUME NEW h, IsGraph(h), NEW b \in Nat, NEW r, Ranks(h, b, r), NEW n \in Ids(h),
         NEW node \in AnyNode, Sound(h, node),
         \A k \in DOMAIN node.args : node.args[k] \in Ids(h) /\ r[node.args[k]] < r[n],
         NEW t, t = AppendRaw(h, node)
  PROVE  /\ Acyclic(t) /\ Extends(h, t)
         /\ Size(h) \in Ids(t) /\ Node(t, Size(h)) = node
<1> DEFINE more == <<node>>
           o    == [i \in 1..1 |-> n]
<1>1. t = AppendAll(h, more) /\ more \in Seq(AnyNode) /\ Len(more) = 1 /\ more[1] = node
  BY AppendRawIsAll
<1>2. Origins(h, r, more, o)
  BY <1>1 DEF Origins
<1> HIDE DEF more, o
<1>3. Acyclic(t)
  BY <1>1, <1>2, AppendAcyclic
<1>4. Extends(h, t) /\ Size(h) \in Ids(t) /\ Node(t, Size(h)) = node
  BY AppendedRaw
<1> QED BY <1>3, <1>4

-----------------------------------------------------------------------------
(* NOT and NULL are in no pair. *)
LEMMA Unpaired == \A p \in Opposites : p[1] \notin {"NOT", "NULL"} /\ p[2] \notin {"NOT", "NULL"}
  BY SMT DEF Opposites, ComparisonPairs, LogicPairs, PredicatePairs

(* No operation is in two pairs, nor twice in one. *)
LEMMA PairsApart ==
  ASSUME NEW p \in Opposites, NEW q \in Opposites, NEW op,
         op \in {p[1], p[2]}, op \in {q[1], q[2]}
  PROVE  p = q /\ p[1] # p[2]
  BY SMTT(60) DEF Opposites, ComparisonPairs, LogicPairs, PredicatePairs

(* getNegatedOperation exchanges the two of a pair. *)
LEMMA NegatedPair ==
  ASSUME NEW p \in Opposites
  PROVE  getNegatedOperation(p[1]) = p[2] /\ getNegatedOperation(p[2]) = p[1]
<1>1. ASSUME NEW op \in {p[1], p[2]}
      PROVE  (CHOOSE q \in Opposites : op \in {q[1], q[2]}) = p
  BY PairsApart
<1>2. ASSUME NEW op \in {p[1], p[2]}
      PROVE  getNegatedOperation(op) = IF op = p[1] THEN p[2] ELSE p[1]
  <2>1. op # "NOT" /\ op # "NULL" /\ \E q \in Opposites : op \in {q[1], q[2]}
    BY Unpaired
  <2> QED BY <2>1, <1>1, Zenon DEF getNegatedOperation
<1> QED BY <1>2, PairsApart

(* A negation is no constant, no column and no arithmetic, and neither is  *)
(* what has one.                                                           *)
LEMMA NegatedKind ==
  ASSUME NEW op
  PROVE  /\ getNegatedOperation(op) \in Operations
         /\ getNegatedOperation(op) \notin Numeric \cup {"CONST", "COLUMN"}
         /\ getNegatedOperation(op) # "INVALID" => op \notin Numeric \cup {"CONST", "COLUMN"}
<1>1. CASE op = "NOT"
  BY <1>1, Unpaired DEF getNegatedOperation, Numeric, Operations
<1>2. CASE op = "NULL"
  BY <1>2, Unpaired DEF getNegatedOperation, Numeric, Operations
<1>3. ASSUME NEW p \in Opposites, op \in {p[1], p[2]}
      PROVE  /\ getNegatedOperation(op) \in {p[1], p[2]}
             /\ \A o \in {p[1], p[2]} : o \in Operations /\ o \notin Numeric \cup {"CONST", "COLUMN"}
  <2>1. getNegatedOperation(op) \in {p[1], p[2]}
    BY <1>3, NegatedPair
  <2>2. \A o \in {p[1], p[2]} : o \in Operations /\ o \notin Numeric \cup {"CONST", "COLUMN"}
    BY SMT DEF Opposites, ComparisonPairs, LogicPairs, PredicatePairs, Numeric, Operations
  <2> QED BY <2>1, <2>2
<1>4. CASE op \notin {"NOT", "NULL"} /\ ~\E p \in Opposites : op \in {p[1], p[2]}
  <2>1. getNegatedOperation(op) = "INVALID"
    BY <1>4, Zenon DEF getNegatedOperation
  <2> QED BY <2>1 DEF Numeric, Operations
<1> QED BY <1>1, <1>2, <1>3, <1>4

LEMMA DualKind ==
  \A op : DeMorganDual(op) \in {"AND", "OR", "NAND", "NOR", "INVALID"}
  BY Zenon DEF DeMorganDual

(* What a rule returns is a graph without a cycle in which the nodes that  *)
(* were there are as they were, and a node of it.                          *)
RuleGood(h, res) ==
  /\ Acyclic(res.g) /\ Extends(h, res.g)
  /\ res.node \in Ids(res.g) \cup {NODE_NONE}
  /\ res.ok => res.node \in Ids(res.g)

LEMMA CloneGood ==
  ASSUME NEW h, Acyclic(h), NEW n \in Ids(h)
  PROVE  RuleGood(h, Threw(Clone(h, n)))
<1>b. PICK b \in Nat : \E r : IsGraph(h) /\ Ranks(h, b, r)
  BY DEF Acyclic
<1>1. PICK r : IsGraph(h) /\ Ranks(h, b, r)
  BY <1>b
<1>2. Node(h, n) \in AnyNode /\ Sound(h, Node(h, n))
  BY <1>1, NodeType DEF IsGraph
<1>3. \A k \in DOMAIN Node(h, n).args : Node(h, n).args[k] \in Ids(h) /\ r[Node(h, n).args[k]] < r[n]
  BY <1>1 DEF IsGraph, Ranks, Args
<1>4. Acyclic(Clone(h, n)) /\ Extends(h, Clone(h, n))
  BY <1>1, <1>2, <1>3, AppendedNode DEF Clone
<1> QED BY <1>4 DEF RuleGood, Threw

LEMMA NothingGood ==
  ASSUME NEW h, Acyclic(h)
  PROVE  RuleGood(h, Threw(h)) /\ \A n \in Ids(h) : RuleGood(h, Gives(h, n))
  BY DEF RuleGood, Threw, Gives, Extends

-----------------------------------------------------------------------------
(* A negated node is a node, of another operation. *)
LEMMA NegationType ==
  ASSUME NEW node \in AnyNode
  PROVE  /\ Negation(node) \in AnyNode
         /\ Negation(node).op = getNegatedOperation(node.op)
         /\ Negation(node).args = node.args
         /\ \A h : Sound(h, Negation(node))
<1>1. getNegatedOperation(node.op) \in Operations
  BY NegatedKind
<1>2. Negation(node) = [node EXCEPT !.op = getNegatedOperation(node.op)]
  BY Zenon DEF Negation
<1>3. /\ Negation(node) \in AnyNode
      /\ Negation(node).op = getNegatedOperation(node.op)
      /\ Negation(node).args = node.args
  BY <1>1, <1>2, Zenon DEF AnyNode
<1>4. ASSUME NEW h PROVE Sound(h, Negation(node))
  <2>1. getNegatedOperation(node.op) \notin Numeric \cup {"CONST", "COLUMN"}
    BY NegatedKind
  <2> QED BY <1>3, <2>1 DEF Sound
<1> QED BY <1>3, <1>4

(* What De Morgan's rule appends: the root, a negated clone of each        *)
(* argument before the first without a negation, and that one's clone.     *)
Pieces(h, n, good, all, more) ==
  LET args == Args(h, n)
  IN  /\ good \in 0..Len(args) /\ all \in good..Len(args) /\ Len(more) = 1 + all
      /\ more \in Seq(AnyNode)
      /\ more[1] \in AnyNode
      /\ more[1].op = DeMorganDual(Node(h, n).op)
      /\ more[1].args \in Seq(Int) /\ Len(more[1].args) = good
      /\ \A i \in 1..good : more[1].args[i] = Size(h) + i
      /\ \A i \in 1..good : more[i + 1] = Negation(Node(h, args[i]))
      /\ \A i \in good + 1..all : more[i + 1] = Node(h, args[i])

LEMMA ThreeParts ==
  ASSUME NEW V, NEW x \in V, NEW s \in Seq(V), NEW t \in Seq(V), NEW u, u = <<x>> \o s \o t
  PROVE  /\ u \in Seq(V) /\ Len(u) = 1 + Len(s) + Len(t) /\ u[1] = x
         /\ \A i \in 1..Len(s) : u[i + 1] = s[i]
         /\ \A i \in 1..Len(t) : u[1 + Len(s) + i] = t[i]
<1>1. <<x>> \in Seq(V) /\ Len(<<x>>) = 1 /\ <<x>>[1] = x
  OBVIOUS
<1> DEFINE v == <<x>> \o s
<1>2. v \in Seq(V) /\ Len(v) = 1 + Len(s) /\ v[1] = x /\ \A i \in 1..Len(s) : v[i + 1] = s[i]
  <2>1. /\ v \in Seq(V) /\ Len(v) = Len(<<x>>) + Len(s) /\ Len(s) \in Nat
        /\ \A i \in 1..Len(<<x>>) + Len(s) : v[i] = IF i <= Len(<<x>>) THEN <<x>>[i] ELSE s[i - Len(<<x>>)]
    BY <1>1, ConcatProperties
  <2> HIDE DEF v
  <2> QED BY <1>1, <2>1
<1>3. /\ u \in Seq(V) /\ Len(u) = Len(v) + Len(t)
      /\ \A i \in 1..Len(v) + Len(t) : u[i] = IF i <= Len(v) THEN v[i] ELSE t[i - Len(v)]
  <2>1. u = v \o t
    BY Zenon
  <2> HIDE DEF v
  <2> QED BY <1>2, <2>1, ConcatProperties
<1> HIDE DEF v
<1>4. Len(s) \in Nat /\ Len(t) \in Nat
  OBVIOUS
<1> QED BY <1>2, <1>3, <1>4

(* What De Morgan's rule appends: the root, a negation for each argument   *)
(* it could negate and, where it throws, the clone it could not.           *)
LEMMA DeMorganPieces ==
  ASSUME NEW h, IsGraph(h), NEW n \in Ids(h), DeMorganDual(Node(h, n).op) # "INVALID",
         NEW res, res = demorgan_apply(h, n)
  PROVE  \E good, all, more :
           /\ Pieces(h, n, good, all, more)
           /\ \/ /\ good = Len(Args(h, n)) /\ all = good
                 /\ Unnegatable(h, Args(h, n)) = {}
                 /\ res = Gives(AppendAll(h, more), Size(h))
              \/ res = Threw(AppendAll(h, more))
<1> DEFINE args   == Args(h, n)
           bad    == Unnegatable(h, args)
           good   == IF bad = {} THEN Len(args) ELSE Min(bad) - 1
           top    == [Node(h, n) EXCEPT !.op = DeMorganDual(@),
                                        !.args = [i \in 1..good |-> Size(h) + i]]
           clones == [i \in 1..good |-> Negation(Node(h, args[i]))]
           left   == IF bad = {} THEN <<>> ELSE <<Node(h, args[Min(bad)])>>
           more   == <<top>> \o clones \o left
           all    == IF bad = {} THEN good ELSE good + 1
<1>1. /\ Node(h, n) \in AnyNode /\ args \in Seq(Int)
      /\ \A i \in DOMAIN args : args[i] \in Ids(h)
  BY NodeType
<1>2. Len(args) \in Nat /\ DOMAIN args = 1..Len(args)
  BY <1>1
<1>3. bad \subseteq 1..Len(args) /\ (bad # {} => Min(bad) \in 1..Len(args))
  <2>1. bad \subseteq DOMAIN args
    BY DEF Unnegatable
  <2>2. bad \subseteq 1..Len(args) /\ bad \in SUBSET Nat
    BY <1>2, <2>1
  <2>3. bad # {} => Min(bad) \in bad
    BY <2>2, NatMin
  <2> QED BY <2>2, <2>3
<1>4. /\ good \in 0..Len(args) /\ all \in good..Len(args) /\ good \in Nat
      /\ bad # {} => Min(bad) = good + 1
  BY <1>2, <1>3
<1>5. Size(h) \in Nat
  <2>1. h.nodes \in Seq(AnyNode)
    BY DEF IsGraph
  <2> QED BY <2>1, SizeType
<1>6. [i \in 1..good |-> Size(h) + i] \in Seq(Int)
  <2>1. \A i \in 1..good : Size(h) + i \in Int
    BY <1>4, <1>5
  <2> QED BY <1>4, <2>1
<1>7. DeMorganDual(Node(h, n).op) \in Operations
  BY DualKind DEF Operations
<1>8. /\ top \in AnyNode /\ top.op = DeMorganDual(Node(h, n).op)
      /\ top.args = [i \in 1..good |-> Size(h) + i]
  <2> HIDE DEF good
  <2> QED BY <1>1, <1>6, <1>7, Zenon DEF AnyNode
<1> HIDE DEF good, top, bad
<1>9. clones \in Seq(AnyNode) /\ Len(clones) = good /\ \A i \in 1..good : clones[i] = Negation(Node(h, args[i]))
  <2>1. \A i \in 1..good : Negation(Node(h, args[i])) \in AnyNode
    <3> SUFFICES ASSUME NEW i \in 1..good PROVE Negation(Node(h, args[i])) \in AnyNode
      OBVIOUS
    <3>1. args[i] \in Ids(h)
      BY <1>1, <1>2, <1>4
    <3> QED BY <3>1, NodeType, NegationType
  <2> HIDE DEF AnyNode
  <2> QED BY <1>4, <2>1
<1>10. left \in Seq(AnyNode) /\ Len(left) = all - good /\ \A i \in 1..Len(left) : left[i] = Node(h, args[good + i])
  <2>1. CASE bad = {}
    BY <1>4, <2>1
  <2>2. CASE bad # {}
    <3>1. Min(bad) \in DOMAIN args /\ Min(bad) = good + 1
      BY <1>2, <1>3, <1>4, <2>2
    <3>2. Node(h, args[Min(bad)]) \in AnyNode
      BY <1>1, <3>1, NodeType
    <3>3. left = <<Node(h, args[good + 1])>> /\ all = good + 1
      BY <2>2, <3>1
    <3> HIDE DEF AnyNode, left, all
    <3> QED BY <1>4, <3>1, <3>2, <3>3
  <2> QED BY <2>1, <2>2
<1> HIDE DEF clones, left, all, AnyNode
<1>11. /\ more \in Seq(AnyNode) /\ Len(more) = 1 + all /\ more[1] = top
       /\ \A i \in 1..good : more[i + 1] = clones[i]
       /\ \A i \in 1..Len(left) : more[1 + good + i] = left[i]
  <2>1. /\ more \in Seq(AnyNode) /\ Len(more) = 1 + Len(clones) + Len(left) /\ more[1] = top
        /\ \A i \in 1..Len(clones) : more[i + 1] = clones[i]
        /\ \A i \in 1..Len(left) : more[1 + Len(clones) + i] = left[i]
    <3>1. /\ top \in AnyNode /\ clones \in Seq(AnyNode) /\ left \in Seq(AnyNode)
      BY <1>8, <1>9, <1>10
    <3>2. more = <<top>> \o clones \o left
      OBVIOUS
    <3> HIDE DEF more
    <3> QED BY ONLY <3>1, <3>2, ThreeParts
  <2> QED BY <1>4, <1>9, <1>10, <2>1
<1> HIDE DEF more
<1>12. ASSUME NEW i \in good + 1..all PROVE more[i + 1] = Node(h, args[i])
  <2>1. i - good \in 1..Len(left) /\ 1 + good + (i - good) = i + 1 /\ good + (i - good) = i
    BY <1>4, <1>10
  <2> QED BY <1>10, <1>11, <2>1
<1>13. more[1].args \in Seq(Int) /\ Len(more[1].args) = good /\ \A i \in 1..good : more[1].args[i] = Size(h) + i
  BY <1>4, <1>6, <1>8, <1>11
<1>14. Pieces(h, n, good, all, more)
  BY <1>4, <1>8, <1>9, <1>11, <1>12, <1>13 DEF Pieces
<1>15. CASE bad = {}
  <2>1. res = Gives(AppendAll(h, <<top>> \o clones), Size(h))
    BY <1>15, Zenon DEF demorgan_apply, bad, good, top, clones
  <2>2. more = <<top>> \o clones
    BY <1>8, <1>9, <1>15 DEF more, left
  <2>3. good = Len(args) /\ all = good
    BY <1>15 DEF good, all
  <2> QED BY <1>14, <1>15, <2>1, <2>2, <2>3 DEF bad
<1>16. CASE bad # {}
  <2>1. res = Threw(AppendAll(h, more))
    BY <1>16, Zenon DEF demorgan_apply, bad, good, top, clones, left, more
  <2> QED BY <1>14, <2>1
<1> QED BY <1>15, <1>16

(* A rule that made a clone of every argument has the clones right behind   *)
(* the root's (rules.h:45-83): De Morgan's rule returns a new node with the *)
(* dual operation and one argument for each of the old ones, its negation   *)
(* with the same arguments, and changes no node that was there, so that     *)
(* DeMorganMeans and NegationMeans apply to what it returns.                *)
THEOREM DeMorganClones ==
  ASSUME NEW h, IsGraph(h), NEW n \in Ids(h), NEW res, res = demorgan_apply(h, n), res.ok
  PROVE  /\ \A m \in Ids(h) : Node(res.g, m) = Node(h, m)
         /\ Node(res.g, res.node).op = DeMorganDual(Node(h, n).op)
         /\ DeMorganDual(Node(h, n).op) # "INVALID"
         /\ Len(Args(res.g, res.node)) = Len(Args(h, n))
         /\ \A i \in 1..Len(Args(h, n)) :
              /\ Node(res.g, Args(res.g, res.node)[i]) = Negation(Node(h, Args(h, n)[i]))
              /\ Negation(Node(h, Args(h, n)[i])).op # "INVALID"
<1>1. DeMorganDual(Node(h, n).op) # "INVALID"
  BY Zenon DEF demorgan_apply, Threw
<1>2. PICK good, all, more :
        /\ Pieces(h, n, good, all, more)
        /\ \/ /\ good = Len(Args(h, n)) /\ all = good
              /\ Unnegatable(h, Args(h, n)) = {}
              /\ res = Gives(AppendAll(h, more), Size(h))
           \/ res = Threw(AppendAll(h, more))
  BY <1>1, DeMorganPieces
<1>3. /\ good = Len(Args(h, n)) /\ all = good /\ Unnegatable(h, Args(h, n)) = {}
      /\ res.g = AppendAll(h, more) /\ res.node = Size(h)
  BY <1>2 DEF Threw, Gives
<1>4. PICK l \in Nat : /\ l = Len(Args(h, n)) /\ DOMAIN Args(h, n) = 1..l
                       /\ \A i \in 1..l : Args(h, n)[i] \in Ids(h)
  BY NodeType
<1>5. /\ more \in Seq(AnyNode) /\ Len(more) = 1 + l
      /\ more[1].op = DeMorganDual(Node(h, n).op)
      /\ Len(more[1].args) = l
      /\ \A i \in 1..l : more[1].args[i] = Size(h) + i
      /\ \A i \in 1..l : more[i + 1] = Negation(Node(h, Args(h, n)[i]))
  BY <1>2, <1>3, <1>4 DEF Pieces
<1> HIDE DEF AnyNode
<1>6. /\ Extends(h, res.g) /\ Size(h) \in Nat
      /\ \A i \in 1..Len(more) : Node(res.g, Size(h) + i - 1) = more[i]
  BY <1>3, <1>5, AppendedNodes
<1>7. Node(res.g, res.node) = more[1]
  <2>1. 1 \in 1..Len(more) /\ Size(h) + 1 - 1 = Size(h)
    BY <1>4, <1>5, <1>6
  <2> QED BY <1>3, <1>6, <2>1
<1>8. ASSUME NEW i \in 1..l
      PROVE  /\ Node(res.g, Args(res.g, res.node)[i]) = Negation(Node(h, Args(h, n)[i]))
             /\ Negation(Node(h, Args(h, n)[i])).op # "INVALID"
  <2>1. i + 1 \in 1..Len(more) /\ Size(h) + (i + 1) - 1 = Size(h) + i
    BY <1>4, <1>5, <1>6
  <2>2. Node(res.g, Size(h) + i) = Negation(Node(h, Args(h, n)[i]))
    BY <1>5, <1>6, <2>1
  <2>3. Args(res.g, res.node)[i] = Size(h) + i
    BY <1>5, <1>7 DEF Args
  <2>4. Negation(Node(h, Args(h, n)[i])).op = getNegatedOperation(Node(h, Args(h, n)[i]).op)
    <3>1. Node(h, Args(h, n)[i]) \in AnyNode
      BY <1>4, NodeType
    <3> QED BY <3>1, Zenon DEF Negation, AnyNode
  <2>5. getNegatedOperation(Node(h, Args(h, n)[i]).op) # "INVALID"
    BY <1>3, <1>4 DEF Unnegatable
  <2> QED BY <2>2, <2>3, <2>4, <2>5
<1> QED BY <1>1, <1>4, <1>5, <1>6, <1>7, <1>8 DEF Extends, Args

LEMMA PiecesGood ==
  ASSUME NEW h, Acyclic(h), NEW n \in Ids(h), NEW good, NEW all, NEW more,
         Pieces(h, n, good, all, more), DeMorganDual(Node(h, n).op) # "INVALID"
  PROVE  Acyclic(AppendAll(h, more)) /\ Extends(h, AppendAll(h, more)) /\ Size(h) \in Ids(AppendAll(h, more))
<1> DEFINE args == Args(h, n)
           t == AppendAll(h, more)
           o == [i \in 1..Len(more) |-> IF i = 1 THEN n ELSE args[i - 1]]
<1>b. PICK b \in Nat : \E r : IsGraph(h) /\ Ranks(h, b, r)
  BY DEF Acyclic
<1>1. PICK r : IsGraph(h) /\ Ranks(h, b, r)
  BY <1>b
<1>2. /\ Node(h, n) \in AnyNode /\ args \in Seq(Int) /\ Len(args) \in Nat
      /\ \A i \in 1..Len(args) : args[i] \in Ids(h) /\ r[args[i]] < r[n]
  BY <1>1, NodeType DEF Ranks
<1>3. /\ good \in 0..Len(args) /\ all \in good..Len(args) /\ Len(more) = 1 + all
      /\ more \in Seq(AnyNode) /\ all \in Nat /\ good \in Nat
  BY <1>2 DEF Pieces
<1>4. o \in [1..Len(more) -> Ids(h)]
  BY <1>2, <1>3
<1>5. o[1] = n /\ \A i \in 1..all : o[i + 1] = args[i]
  <2>1. 1 \in 1..Len(more) /\ \A i \in 1..all : i + 1 \in 1..Len(more) /\ i + 1 # 1 /\ (i + 1) - 1 = i
    BY <1>3
  <2> QED BY <2>1
<1> HIDE DEF o
<1>6. Sound(h, more[1]) /\ \A k \in DOMAIN more[1].args : \E j \in 1..Len(more) :
         more[1].args[k] = Size(h) + j - 1 /\ r[o[j]] < r[o[1]]
  <2>1. Sound(h, more[1])
    <3>1. more[1].op \in {"AND", "OR", "NAND", "NOR"}
      BY DualKind DEF Pieces
    <3> QED BY <3>1 DEF Sound, Numeric
  <2>2. ASSUME NEW k \in DOMAIN more[1].args
        PROVE  \E j \in 1..Len(more) : more[1].args[k] = Size(h) + j - 1 /\ r[o[j]] < r[o[1]]
    <3>1. k \in 1..good /\ more[1].args[k] = Size(h) + k
      BY DEF Pieces
    <3>2. Size(h) \in Nat
      <4>1. h.nodes \in Seq(AnyNode)
        BY <1>1 DEF IsGraph
      <4> QED BY <4>1, SizeType
    <3>3. k \in 1..all /\ k \in 1..Len(args) /\ k + 1 \in 1..Len(more) /\ Size(h) + k = Size(h) + (k + 1) - 1
      BY <1>2, <1>3, <3>1, <3>2
    <3>4. r[o[k + 1]] < r[o[1]]
      BY <1>2, <1>5, <3>3
    <3> QED BY <3>1, <3>3, <3>4
  <2> QED BY <2>1, <2>2
<1>7. ASSUME NEW i \in 1..all
      PROVE  /\ Sound(h, more[i + 1])
             /\ \A k \in DOMAIN more[i + 1].args :
                  more[i + 1].args[k] \in Ids(h) /\ r[more[i + 1].args[k]] < r[o[i + 1]]
  <2>1. i \in 1..Len(args) /\ (i \in 1..good \/ i \in good + 1..all)
    BY <1>2, <1>3
  <2> DEFINE c == args[i]
  <2>2. c \in Ids(h) /\ Node(h, c) \in AnyNode /\ Sound(h, Node(h, c)) /\ o[i + 1] = c
    BY <1>1, <1>2, <1>5, <2>1, NodeType DEF IsGraph
  <2>3. Sound(h, more[i + 1]) /\ more[i + 1].args = Node(h, c).args
    <3>1. CASE i \in 1..good
      BY <2>2, <3>1, NegationType DEF Pieces
    <3>2. CASE i \in good + 1..all
      BY <2>2, <3>2 DEF Pieces
    <3> QED BY <2>1, <3>1, <3>2
  <2> HIDE DEF c
  <2> QED BY <1>1, <2>2, <2>3 DEF IsGraph, Ranks, Args
<1>8. ASSUME NEW i \in 1..Len(more)
      PROVE  /\ Sound(h, more[i])
             /\ \A k \in DOMAIN more[i].args :
                  \/ more[i].args[k] \in Ids(h) /\ r[more[i].args[k]] < r[o[i]]
                  \/ \E j \in 1..Len(more) :
                       more[i].args[k] = Size(h) + j - 1 /\ r[o[j]] < r[o[i]]
  <2>1. CASE i = 1
    BY <1>6, <2>1
  <2>2. CASE i # 1
    <3>1. PICK j \in 1..all : i = j + 1
      <4>1. i - 1 \in 1..all /\ i = (i - 1) + 1
        BY <1>3, <2>2
      <4> QED BY <4>1
    <3> QED BY <1>7, <3>1
  <2> QED BY <2>1, <2>2
<1>9. Origins(h, r, more, o)
  BY <1>4, <1>8 DEF Origins
<1> HIDE DEF AnyNode
<1>10. Acyclic(t)
  BY <1>1, <1>3, <1>9, AppendAcyclic
<1>11. Extends(h, t) /\ \A i \in 1..Len(more) : Size(h) + i - 1 \in Ids(t)
  BY <1>1, <1>3, AppendedNodes
<1>12. Size(h) \in Ids(t)
  <2>1. 1 \in 1..Len(more)
    BY <1>3
  <2>2. Size(h) + 1 - 1 \in Ids(t)
    BY <1>11, <2>1
  <2>3. Size(h) \in Nat
    BY <1>1, SizeType DEF IsGraph
  <2> QED BY <2>2, <2>3
<1> QED BY <1>10, <1>11, <1>12

(* De Morgan's rule leaves a graph without a cycle, also when it throws. *)
LEMMA DeMorganGood ==
  ASSUME NEW h, Acyclic(h), NEW n \in Ids(h)
  PROVE  RuleGood(h, demorgan_apply(h, n))
<1>1. IsGraph(h)
  BY DEF Acyclic
<1>2. CASE DeMorganDual(Node(h, n).op) = "INVALID"
  <2>1. demorgan_apply(h, n) = Threw(Clone(h, n))
    BY <1>2, Zenon DEF demorgan_apply
  <2> QED BY <2>1, CloneGood
<1>3. CASE DeMorganDual(Node(h, n).op) # "INVALID"
  <2>1. PICK good, all, more :
           /\ Pieces(h, n, good, all, more)
           /\ \/ demorgan_apply(h, n) = Gives(AppendAll(h, more), Size(h))
              \/ demorgan_apply(h, n) = Threw(AppendAll(h, more))
    BY <1>1, <1>3, DeMorganPieces
  <2>2. Acyclic(AppendAll(h, more)) /\ Extends(h, AppendAll(h, more)) /\ Size(h) \in Ids(AppendAll(h, more))
    BY <1>3, <2>1, PiecesGood
  <2> QED BY <2>1, <2>2 DEF RuleGood, Threw, Gives
<1> QED BY <1>2, <1>3

-----------------------------------------------------------------------------
(* The arguments of a node, each as a list, or its own if it has op. *)
Slices(h, args, op) ==
  [i \in DOMAIN args |->
     IF Node(h, args[i]).op = op THEN Args(h, args[i]) ELSE <<args[i]>>]

LEMMA SlicesType ==
  ASSUME NEW h, IsGraph(h), NEW n \in Ids(h), NEW op
  PROVE  /\ Slices(h, Args(h, n), op) \in Seq(Seq(Ids(h)))
         /\ Len(Slices(h, Args(h, n), op)) = Len(Args(h, n))
         /\ Flattened(h, Args(h, n), op) = FlattenSeq(Slices(h, Args(h, n), op))
<1> DEFINE args == Args(h, n)
           s    == Slices(h, args, op)
<1>1. args \in Seq(Int) /\ \A i \in DOMAIN args : args[i] \in Ids(h)
  BY NodeType
<1>2. Len(args) \in Nat /\ DOMAIN args = 1..Len(args)
  BY <1>1
<1>3. ASSUME NEW i \in 1..Len(args)
      PROVE  (IF Node(h, args[i]).op = op THEN Args(h, args[i]) ELSE <<args[i]>>) \in Seq(Ids(h))
  <2>1. args[i] \in Ids(h)
    BY <1>1, <1>2
  <2>2. Args(h, args[i]) \in Seq(Int) /\ \A k \in DOMAIN Args(h, args[i]) : Args(h, args[i])[k] \in Ids(h)
    BY <2>1, NodeType
  <2>3. Args(h, args[i]) \in Seq(Ids(h))
    BY <2>2, ElementsType
  <2> QED BY <2>1, <2>3
<1>4. s = [i \in 1..Len(args) |-> IF Node(h, args[i]).op = op THEN Args(h, args[i]) ELSE <<args[i]>>]
  BY <1>2 DEF Slices
<1> HIDE DEF args
<1>5. s \in [1..Len(args) -> Seq(Ids(h))]
  BY <1>3, <1>4
<1> HIDE DEF s
<1>6. s \in Seq(Seq(Ids(h))) /\ Len(s) = Len(args)
  BY <1>2, <1>5
<1> QED BY <1>6 DEF s, args, Flattened, Slices

LEMMA FlattenedElements ==
  ASSUME NEW h, IsGraph(h), NEW n \in Ids(h), NEW op
  PROVE  /\ Flattened(h, Args(h, n), op) \in Seq(Int)
         /\ \A k \in DOMAIN Flattened(h, Args(h, n), op) :
              LET e == Flattened(h, Args(h, n), op)[k]
              IN  /\ e \in Ids(h)
                  /\ \E i \in DOMAIN Args(h, n) :
                       \/ e = Args(h, n)[i]
                       \/ \E j \in DOMAIN Args(h, Args(h, n)[i]) : e = Args(h, Args(h, n)[i])[j]
<1> DEFINE args == Args(h, n)
           s    == Slices(h, args, op)
           f    == FlattenSeq(s)
<1>1. s \in Seq(Seq(Ids(h))) /\ Len(s) = Len(args) /\ Flattened(h, Args(h, n), op) = f
  BY SlicesType
<1>2. args \in Seq(Int) /\ \A i \in DOMAIN args : args[i] \in Ids(h)
  BY NodeType
<1>3. \A i \in DOMAIN args : s[i] = IF Node(h, args[i]).op = op THEN Args(h, args[i]) ELSE <<args[i]>>
  BY DEF Slices
<1>4. DOMAIN s = DOMAIN args
  BY <1>1, <1>2
<1> HIDE DEF s, args
<1>5. f \in Seq(Ids(h))
  BY <1>1, FlattenType
<1>6. Ids(h) \subseteq Int
  BY SizeType DEF IsGraph, Ids
<1>7. f \in Seq(Int)
  BY <1>5, <1>6, ElementsType
<1>8. ASSUME NEW k \in DOMAIN f
      PROVE  /\ f[k] \in Ids(h)
             /\ \E i \in DOMAIN args : \/ f[k] = args[i]
                                       \/ \E j \in DOMAIN Args(h, args[i]) : f[k] = Args(h, args[i])[j]
  <2>1. PICK i \in DOMAIN s : \E j \in DOMAIN s[i] : f[k] = s[i][j]
    BY <1>1, FlattenElements
  <2>2. PICK j \in DOMAIN s[i] : f[k] = s[i][j]
    BY <2>1
  <2>3. i \in DOMAIN args /\ (s[i] = Args(h, args[i]) \/ s[i] = <<args[i]>>)
    BY <1>3, <1>4
  <2>4. CASE s[i] = Args(h, args[i])
    BY <1>5, <2>2, <2>3, <2>4
  <2>5. CASE s[i] = <<args[i]>>
    BY <1>5, <2>2, <2>3, <2>5
  <2> QED BY <2>3, <2>4, <2>5
<1> QED BY <1>1, <1>7, <1>8 DEF args

(* A node whose arguments are merged. *)
Merged(h, n, op) == [Node(h, n) EXCEPT !.args = Flattened(h, @, op)]

LEMMA MergedType ==
  ASSUME NEW h, IsGraph(h), NEW n \in Ids(h), NEW op,
         Node(h, n).op \in Numeric => op = Node(h, n).op
  PROVE  /\ Merged(h, n, op) \in AnyNode
         /\ Merged(h, n, op).op = Node(h, n).op
         /\ Merged(h, n, op).args = Flattened(h, Args(h, n), op)
         /\ Sound(h, Merged(h, n, op))
         /\ MergedClone(h, n, op) = Gives(AppendRaw(h, Merged(h, n, op)), Size(h))
<1> DEFINE new == Merged(h, n, op)
           flat == Flattened(h, Args(h, n), op)
<1>1. Node(h, n) \in AnyNode /\ flat \in Seq(Int) /\ Sound(h, Node(h, n))
  BY NodeType, FlattenedElements DEF IsGraph
<1>2. new = [Node(h, n) EXCEPT !.args = flat]
  BY Zenon DEF Merged, Args
<1>3. /\ new \in AnyNode /\ new.op = Node(h, n).op /\ new.args = flat
      /\ new.type = Node(h, n).type /\ new.const = Node(h, n).const
  <2> HIDE DEF flat, new
  <2> QED BY <1>1, <1>2, Zenon DEF AnyNode
<1>4. ASSUME Node(h, n).op \in Numeric
      PROVE  flat # <<>>
  <2> DEFINE args == Args(h, n)
             s    == Slices(h, args, op)
  <2>1. s \in Seq(Seq(Ids(h))) /\ Len(s) = Len(args) /\ flat = FlattenSeq(s)
    BY SlicesType
  <2>2. /\ args \in Seq(Int) /\ args # <<>>
        /\ \A i \in DOMAIN args : args[i] \in Ids(h)
    BY <1>1, <1>4, NodeType DEF Sound, Args
  <2>3. s # <<>> /\ DOMAIN s = DOMAIN args
    BY <2>1, <2>2
  <2>4. ASSUME NEW i \in DOMAIN s PROVE s[i] # <<>>
    <3>1. i \in DOMAIN args /\ args[i] \in Ids(h)
      BY <2>2, <2>3
    <3>2. s[i] = IF Node(h, args[i]).op = op THEN Args(h, args[i]) ELSE <<args[i]>>
      BY <3>1 DEF Slices
    <3>3. CASE Node(h, args[i]).op = op
      <4>1. Sound(h, Node(h, args[i])) /\ Node(h, args[i]).op \in Numeric
        BY <1>4, <3>1, <3>3 DEF IsGraph
      <4> QED BY <3>2, <3>3, <4>1 DEF Sound, Args
    <3>4. CASE Node(h, args[i]).op # op
      BY <3>2, <3>4
    <3> QED BY <3>3, <3>4
  <2> HIDE DEF s, flat
  <2> QED BY <2>1, <2>3, <2>4, FlattenSomething
<1>5. Sound(h, new)
  <2> HIDE DEF new, flat
  <2> QED BY <1>1, <1>3, <1>4 DEF Sound
<1>6. MergedClone(h, n, op) = Gives(AppendRaw(h, new), Size(h))
  BY DEF MergedClone, Merged
<1> QED BY <1>3, <1>5, <1>6

(* A clone with the arguments of its arguments leaves a graph without a    *)
(* cycle.                                                                  *)
LEMMA MergedCloneGood ==
  ASSUME NEW h, Acyclic(h), NEW n \in Ids(h), NEW op,
         Node(h, n).op \in Numeric => op = Node(h, n).op
  PROVE  RuleGood(h, MergedClone(h, n, op))
<1>b. PICK b \in Nat : \E r : IsGraph(h) /\ Ranks(h, b, r)
  BY DEF Acyclic
<1>1. PICK r : IsGraph(h) /\ Ranks(h, b, r)
  BY <1>b
<1> DEFINE new == Merged(h, n, op)
           t == AppendRaw(h, new)
<1>2. /\ new \in AnyNode /\ Sound(h, new) /\ new.args = Flattened(h, Args(h, n), op)
      /\ MergedClone(h, n, op) = Gives(t, Size(h))
  BY <1>1, MergedType
<1>3. ASSUME NEW k \in DOMAIN new.args
      PROVE  new.args[k] \in Ids(h) /\ r[new.args[k]] < r[n]
  <2> DEFINE args == Args(h, n)
             e == new.args[k]
  <2>1. /\ e \in Ids(h)
        /\ \E i \in DOMAIN args : \/ e = args[i]
                                  \/ \E j \in DOMAIN Args(h, args[i]) : e = Args(h, args[i])[j]
    BY <1>1, <1>2, FlattenedElements
  <2>2. PICK i \in DOMAIN args : \/ e = args[i]
                                 \/ \E j \in DOMAIN Args(h, args[i]) : e = Args(h, args[i])[j]
    BY <2>1
  <2> HIDE DEF e, new
  <2>3. args[i] \in Ids(h) /\ r[args[i]] < r[n]
    BY <1>1 DEF IsGraph, Ranks
  <2>4. ASSUME NEW j \in DOMAIN Args(h, args[i]) PROVE r[Args(h, args[i])[j]] < r[args[i]]
    BY <1>1, <2>3 DEF Ranks
  <2>5. \A m \in Ids(h) : r[m] \in Nat
    BY <1>1 DEF Ranks
  <2>6. r[e] < r[n]
    <3>1. CASE e = args[i]
      BY <2>3, <3>1
    <3>2. CASE \E j \in DOMAIN Args(h, args[i]) : e = Args(h, args[i])[j]
      <4>1. r[e] < r[args[i]]
        BY <2>4, <3>2
      <4> QED BY <2>1, <2>3, <2>5, <4>1
    <3> QED BY <2>2, <3>1, <3>2
  <2> QED BY <2>1, <2>6 DEF e
<1> HIDE DEF new, AnyNode
<1>4. Acyclic(t) /\ Extends(h, t) /\ Size(h) \in Ids(t)
  BY <1>1, <1>2, <1>3, AppendedNode
<1> QED BY <1>2, <1>4 DEF RuleGood, Gives

(* Reducing NOT and NOP leaves a graph without a cycle. *)
LEMMA ReduceGood ==
  ASSUME NEW h, Acyclic(h), NEW n \in Ids(h)
  PROVE  RuleGood(h, reduce_not_nop_apply(h, n))
<1>b. PICK b \in Nat : \E r : IsGraph(h) /\ Ranks(h, b, r)
  BY DEF Acyclic
<1>1. PICK r : IsGraph(h) /\ Ranks(h, b, r)
  BY <1>b
<1> DEFINE op == Node(h, n).op
           child == Args(h, n)[1]
           neg == Negation(Node(h, child))
           t == AppendRaw(h, neg)
<1>2. CASE op \notin {"NOT", "NOP"} \/ Len(Args(h, n)) # 1
  <2>1. reduce_not_nop_apply(h, n) = Threw(h)
    BY <1>2, Zenon DEF reduce_not_nop_apply
  <2> QED BY <2>1, NothingGood
<1>3. CASE op \in {"NOT", "NOP"} /\ Len(Args(h, n)) = 1
  <2>1. child \in Ids(h) /\ Node(h, child) \in AnyNode
    <3>1. Args(h, n) \in Seq(Int) /\ \A i \in DOMAIN Args(h, n) : Args(h, n)[i] \in Ids(h)
      BY <1>1, NodeType
    <3>2. child \in Ids(h)
      BY <1>3, <3>1
    <3> QED BY <1>1, <3>2, NodeType
  <2>2. \/ reduce_not_nop_apply(h, n) = Gives(h, child)
        \/ reduce_not_nop_apply(h, n) = Threw(Clone(h, child))
        \/ reduce_not_nop_apply(h, n) = Gives(t, Size(h))
    BY <1>3, Zenon DEF reduce_not_nop_apply
  <2>3. RuleGood(h, Gives(h, child))
    BY <2>1, NothingGood
  <2>4. RuleGood(h, Threw(Clone(h, child)))
    BY <2>1, CloneGood
  <2>5. RuleGood(h, Gives(t, Size(h)))
    <3>1. neg \in AnyNode /\ Sound(h, neg) /\ neg.args = Args(h, child)
      BY <2>1, NegationType DEF Args
    <3>2. \A k \in DOMAIN neg.args : neg.args[k] \in Ids(h) /\ r[neg.args[k]] < r[child]
      BY <1>1, <2>1, <3>1 DEF IsGraph, Ranks
    <3> HIDE DEF neg, AnyNode
    <3>3. Acyclic(t) /\ Extends(h, t) /\ Size(h) \in Ids(t)
      BY <1>1, <2>1, <3>1, <3>2, AppendedNode
    <3> QED BY <3>3 DEF RuleGood, Gives
  <2> QED BY <2>2, <2>3, <2>4, <2>5
<1> QED BY <1>2, <1>3

(* The data frame that pull_df_apply gives. *)
Pulled(h, n) ==
  LET args == Args(h, n)
      from == {i \in DOMAIN args : Node(h, args[i]).df # 0}
  IN  IF from = {} THEN 0 ELSE Node(h, args[Min(from)]).df

LEMMA PulledType ==
  ASSUME NEW h, IsGraph(h), NEW n \in Ids(h)
  PROVE  /\ Pulled(h, n) \in Int
         /\ [Node(h, n) EXCEPT !.df = Pulled(h, n)] \in AnyNode
         /\ [Node(h, n) EXCEPT !.df = Pulled(h, n)].args = Args(h, n)
         /\ [Node(h, n) EXCEPT !.df = Pulled(h, n)].df = Pulled(h, n)
         /\ Sound(h, [Node(h, n) EXCEPT !.df = Pulled(h, n)])
         /\ ChildDfs(h, n) # {} => Pulled(h, n) \in ChildDfs(h, n)
<1> DEFINE args == Args(h, n)
           from == {i \in DOMAIN args : Node(h, args[i]).df # 0}
           df   == Pulled(h, n)
           new  == [Node(h, n) EXCEPT !.df = df]
<1>1. args \in Seq(Int) /\ \A i \in DOMAIN args : args[i] \in Ids(h)
  BY NodeType
<1>2. from # {} => Min(from) \in from
  <2>1. from \in SUBSET Nat
    BY <1>1
  <2> HIDE DEF from
  <2> QED BY <2>1, NatMin
<1>3. df = IF from = {} THEN 0 ELSE Node(h, args[Min(from)]).df
  BY DEF Pulled
<1>4. from # {} => df \in Int /\ df # 0 /\ \E i \in DOMAIN args : df = Node(h, args[i]).df
  <2> SUFFICES ASSUME from # {} PROVE df \in Int /\ df # 0 /\ \E i \in DOMAIN args : df = Node(h, args[i]).df
    OBVIOUS
  <2>1. Min(from) \in DOMAIN args /\ Node(h, args[Min(from)]).df # 0
    BY <1>2
  <2>2. Node(h, args[Min(from)]) \in AnyNode
    BY <1>1, <2>1, NodeType
  <2>3. Node(h, args[Min(from)]).df \in Int
    BY <2>2 DEF AnyNode
  <2> QED BY <1>3, <2>1, <2>3
<1>5. ChildDfs(h, n) # {} => from # {}
  BY DEF ChildDfs, Range
<1>6. df \in Int
  BY <1>3, <1>4
<1>7. ChildDfs(h, n) # {} => df \in ChildDfs(h, n)
  BY <1>4, <1>5 DEF ChildDfs, Range
<1> HIDE DEF from, df
<1>8. /\ Node(h, n) \in AnyNode /\ Sound(h, Node(h, n))
  BY NodeType DEF IsGraph
<1>9. /\ new \in AnyNode /\ new.args = args /\ new.df = df /\ new.op = Node(h, n).op
      /\ new.type = Node(h, n).type /\ new.const = Node(h, n).const
  BY <1>6, <1>8, Zenon DEF AnyNode, Args
<1>10. Sound(h, new)
  <2> HIDE DEF new
  <2> QED BY <1>8, <1>9 DEF Sound, Args
<1> QED BY <1>6, <1>7, <1>9, <1>10 DEF df

(* Pulling a data frame up leaves a graph without a cycle. *)
LEMMA PullGood ==
  ASSUME NEW h, Acyclic(h), NEW n \in Ids(h)
  PROVE  RuleGood(h, pull_df_apply(h, n))
<1>b. PICK b \in Nat : \E r : IsGraph(h) /\ Ranks(h, b, r)
  BY DEF Acyclic
<1>1. PICK r : IsGraph(h) /\ Ranks(h, b, r)
  BY <1>b
<1> DEFINE new == [Node(h, n) EXCEPT !.df = Pulled(h, n)]
           t == AppendRaw(h, new)
           res == pull_df_apply(h, n)
<1>2. CASE Node(h, n).df = 0
  <2>1. res = Threw(h)
    BY <1>2, Zenon DEF pull_df_apply
  <2> QED BY <1>2, <2>1, NothingGood
<1>3. CASE Node(h, n).df # 0
  <2>1. res = Gives(t, Size(h))
    BY <1>3, Zenon DEF pull_df_apply, Pulled
  <2>2. new \in AnyNode /\ Sound(h, new) /\ new.args = Args(h, n)
    BY <1>1, PulledType
  <2>3. \A k \in DOMAIN new.args : new.args[k] \in Ids(h) /\ r[new.args[k]] < r[n]
    BY <1>1, <2>2 DEF IsGraph, Ranks
  <2> HIDE DEF new, AnyNode
  <2>4. Acyclic(t) /\ Extends(h, t) /\ Size(h) \in Ids(t) /\ Node(t, Size(h)) = new
    BY <1>1, <2>2, <2>3, AppendedNode
  <2> QED BY <2>1, <2>4 DEF RuleGood, Gives
<1> QED BY <1>2, <1>3

-----------------------------------------------------------------------------
(* What a visit returns: a graph in which arguments come first, but for    *)
(* the missing end of a RANGE.                                             *)
InOrder(h) ==
  /\ h \in [names : Seq(STRING), nodes : Seq(AnyNode), consts : [Types -> Seq(Int)]]
  /\ \A n \in Ids(h) :
       /\ Sound(h, Node(h, n))
       /\ \A i \in DOMAIN Args(h, n) :
            \/ Args(h, n)[i] \in 0..(n - 1)
            \/ /\ Args(h, n)[i] = NODE_NONE
               /\ Node(h, n).op = "RANGE" /\ Node(h, n).df = NODE_NONE /\ i = 3

(* Numbering the data frames changes nothing else, and where it reads no   *)
(* missing argument the graph has none.                                    *)
LEMMA NumberedNodes ==
  ASSUME NEW h, h \in [names : Seq(STRING), nodes : Seq(AnyNode), consts : [Types -> Seq(Int)]],
         NEW t, t = fillDFIds(h)
  PROVE  /\ t \in [names : Seq(STRING), nodes : Seq(AnyNode), consts : [Types -> Seq(Int)]]
         /\ t.consts = h.consts /\ Ids(t) = Ids(h) /\ Size(t) = Size(h)
         /\ \A n \in Ids(h) : /\ Node(t, n).op = Node(h, n).op /\ Node(t, n).type = Node(h, n).type
                              /\ Node(t, n).const = Node(h, n).const /\ Node(t, n).args = Node(h, n).args
<1> DEFINE new(i) == IF isTableOperation(h.nodes[i].op) /\ h.nodes[i].df = NODE_NONE
                     THEN [h.nodes[i] EXCEPT !.df = i - 1] ELSE h.nodes[i]
           s == [i \in DOMAIN h.nodes |-> new(i)]
<1>1. h.nodes \in Seq(AnyNode)
  OBVIOUS
<1>2. t = [h EXCEPT !.nodes = s]
  BY Zenon DEF fillDFIds
<1>3. Len(h.nodes) \in Nat /\ DOMAIN h.nodes = 1..Len(h.nodes)
  BY <1>1
<1>4. ASSUME NEW i \in DOMAIN h.nodes
      PROVE  /\ new(i) \in AnyNode
             /\ new(i).op = h.nodes[i].op /\ new(i).type = h.nodes[i].type
             /\ new(i).const = h.nodes[i].const /\ new(i).args = h.nodes[i].args
  <2>1. h.nodes[i] \in AnyNode /\ i - 1 \in Int
    BY <1>1
  <2>2. PICK d \in Int : d = i - 1
    BY <2>1
  <2>3. PICK node \in AnyNode : node = h.nodes[i]
    BY <2>1
  <2>4. [node EXCEPT !.df = d] \in AnyNode
    BY Zenon DEF AnyNode
  <2>5. /\ [node EXCEPT !.df = d].op = node.op /\ [node EXCEPT !.df = d].type = node.type
        /\ [node EXCEPT !.df = d].const = node.const /\ [node EXCEPT !.df = d].args = node.args
    BY Zenon DEF AnyNode
  <2>6. new(i) = node \/ new(i) = [node EXCEPT !.df = d]
    BY <2>2, <2>3, Zenon
  <2> HIDE DEF new
  <2> QED BY <2>3, <2>4, <2>5, <2>6, Zenon
<1> HIDE DEF new, AnyNode
<1>5. s \in Seq(AnyNode) /\ Len(s) = Len(h.nodes)
  BY <1>3, <1>4
<1>6. t \in [names : Seq(STRING), nodes : Seq(AnyNode), consts : [Types -> Seq(Int)]] /\ t.nodes = s /\ t.consts = h.consts
  <2> HIDE DEF s
  <2> QED BY <1>2, <1>5, Zenon
<1>7. Size(t) = Size(h) /\ Ids(t) = Ids(h)
  BY <1>5, <1>6 DEF Size, Ids
<1>8. ASSUME NEW n \in Ids(h)
      PROVE  Node(t, n) = new(n + 1) /\ n + 1 \in DOMAIN h.nodes
  <2>1. n + 1 \in DOMAIN h.nodes
    BY <1>3 DEF Ids, Size
  <2> QED BY <1>6, <2>1 DEF Node
<1> QED BY <1>4, <1>6, <1>7, <1>8 DEF Node

(* A graph in parsing order has no cycle once its data frames are          *)
(* numbered.                                                               *)
LEMMA NumberedAcyclic ==
  ASSUME NEW h, InOrder(h), ~fillDFIdsReadsOutside(h)
  PROVE  Acyclic(fillDFIds(h)) /\ Ids(fillDFIds(h)) = Ids(h)
<1> DEFINE t == fillDFIds(h)
<1>1. /\ t \in [names : Seq(STRING), nodes : Seq(AnyNode), consts : [Types -> Seq(Int)]]
      /\ t.consts = h.consts /\ Ids(t) = Ids(h) /\ Size(t) = Size(h)
      /\ \A n \in Ids(h) : /\ Node(t, n).op = Node(h, n).op /\ Node(t, n).type = Node(h, n).type
                           /\ Node(t, n).const = Node(h, n).const /\ Node(t, n).args = Node(h, n).args
  BY NumberedNodes DEF InOrder
<1>2. /\ h.nodes \in Seq(AnyNode) /\ Size(h) \in Nat
      /\ \A n : n \in Ids(h) <=> n \in Nat /\ n < Size(h)
  <2>1. h.nodes \in Seq(AnyNode)
    BY DEF InOrder
  <2> QED BY <2>1, SizeType
<1>3. ASSUME NEW n \in Ids(h), NEW i \in DOMAIN Args(h, n)
      PROVE  Args(h, n)[i] \in 0..(n - 1)
  <2>1. CASE Node(h, n).op = "RANGE" /\ Node(h, n).df = NODE_NONE
    <3>1. n + 1 \in DOMAIN h.nodes /\ Node(h, n) = h.nodes[n + 1]
      BY <1>2 DEF Ids, Size, Node
    <3>2. isTableOperation(h.nodes[n + 1].op) /\ h.nodes[n + 1].df = NODE_NONE
      BY <2>1, <3>1 DEF isTableOperation
    <3>3. h.nodes[n + 1].args[i] # NODE_NONE
      BY <3>1, <3>2 DEF fillDFIdsReadsOutside, Args
    <3>4. Args(h, n)[i] # NODE_NONE
      BY <3>1, <3>3 DEF Args
    <3> QED BY <3>4 DEF InOrder
  <2>2. CASE ~(Node(h, n).op = "RANGE" /\ Node(h, n).df = NODE_NONE)
    BY <2>2 DEF InOrder
  <2> QED BY <2>1, <2>2
<1> DEFINE r == [n \in Ids(t) |-> n]
<1>4. ASSUME NEW n \in Ids(t), NEW i \in DOMAIN Args(t, n)
      PROVE  Args(t, n)[i] \in Ids(t) /\ Args(t, n)[i] < n
  <2>1. Args(t, n) = Args(h, n) /\ n \in Ids(h)
    BY <1>1 DEF Args
  <2>2. Args(h, n)[i] \in 0..(n - 1)
    BY <1>3, <2>1
  <2> QED BY <1>1, <1>2, <2>1, <2>2
<1>5. ASSUME NEW n \in Ids(t) PROVE Sound(t, Node(t, n))
  <2>1. Sound(h, Node(h, n)) /\ n \in Ids(h)
    BY <1>1 DEF InOrder
  <2> QED BY <1>1, <2>1 DEF Sound
<1> HIDE DEF t
<1>6. IsGraph(t)
  BY <1>1, <1>4, <1>5 DEF IsGraph
<1>7. Ranks(t, Size(h), r)
  <2>1. r \in [Ids(t) -> 0..Size(h)]
    BY <1>1, <1>2
  <2>2. ASSUME NEW n \in Ids(t), NEW i \in DOMAIN Args(t, n)
        PROVE  r[Args(t, n)[i]] < r[n]
    BY <1>4
  <2> HIDE DEF r
  <2> QED BY <2>1, <2>2 DEF Ranks
<1> QED BY <1>1, <1>2, <1>6, <1>7 DEF Acyclic, t

-----------------------------------------------------------------------------
(* The inductive invariant.                                                *)
PhaseInv ==
  /\ phase \in {"text", "parsed", "numbered", "compact", "failed"}
  /\ phase \in {"text", "parsed"} => last = NoRule
  /\ phase = "parsed" => g = out.g /\ root = out.node /\ out.err = ""

GraphInv ==
  phase = "numbered" =>
    /\ Acyclic(g) /\ root \in Ids(g)
    /\ last.result \in Ids(g) \cup {NODE_NONE}
    /\ last.rule = "none" => last = NoRule

(* Whatever rule is applied leaves a graph without a cycle. *)
LEMMA AppliedGood ==
  ASSUME NEW h, Acyclic(h), NEW n \in Ids(h)
  PROVE  /\ RuleGood(h, demorgan_apply(h, n))
         /\ RuleGood(h, reduce_not_nop_apply(h, n))
         /\ RuleGood(h, pull_df_apply(h, n))
         /\ RuleGood(h, merge_cummutative_logic_apply(h, n))
         /\ Node(h, n).op \in {"ADD", "MUL", "MIN", "MAX"} =>
              RuleGood(h, merge_cummutative_numeric_apply(h, n))
<1>1. RuleGood(h, merge_cummutative_logic_apply(h, n))
  <2> DEFINE op == MergedInto(Node(h, n).op)
  <2>1. CASE op = "INVALID"
    BY <2>1, CloneGood, Zenon DEF merge_cummutative_logic_apply
  <2>2. CASE op # "INVALID"
    <3>1. Node(h, n).op \in {"AND", "NAND", "OR", "NOR", "XOR", "XNOR"}
      BY <2>2, Zenon DEF MergedInto
    <3>2. Node(h, n).op \notin Numeric
      BY <3>1 DEF Numeric
    <3>3. RuleGood(h, MergedClone(h, n, op))
      BY <3>2, MergedCloneGood
    <3>4. merge_cummutative_logic_apply(h, n) = MergedClone(h, n, op)
      BY <2>2, Zenon DEF merge_cummutative_logic_apply
    <3> QED BY <3>3, <3>4
  <2> QED BY <2>1, <2>2
<1>2. RuleGood(h, merge_cummutative_numeric_apply(h, n))
  BY MergedCloneGood DEF merge_cummutative_numeric_apply
<1> QED BY <1>1, <1>2, DeMorganGood, ReduceGood, PullGood

LEMMA AppliedIsGood ==
  ASSUME Acyclic(g), NEW rule \in Rules, NEW n \in Ids(g), MayTry(rule, n)
  PROVE  RuleGood(g, Applied(rule, n))
<1>1. CASE rule = "demorgan"
  BY <1>1, AppliedGood DEF Applied
<1>2. CASE rule = "merge_numeric"
  BY <1>2, AppliedGood DEF Applied, MayTry
<1>3. CASE rule = "merge_logic"
  BY <1>3, AppliedGood DEF Applied
<1>4. CASE rule = "reduce_not"
  BY <1>4, AppliedGood DEF Applied
<1>5. CASE rule = "pull_df"
  BY <1>5, AppliedGood DEF Applied
<1> QED BY <1>1, <1>2, <1>3, <1>4, <1>5 DEF Rules

LEMMA InvInit == Init => PhaseInv /\ GraphInv
  BY DEF Init, PhaseInv, GraphInv

(* Every step keeps the invariant. *)
LEMMA InvNext ==
  ASSUME PhaseInv, GraphInv, ParsingOrder, [Next]_vars
  PROVE  PhaseInv' /\ GraphInv'
<1>1. CASE Parse
  BY <1>1 DEF Parse, PhaseInv, GraphInv
<1>2. CASE NumberDataFrames
  <2>1. CASE fillDFIdsReadsOutside(g)
    BY <1>2, <2>1 DEF NumberDataFrames, PhaseInv, GraphInv
  <2>2. CASE ~fillDFIdsReadsOutside(g)
    <3>1. /\ phase = "parsed" /\ phase' = "numbered" /\ g' = fillDFIds(g)
          /\ root' = root /\ last' = last /\ out' = out
      BY <1>2, <2>2 DEF NumberDataFrames
    <3>2. InOrder(g) /\ root \in Ids(g) /\ last = NoRule
      BY <3>1 DEF ParsingOrder, PhaseInv, InOrder
    <3>3. Acyclic(g') /\ Ids(g') = Ids(g)
      BY <2>2, <3>1, <3>2, NumberedAcyclic
    <3> QED BY <3>1, <3>2, <3>3 DEF PhaseInv, GraphInv, NoRule
  <2> QED BY <2>1, <2>2
<1>3. ASSUME NEW rule \in Rules, NEW n \in Ids(g), Rewrite(rule, n)
      PROVE  PhaseInv' /\ GraphInv'
  <2>1. /\ phase = "numbered" /\ phase' = "numbered" /\ MayTry(rule, n)
        /\ g' = Applied(rule, n).g /\ root' = root
        /\ last' = [rule |-> rule, node |-> n, result |-> Applied(rule, n).node, ok |-> Applied(rule, n).ok]
    BY <1>3 DEF Rewrite
  <2>2. RuleGood(g, Applied(rule, n))
    BY <2>1, AppliedIsGood DEF GraphInv
  <2>3. Acyclic(g') /\ root' \in Ids(g') /\ last'.result \in Ids(g') \cup {NODE_NONE}
    BY <2>1, <2>2 DEF RuleGood, Extends, GraphInv
  <2> QED BY <2>1, <2>3 DEF PhaseInv, GraphInv, Rules
<1>4. CASE Compact
  BY <1>4 DEF Compact, PhaseInv, GraphInv
<1>5. CASE UNCHANGED vars
  BY <1>5 DEF vars, PhaseInv, GraphInv
<1> QED BY <1>1, <1>2, <1>3, <1>4, <1>5 DEF Next

-----------------------------------------------------------------------------
(* PullSettles.                                                            *)
(* pull_df_apply settles (rules.h:183-230): in any graph, where the rule    *)
(* applies it returns a node in the data frame of one of the arguments, the *)
(* rule no longer applies to that node, and no other node has changed.      *)
THEOREM PullSettlesAnywhere ==
  ASSUME NEW h, IsGraph(h), NEW n \in Ids(h), pull_df_applies(h, n),
         NEW res, res = pull_df_apply(h, n)
  PROVE  /\ res.ok
         /\ ~pull_df_applies(res.g, res.node)
         /\ Node(res.g, res.node).df \in ChildDfs(h, n)
         /\ ChildDfs(res.g, n) = ChildDfs(h, n)
         /\ \A m \in Ids(h) : Node(res.g, m) = Node(h, m)
<1>1. Node(h, n).df # 0 /\ ChildDfs(h, n) # {}
  BY DEF pull_df_applies
<1> DEFINE new == [Node(h, n) EXCEPT !.df = Pulled(h, n)]
<1>2. /\ new \in AnyNode /\ new.args = Args(h, n) /\ new.df = Pulled(h, n)
      /\ Pulled(h, n) \in ChildDfs(h, n)
  BY <1>1, PulledType
<1>3. res = Gives(AppendRaw(h, new), Size(h))
  <2>1. pull_df_apply(h, n) = Gives(AppendRaw(h, new), Size(h))
    BY <1>1, Zenon DEF pull_df_apply, Pulled
  <2> QED BY <2>1, Zenon
<1> HIDE DEF new, AnyNode
<1>4. res.ok /\ res.node = Size(h) /\ res.g = AppendRaw(h, new)
  BY <1>3 DEF Gives
<1>5. Node(res.g, res.node) = new /\ Extends(h, res.g)
  BY <1>2, <1>4, AppendedRaw
<1>6. \A c \in Range(Args(h, n)) : c \in Ids(h)
  <2>1. \A i \in DOMAIN Args(h, n) : Args(h, n)[i] \in Ids(h)
    BY DEF IsGraph
  <2> QED BY <2>1 DEF Range
<1>7. \A c \in Range(Args(h, n)) : Node(res.g, c) = Node(h, c)
  BY <1>5, <1>6 DEF Extends
<1>8. Args(res.g, n) = Args(h, n) /\ Args(res.g, res.node) = Args(h, n)
  BY <1>2, <1>5 DEF Extends, Args
<1>9. ChildDfs(res.g, n) = ChildDfs(h, n) /\ ChildDfs(res.g, res.node) = ChildDfs(h, n)
  BY <1>7, <1>8 DEF ChildDfs
<1> QED BY <1>2, <1>4, <1>5, <1>9 DEF pull_df_applies, Extends

LEMMA PullSettlesNext ==
  ASSUME PhaseInv, GraphInv, PullSettles, [Next]_vars
  PROVE  PullSettles'
<1>1. CASE Parse
  <2>1. phase' # "numbered"
    BY <1>1 DEF Parse
  <2> QED BY <2>1 DEF PullSettles
<1>2. CASE NumberDataFrames
  <2>1. last' = NoRule
    BY <1>2 DEF NumberDataFrames, PhaseInv
  <2>2. last'.rule # "pull_df"
    BY <2>1 DEF NoRule
  <2> QED BY <2>2 DEF PullSettles
<1>3. ASSUME NEW rule \in Rules, NEW n \in Ids(g), Rewrite(rule, n)
      PROVE  PullSettles'
  <2>1. CASE rule = "pull_df"
    <3>1. /\ phase = "numbered" /\ pull_df_applies(g, n)
          /\ g' = pull_df_apply(g, n).g
          /\ last' = [rule |-> rule, node |-> n, result |-> pull_df_apply(g, n).node, ok |-> pull_df_apply(g, n).ok]
      BY <1>3, <2>1 DEF Rewrite, MayTry, Applied
    <3>2. IsGraph(g)
      BY <3>1 DEF GraphInv, Acyclic
    <3> DEFINE res == pull_df_apply(g, n)
    <3>3. /\ res.ok /\ ~pull_df_applies(res.g, res.node)
          /\ Node(res.g, res.node).df \in ChildDfs(res.g, n)
      BY <3>1, <3>2, PullSettlesAnywhere
    <3> QED BY <3>1, <3>3 DEF PullSettles
  <2>2. CASE rule # "pull_df"
    BY <1>3, <2>2 DEF Rewrite, PullSettles
  <2> QED BY <2>1, <2>2
<1>4. CASE Compact
  BY <1>4 DEF Compact, PullSettles
<1>5. CASE UNCHANGED vars
  BY <1>5 DEF vars, PullSettles
<1> QED BY <1>1, <1>2, <1>3, <1>4, <1>5 DEF Next

(* pull_df settles wherever the planner applies it (rules.h:183-230,        *)
(* PullSettles): in every graph that parsing and any rewrites made, the     *)
(* node it returns is in the data frame of one of the arguments, and it     *)
(* does not apply to that node again.                                       *)
THEOREM RulesPullSettles == Spec /\ []ParsingOrder => []PullSettles
<1>1. Init => PhaseInv /\ GraphInv /\ PullSettles
  BY InvInit DEF Init, PullSettles
<1>2. PhaseInv /\ GraphInv /\ PullSettles /\ ParsingOrder /\ [Next]_vars
        => (PhaseInv /\ GraphInv /\ PullSettles)'
  BY InvNext, PullSettlesNext
<1> QED BY <1>1, <1>2, PTL DEF Spec

-----------------------------------------------------------------------------
(* What a recursive function over the arguments gives: its own equation.   *)
ArgValues(h, n, V) == [i \in DOMAIN Args(h, n) |-> V[Args(h, n)[i]]]

(* What is computed from the arguments: a value or a term. *)
Computed(what, h, n, val, values) ==
  IF what = "value" THEN ValueFrom(h, n, val, values) ELSE [Node(h, n) EXCEPT !.args = values]

ValuesUpTo(what, V, h, val, k, r) ==
  \A m \in Ids(h) : r[m] < k => V[m] = Computed(what, h, m, val, ArgValues(h, m, V))

Computable(what, h, val) ==
  \E V : V = [m \in Ids(h) |-> Computed(what, h, m, val, ArgValues(h, m, V))]

LEMMA ArgValuesAgree ==
  ASSUME NEW h, NEW n, NEW V, NEW W,
         \A i \in DOMAIN Args(h, n) : V[Args(h, n)[i]] = W[Args(h, n)[i]]
  PROVE  ArgValues(h, n, V) = ArgValues(h, n, W)
  BY DEF ArgValues

(* In a graph without a cycle, a function that takes its values at the     *)
(* arguments exists.                                                       *)
LEMMA ValuesExist ==
  ASSUME NEW h, NEW b \in Nat, NEW r, IsGraph(h), Ranks(h, b, r), NEW what, NEW val
  PROVE  Computable(what, h, val)
<1> DEFINE T == {k \in Nat : \E V : ValuesUpTo(what, V, h, val, k, r)}
<1>0. \A m \in Ids(h) : r[m] \in 0..b /\ \A i \in DOMAIN Args(h, m) :
         Args(h, m)[i] \in Ids(h) /\ r[Args(h, m)[i]] < r[m]
  BY DEF Ranks, IsGraph
<1>1. 0 \in T
  <2>1. \A m \in Ids(h) : ~(r[m] < 0)
    BY <1>0
  <2>2. \A V : ValuesUpTo(what, V, h, val, 0, r)
    BY <2>1 DEF ValuesUpTo
  <2> QED BY <2>2
<1>2. ASSUME NEW k \in Nat, k \in T PROVE k + 1 \in T
  <2>1. PICK V : ValuesUpTo(what, V, h, val, k, r)
    BY <1>2
  <2> DEFINE W == [m \in Ids(h) |-> Computed(what, h, m, val, ArgValues(h, m, V))]
  <2>2. \A m \in Ids(h) : r[m] < k => W[m] = V[m]
    BY <2>1 DEF ValuesUpTo
  <2>3. ASSUME NEW m \in Ids(h), r[m] < k + 1
        PROVE  W[m] = Computed(what, h, m, val, ArgValues(h, m, W))
    <3>1. ASSUME NEW i \in DOMAIN Args(h, m)
          PROVE  V[Args(h, m)[i]] = W[Args(h, m)[i]]
      <4>1. Args(h, m)[i] \in Ids(h) /\ r[Args(h, m)[i]] < k
        BY <1>0, <2>3
      <4> HIDE DEF W
      <4> QED BY <2>2, <4>1
    <3>2. ArgValues(h, m, V) = ArgValues(h, m, W)
      <4> HIDE DEF W
      <4> QED BY <3>1, ArgValuesAgree
    <3>3. W[m] = Computed(what, h, m, val, ArgValues(h, m, V))
      OBVIOUS
    <3> HIDE DEF W
    <3> QED BY <3>2, <3>3
  <2> HIDE DEF W
  <2>4. ValuesUpTo(what, W, h, val, k + 1, r)
    BY <2>3 DEF ValuesUpTo
  <2> QED BY <2>4
<1> HIDE DEF T
<1>3. b + 1 \in T
  BY <1>1, <1>2, SetInduction
<1>4. PICK V : ValuesUpTo(what, V, h, val, b + 1, r)
  BY <1>3 DEF T
<1> DEFINE W == [m \in Ids(h) |-> V[m]]
<1>5. ASSUME NEW m \in Ids(h)
      PROVE  V[m] = Computed(what, h, m, val, ArgValues(h, m, W))
  <2>1. r[m] < b + 1
    BY <1>0
  <2>2. V[m] = Computed(what, h, m, val, ArgValues(h, m, V))
    BY <1>4, <2>1 DEF ValuesUpTo
  <2>3. \A i \in DOMAIN Args(h, m) : V[Args(h, m)[i]] = W[Args(h, m)[i]]
    BY <1>0
  <2> HIDE DEF W
  <2>4. ArgValues(h, m, V) = ArgValues(h, m, W)
    BY <2>3, ArgValuesAgree
  <2> QED BY <2>2, <2>4
<1>6. W = [m \in Ids(h) |-> Computed(what, h, m, val, ArgValues(h, m, W))]
  BY <1>5
<1> HIDE DEF W
<1> QED BY <1>6, Zenon DEF Computable

(* The values of the arguments of a node. *)
ArgsIn(h, n, val) == [i \in DOMAIN Args(h, n) |-> ValueIn(h, Args(h, n)[i], val)]

(* A node is worth what its operation makes of what its arguments are      *)
(* worth.                                                                  *)
LEMMA ValueUnfolds ==
  ASSUME NEW h, Acyclic(h), NEW n \in Ids(h), NEW val
  PROVE  ValueIn(h, n, val) = ValueFrom(h, n, val, ArgsIn(h, n, val))
<1> DEFINE P(V) == V = [m \in Ids(h) |-> ValueFrom(h, m, val, [i \in DOMAIN Args(h, m) |-> V[Args(h, m)[i]]])]
           W == CHOOSE V : P(V)
<1>1. \A m \in Ids(h) : ValueIn(h, m, val) = W[m]
  BY Zenon DEF ValueIn
<1>b. PICK b \in Nat : \E r : IsGraph(h) /\ Ranks(h, b, r)
  BY DEF Acyclic
<1>2. PICK r : IsGraph(h) /\ Ranks(h, b, r)
  BY <1>b
<1>3. \E V : V = [m \in Ids(h) |-> Computed("value", h, m, val, ArgValues(h, m, V))]
  <2>1. PICK what : what = "value"
    OBVIOUS
  <2>2. Computable(what, h, val)
    BY <1>2, ValuesExist
  <2> QED BY <2>1, <2>2, Zenon DEF Computable
<1>4. \E V : P(V)
  BY <1>3, Zenon DEF ArgValues, Computed
<1> HIDE DEF P
<1>5. P(W)
  BY <1>4
<1> HIDE DEF W
<1>6. W[n] = ValueFrom(h, n, val, [i \in DOMAIN Args(h, n) |-> W[Args(h, n)[i]]])
  BY <1>5 DEF P
<1>7. [i \in DOMAIN Args(h, n) |-> W[Args(h, n)[i]]] = ArgsIn(h, n, val)
  <2>1. \A i \in DOMAIN Args(h, n) : Args(h, n)[i] \in Ids(h)
    BY <1>2 DEF IsGraph
  <2>2. \A i \in DOMAIN Args(h, n) : W[Args(h, n)[i]] = ValueIn(h, Args(h, n)[i], val)
    BY <1>1, <2>1
  <2> QED BY <2>2 DEF ArgsIn
<1> QED BY <1>1, <1>6, <1>7

(* The terms of the arguments of a node. *)
ArgTerms(h, n) == [i \in DOMAIN Args(h, n) |-> TermOf(h, Args(h, n)[i])]

(* A node's term is the node with the terms of its arguments. *)
LEMMA TermUnfolds ==
  ASSUME NEW h, Acyclic(h), NEW n \in Ids(h)
  PROVE  TermOf(h, n) = [Node(h, n) EXCEPT !.args = ArgTerms(h, n)]
<1> DEFINE P(T) == T = [m \in Ids(h) |->
                          [Node(h, m) EXCEPT !.args = [i \in DOMAIN Args(h, m) |-> T[Args(h, m)[i]]]]]
           W == CHOOSE T : P(T)
<1>1. \A m \in Ids(h) : TermOf(h, m) = W[m]
  BY Zenon DEF TermOf
<1>b. PICK b \in Nat : \E r : IsGraph(h) /\ Ranks(h, b, r)
  BY DEF Acyclic
<1>2. PICK r : IsGraph(h) /\ Ranks(h, b, r)
  BY <1>b
<1>3. \E T : T = [m \in Ids(h) |-> Computed("term", h, m, 0, ArgValues(h, m, T))]
  <2>1. PICK what, val : what = "term" /\ val = 0
    OBVIOUS
  <2>2. Computable(what, h, val)
    BY <1>2, ValuesExist
  <2> QED BY <2>1, <2>2, Zenon DEF Computable
<1>4. \E T : P(T)
  <2>1. PICK T : T = [m \in Ids(h) |-> Computed("term", h, m, 0, ArgValues(h, m, T))]
    BY <1>3
  <2>2. "term" # "value"
    OBVIOUS
  <2>3. P(T)
    BY <2>1, <2>2, Zenon DEF ArgValues, Computed
  <2> QED BY <2>3
<1> HIDE DEF P
<1>5. P(W)
  BY <1>4
<1> HIDE DEF W
<1>6. W[n] = [Node(h, n) EXCEPT !.args = [i \in DOMAIN Args(h, n) |-> W[Args(h, n)[i]]]]
  BY <1>5, Zenon DEF P
<1>7. [i \in DOMAIN Args(h, n) |-> W[Args(h, n)[i]]] = ArgTerms(h, n)
  <2>1. \A i \in DOMAIN Args(h, n) : Args(h, n)[i] \in Ids(h)
    BY <1>2 DEF IsGraph
  <2>2. \A i \in DOMAIN Args(h, n) : W[Args(h, n)[i]] = TermOf(h, Args(h, n)[i])
    BY <1>1, <2>1
  <2> QED BY <2>2 DEF ArgTerms
<1> QED BY <1>1, <1>6, <1>7

-----------------------------------------------------------------------------
(* A negation is a truth value, that of what is negated counts, and two    *)
(* negations cancel.                                                       *)
LEMMA NotFacts ==
  \A v : /\ TruthOf(Not3(v)) = Not3(v)
         /\ Not3(TruthOf(v)) = Not3(v)
         /\ Not3(Not3(v)) = TruthOf(v)
  BY NullAssumption, SMT DEF TruthOf, Not3

(* In each pair the second says the opposite of the first. *)
LEMMA ComparisonOpposites ==
  ASSUME NEW p \in ComparisonPairs, NEW s \in Seq(Value)
  PROVE  TruthOf(Logic(p[2], s)) = Not3(TruthOf(Logic(p[1], s)))
<1>1. /\ Operand(s, 1) # NULL => Operand(s, 1) = s[1] /\ s[1] \in Int
      /\ Operand(s, 2) # NULL => Operand(s, 2) = s[2] /\ s[2] \in Int
  BY DEF Operand, Value
<1>4. CASE p = <<"GT", "LTE">>
  <2>1. Logic("GT", s) = Known(s, s[1] > s[2]) /\ Logic("LTE", s) = Known(s, s[1] <= s[2])
    BY Zenon DEF Logic
  <2> QED BY <1>1, <1>4, <2>1, NullAssumption, SMT DEF Known, TruthOf, Not3
<1>5. CASE p = <<"LT", "GTE">>
  <2>1. Logic("LT", s) = Known(s, s[1] < s[2]) /\ Logic("GTE", s) = Known(s, s[1] >= s[2])
    BY Zenon DEF Logic
  <2> QED BY <1>1, <1>5, <2>1, NullAssumption, SMT DEF Known, TruthOf, Not3
<1>6. CASE p = <<"EQ", "NEQ">>
  <2>1. Logic("EQ", s) = Known(s, s[1] = s[2]) /\ Logic("NEQ", s) = Known(s, s[1] # s[2])
    BY Zenon DEF Logic
  <2> QED BY <1>1, <1>6, <2>1, NullAssumption, SMT DEF Known, TruthOf, Not3
<1> QED BY <1>4, <1>5, <1>6 DEF ComparisonPairs

(* Of two opposite operations one says NOT what the other says. *)
LEMMA LogicOpposites ==
  ASSUME NEW p \in LogicPairs \cup PredicatePairs, NEW s
  PROVE  Logic(p[2], s) = Not3(Logic(p[1], s))
<1>1. /\ Logic("NAND", s) = Not3(And3(s)) /\ Logic("AND", s) = And3(s)
      /\ Logic("NOR", s) = Not3(Or3(s)) /\ Logic("OR", s) = Or3(s)
      /\ Logic("XNOR", s) = Not3(Xor3(s)) /\ Logic("XOR", s) = Xor3(s)
  BY Zenon DEF Logic
<1>2. /\ Logic("NOT_IN", s) = Not3(Says("IN", s))
      /\ Logic("NOT_LIKE", s) = Not3(Says("LIKE", s))
      /\ Logic("NOT_ILIKE", s) = Not3(Says("ILIKE", s))
      /\ Logic("IS_NOT_NULL", s) = Not3(Says("IS_NULL", s))
  BY Zenon DEF Logic
<1>3. \A op \in {"IN", "LIKE", "ILIKE", "IS_NULL"} : Logic(op, s) = Says(op, s)
  BY Zenon DEF Logic
<1> QED BY <1>1, <1>2, <1>3, SMT DEF LogicPairs, PredicatePairs

(* getNegatedOperation negates (graph.h:44-96): whatever the operands, the *)
(* operation it returns says the opposite, NULL where the other says NULL. *)
THEOREM NegationMeans ==
  ASSUME NEW op, getNegatedOperation(op) # "INVALID", NEW s \in Seq(Value)
  PROVE  TruthOf(Logic(getNegatedOperation(op), s)) = Not3(TruthOf(Logic(op, s)))
<1>1. CASE op = "NOT"
  <2>1. getNegatedOperation(op) = "NOP" /\ Logic("NOP", s) = Operand(s, 1)
    BY <1>1, Unpaired, Zenon DEF getNegatedOperation, Logic
  <2>2. Logic(op, s) = Not3(Operand(s, 1))
    BY <1>1, Zenon DEF Logic
  <2> QED BY <2>1, <2>2, NotFacts
<1>2. CASE op = "NULL"
  <2>1. getNegatedOperation(op) = "NULL" /\ Logic("NULL", s) = NULL
    BY <1>2, Unpaired, Zenon DEF getNegatedOperation, Logic
  <2> QED BY <1>2, <2>1, SMT DEF TruthOf, Not3
<1>3. ASSUME NEW p \in Opposites, op \in {p[1], p[2]}
      PROVE  TruthOf(Logic(getNegatedOperation(op), s)) = Not3(TruthOf(Logic(op, s)))
  <2>1. TruthOf(Logic(p[2], s)) = Not3(TruthOf(Logic(p[1], s)))
    <3>1. CASE p \in ComparisonPairs
      BY <3>1, ComparisonOpposites
    <3>2. CASE p \notin ComparisonPairs
      BY <3>2, LogicOpposites, NotFacts DEF Opposites
    <3> QED BY <3>1, <3>2
  <2>2. TruthOf(Logic(p[1], s)) = Not3(TruthOf(Logic(p[2], s)))
    <3>1. \A v : TruthOf(v) = Not3(Not3(TruthOf(v)))
      BY NotFacts
    <3> QED BY <2>1, <3>1
  <2> QED BY <1>3, <2>1, <2>2, NegatedPair
<1>4. op \in {"NOT", "NULL"} \/ \E p \in Opposites : op \in {p[1], p[2]}
  <2>1. ASSUME op # "NOT", op # "NULL", ~\E p \in Opposites : op \in {p[1], p[2]}
        PROVE  getNegatedOperation(op) = "INVALID"
    BY <2>1, Zenon DEF getNegatedOperation
  <2> QED BY <2>1
<1> QED BY <1>1, <1>2, <1>3, <1>4

-----------------------------------------------------------------------------
(* A conjunction and a disjunction of values are exchanged by negating     *)
(* every one of them.                                                      *)
LEMMA Duality ==
  ASSUME NEW s, NEW t, DOMAIN s = DOMAIN t,
         \A i \in DOMAIN s : TruthOf(t[i]) = Not3(s[i])
  PROVE  Not3(Or3(t)) = And3(s) /\ Not3(And3(t)) = Or3(s)
<1>1. \A i \in DOMAIN s :
        /\ s[i] = 0 <=> t[i] \notin {0, NULL}
        /\ s[i] = NULL <=> t[i] = NULL
        /\ s[i] \notin {0, NULL} <=> t[i] = 0
  BY NullAssumption, SMT DEF TruthOf, Not3
<1> QED BY <1>1, NullAssumption, SMT DEF And3, Or3, Not3

(* DeMorganDual, on the operations that have one. *)
LEMMA DualFacts ==
  /\ DeMorganDual("AND") = "NOR" /\ DeMorganDual("OR") = "NAND"
  /\ DeMorganDual("NAND") = "OR" /\ DeMorganDual("NOR") = "AND"
  /\ \A op : DeMorganDual(op) # "INVALID" => op \in {"AND", "OR", "NAND", "NOR"}
  BY Zenon DEF DeMorganDual

(* De Morgan's rule keeps the meaning (rules.h:45-83): the dual operation  *)
(* on the negated arguments says what the operation said, for any number   *)
(* of arguments and whatever they are worth.                               *)
THEOREM DeMorganMeans ==
  ASSUME NEW op, DeMorganDual(op) # "INVALID",
         NEW s, NEW t, DOMAIN s = DOMAIN t,
         \A i \in DOMAIN s : TruthOf(t[i]) = Not3(TruthOf(s[i]))
  PROVE  Logic(DeMorganDual(op), t) = Logic(op, s)
<1>1. \A i \in DOMAIN s : TruthOf(t[i]) = Not3(s[i])
  BY NotFacts
<1>2. Not3(Or3(t)) = And3(s) /\ Not3(And3(t)) = Or3(s)
  BY <1>1, Duality
<1>3. Not3(And3(s)) = Or3(t) /\ Not3(Or3(s)) = And3(t)
  <2>1. \A i \in DOMAIN t : TruthOf(s[i]) = Not3(t[i])
    BY NotFacts
  <2> QED BY <2>1, Duality
<1>4. /\ Logic("AND", s) = And3(s) /\ Logic("NOR", t) = Not3(Or3(t))
      /\ Logic("OR", s) = Or3(s) /\ Logic("NAND", t) = Not3(And3(t))
      /\ Logic("NAND", s) = Not3(And3(s)) /\ Logic("OR", t) = Or3(t)
      /\ Logic("NOR", s) = Not3(Or3(s)) /\ Logic("AND", t) = And3(t)
  BY Zenon DEF Logic
<1> QED BY <1>2, <1>3, <1>4, DualFacts

-----------------------------------------------------------------------------
(* Some argument is among the given values. *)
Some(s, P) == \E i \in DOMAIN s : s[i] \in P

(* The arguments of a list with others put between them. *)
LEMMA Spliced ==
  ASSUME NEW V, NEW a \in Seq(V), NEW m \in Seq(V), NEW b \in Seq(V), NEW P
  PROVE  Some(a \o m \o b, P) <=> Some(a, P) \/ Some(m, P) \/ Some(b, P)
<1> DEFINE whole == a \o m \o b
<1>1. whole \in Seq(V) /\ Len(whole) = Len(a) + Len(m) + Len(b)
  OBVIOUS
<1>2. /\ \A i \in DOMAIN a : i \in DOMAIN whole /\ whole[i] = a[i]
      /\ \A i \in DOMAIN m : Len(a) + i \in DOMAIN whole /\ whole[Len(a) + i] = m[i]
      /\ \A i \in DOMAIN b : /\ Len(a) + Len(m) + i \in DOMAIN whole
                             /\ whole[Len(a) + Len(m) + i] = b[i]
  OBVIOUS
<1>3. ASSUME NEW i \in DOMAIN whole
      PROVE  \/ i \in DOMAIN a /\ whole[i] = a[i]
             \/ i - Len(a) \in DOMAIN m /\ whole[i] = m[i - Len(a)]
             \/ i - Len(a) - Len(m) \in DOMAIN b /\ whole[i] = b[i - Len(a) - Len(m)]
  BY <1>1
<1>4. ASSUME NEW i \in DOMAIN whole, whole[i] \in P
      PROVE  Some(a, P) \/ Some(m, P) \/ Some(b, P)
  BY <1>3, <1>4 DEF Some
<1> QED BY <1>2, <1>4 DEF Some

(* And3, Or3 and Xor3 in these terms. *)
Truthy == {v \in Value : v \notin {0, NULL}}

LEMMA InTerms ==
  ASSUME NEW s \in Seq(Value)
  PROVE  /\ And3(s) = IF Some(s, {0}) THEN 0 ELSE IF Some(s, {NULL}) THEN NULL ELSE 1
         /\ Or3(s) = IF Some(s, Truthy) THEN 1 ELSE IF Some(s, {NULL}) THEN NULL ELSE 0
         /\ Xor3(s) = IF Some(s, {NULL}) THEN NULL
                      ELSE Cardinality({i \in DOMAIN s : s[i] # 0}) % 2
<1>1. \A i \in DOMAIN s : s[i] \in Value
  OBVIOUS
<1>2. Some(s, Truthy) <=> \E i \in DOMAIN s : s[i] \notin {0, NULL}
  BY <1>1 DEF Some, Truthy
<1> QED BY <1>2 DEF Some, And3, Or3, Xor3

LEMMA SomeSingle == \A v, P : Some(<<v>>, P) <=> v \in P
  BY DEF Some
(* How many arguments of an exclusive or are not zero. *)
NonZero(s) == {i \in DOMAIN s : s[i] # 0}

LEMMA NonZeroFinite ==
  ASSUME NEW V, NEW s \in Seq(V)
  PROVE  IsFiniteSet(NonZero(s)) /\ Cardinality(NonZero(s)) \in Nat
<1>1. IsFiniteSet(1..Len(s))
  BY FS_Interval
<1>2. NonZero(s) \subseteq 1..Len(s)
  BY DEF NonZero
<1> QED BY <1>1, <1>2, FS_Subset, FS_CardinalityType

LEMMA NonZeroConcat ==
  ASSUME NEW V, NEW a \in Seq(V), NEW b \in Seq(V)
  PROVE  Cardinality(NonZero(a \o b)) = Cardinality(NonZero(a)) + Cardinality(NonZero(b))
<1> DEFINE moved == {i \in NonZero(a \o b) : i > Len(a)}
           f     == [i \in NonZero(b) |-> Len(a) + i]
<1>1. f \in Injection(NonZero(b), moved)
  <2>1. \A i \in NonZero(b) : Len(a) + i \in moved
    BY DEF NonZero
  <2>2. \A i, j \in NonZero(b) : Len(a) + i = Len(a) + j => i = j
    BY DEF NonZero
  <2> QED BY <2>1, <2>2 DEF Injection, IsInjective
<1>2. f \in Surjection(NonZero(b), moved)
  <2>1. \A i \in moved : i - Len(a) \in NonZero(b) /\ Len(a) + (i - Len(a)) = i
    BY DEF NonZero
  <2>2. \A i \in moved : \E j \in NonZero(b) : f[j] = i
    BY <2>1
  <2>3. f \in [NonZero(b) -> moved]
    BY <1>1 DEF Injection
  <2> QED BY <2>2, <2>3 DEF Surjection
<1>3. Cardinality(moved) = Cardinality(NonZero(b)) /\ IsFiniteSet(moved)
  <2>1. ExistsBijection(NonZero(b), moved)
    BY <1>1, <1>2 DEF ExistsBijection, Bijection
  <2> QED BY <2>1, NonZeroFinite, FS_Bijection
<1>4. NonZero(a \o b) = NonZero(a) \cup moved /\ NonZero(a) \cap moved = {}
  BY DEF NonZero
<1>5. Cardinality(NonZero(a) \cap moved) = 0
  BY <1>4, FS_EmptySet
<1>6. /\ IsFiniteSet(NonZero(a)) /\ Cardinality(NonZero(a)) \in Nat
      /\ Cardinality(NonZero(b)) \in Nat
  BY NonZeroFinite
<1> HIDE DEF moved
<1>7. Cardinality(NonZero(a) \cup moved)
        = Cardinality(NonZero(a)) + Cardinality(moved) - Cardinality(NonZero(a) \cap moved)
  BY <1>3, <1>6, FS_Union
<1> QED BY <1>3, <1>4, <1>5, <1>6, <1>7
(* Merging a nested operation into the arguments keeps the meaning: one    *)
(* argument that is a conjunction, a disjunction or an exclusive or stands *)
(* for its own arguments in their place.                                   *)
LEMMA MergedAnd ==
  ASSUME NEW a \in Seq(Value), NEW m \in Seq(Value), NEW b \in Seq(Value)
  PROVE  And3(a \o <<And3(m)>> \o b) = And3(a \o m \o b)
<1>1. And3(m) \in {0, 1, NULL}
  BY DEF And3
<1> DEFINE v == And3(m)
<1>2. <<v>> \in Seq(Value) /\ a \o <<v>> \o b \in Seq(Value) /\ a \o m \o b \in Seq(Value)
  BY <1>1 DEF Value
<1>3. \A P : /\ Some(a \o m \o b, P) <=> Some(a, P) \/ Some(m, P) \/ Some(b, P)
             /\ Some(a \o <<v>> \o b, P) <=> Some(a, P) \/ v \in P \/ Some(b, P)
  BY <1>2, Spliced, SomeSingle
<1>4. v = IF Some(m, {0}) THEN 0 ELSE IF Some(m, {NULL}) THEN NULL ELSE 1
  BY InTerms
<1>5. /\ And3(a \o <<v>> \o b) = IF Some(a \o <<v>> \o b, {0}) THEN 0
                                 ELSE IF Some(a \o <<v>> \o b, {NULL}) THEN NULL ELSE 1
      /\ And3(a \o m \o b) = IF Some(a \o m \o b, {0}) THEN 0
                             ELSE IF Some(a \o m \o b, {NULL}) THEN NULL ELSE 1
  BY <1>2, InTerms
<1> HIDE DEF v
<1>6. (v \in {0} <=> Some(m, {0})) /\ (v \in {NULL} <=> Some(m, {NULL}) /\ ~Some(m, {0}))
  BY <1>4, NullAssumption
<1>7. /\ Some(a \o <<v>> \o b, {0}) <=> Some(a \o m \o b, {0})
      /\ ~Some(a \o m \o b, {0}) =>
           (Some(a \o <<v>> \o b, {NULL}) <=> Some(a \o m \o b, {NULL}))
  BY <1>3, <1>6
<1>8. And3(a \o <<v>> \o b) = And3(a \o m \o b)
  BY <1>5, <1>7
<1> QED BY <1>8 DEF v

LEMMA MergedOr ==
  ASSUME NEW a \in Seq(Value), NEW m \in Seq(Value), NEW b \in Seq(Value)
  PROVE  Or3(a \o <<Or3(m)>> \o b) = Or3(a \o m \o b)
<1>1. Or3(m) \in {0, 1, NULL}
  BY DEF Or3
<1> DEFINE v == Or3(m)
<1>2. <<v>> \in Seq(Value) /\ a \o <<v>> \o b \in Seq(Value) /\ a \o m \o b \in Seq(Value)
  BY <1>1 DEF Value
<1>3. \A P : /\ Some(a \o m \o b, P) <=> Some(a, P) \/ Some(m, P) \/ Some(b, P)
             /\ Some(a \o <<v>> \o b, P) <=> Some(a, P) \/ v \in P \/ Some(b, P)
  BY <1>2, Spliced, SomeSingle
<1>4. v = IF Some(m, Truthy) THEN 1 ELSE IF Some(m, {NULL}) THEN NULL ELSE 0
  BY InTerms
<1>5. /\ Or3(a \o <<v>> \o b) = IF Some(a \o <<v>> \o b, Truthy) THEN 1
                                ELSE IF Some(a \o <<v>> \o b, {NULL}) THEN NULL ELSE 0
      /\ Or3(a \o m \o b) = IF Some(a \o m \o b, Truthy) THEN 1
                            ELSE IF Some(a \o m \o b, {NULL}) THEN NULL ELSE 0
  BY <1>2, InTerms
<1> HIDE DEF v
<1>6. (v \in Truthy <=> Some(m, Truthy)) /\ (v \in {NULL} <=> Some(m, {NULL}) /\ ~Some(m, Truthy))
  BY <1>4, NullAssumption DEF Truthy, Value
<1>7. /\ Some(a \o <<v>> \o b, Truthy) <=> Some(a \o m \o b, Truthy)
      /\ ~Some(a \o m \o b, Truthy) =>
           (Some(a \o <<v>> \o b, {NULL}) <=> Some(a \o m \o b, {NULL}))
  BY <1>3, <1>6
<1>8. Or3(a \o <<v>> \o b) = Or3(a \o m \o b)
  BY <1>5, <1>7
<1> QED BY <1>8 DEF v
LEMMA MergedXor ==
  ASSUME NEW a \in Seq(Value), NEW m \in Seq(Value), NEW b \in Seq(Value)
  PROVE  Xor3(a \o <<Xor3(m)>> \o b) = Xor3(a \o m \o b)
<1> DEFINE v == Xor3(m)
           C(s) == Cardinality(NonZero(s))
<1>1. /\ C(a) \in Nat /\ C(m) \in Nat /\ C(b) \in Nat
  BY NonZeroFinite
<1>2. v = IF Some(m, {NULL}) THEN NULL ELSE C(m) % 2
  BY InTerms DEF NonZero
<1>3. v \in {0, 1, NULL} /\ <<v>> \in Seq(Value)
  <2>1. C(m) % 2 \in {0, 1}
    BY <1>1
  <2>2. v \in {0, 1, NULL}
    BY <1>2, <2>1
  <2>3. v \in Value
    BY <2>2 DEF Value
  <2> QED BY <2>2, <2>3
<1>4. /\ a \o <<v>> \o b \in Seq(Value) /\ a \o m \o b \in Seq(Value)
      /\ a \o <<v>> \in Seq(Value) /\ a \o m \in Seq(Value)
  BY <1>3
<1>5. /\ Some(a \o m \o b, {NULL}) <=> Some(a, {NULL}) \/ Some(m, {NULL}) \/ Some(b, {NULL})
      /\ Some(a \o <<v>> \o b, {NULL}) <=> Some(a, {NULL}) \/ v = NULL \/ Some(b, {NULL})
  BY <1>3, Spliced, SomeSingle
<1>6. /\ Xor3(a \o <<v>> \o b) = IF Some(a \o <<v>> \o b, {NULL}) THEN NULL
                                 ELSE C(a \o <<v>> \o b) % 2
      /\ Xor3(a \o m \o b) = IF Some(a \o m \o b, {NULL}) THEN NULL ELSE C(a \o m \o b) % 2
  BY <1>4, InTerms DEF NonZero
<1>7. v = NULL <=> Some(m, {NULL})
  <2>1. C(m) % 2 # NULL
    BY <1>1, NullAssumption
  <2> QED BY <1>2, <2>1
<1>8. /\ C(a \o m \o b) = C(a) + C(m) + C(b)
      /\ C(a \o <<v>> \o b) = C(a) + C(<<v>>) + C(b)
  BY <1>3, <1>4, NonZeroConcat
<1>9. ASSUME v # NULL
      PROVE  C(<<v>>) = C(m) % 2
  <2>1. v \in {0, 1} /\ v = C(m) % 2
    BY <1>2, <1>3, <1>7, <1>9
  <2>2. CASE v = 0
    <3>1. NonZero(<<v>>) = {}
      BY <2>2 DEF NonZero
    <3> QED BY <2>1, <2>2, <3>1, FS_EmptySet
  <2>3. CASE v = 1
    <3>1. NonZero(<<v>>) = {1}
      BY <2>3 DEF NonZero
    <3> QED BY <2>1, <2>3, <3>1, FS_Singleton
  <2> QED BY <2>1, <2>2, <2>3
<1> HIDE DEF v, C
<1>10. ASSUME v # NULL
       PROVE  C(a \o <<v>> \o b) % 2 = C(a \o m \o b) % 2
  <2>1. \A x, y, z \in Nat : (x + (y % 2) + z) % 2 = (x + y + z) % 2
    OBVIOUS
  <2> QED BY <1>1, <1>8, <1>9, <1>10, <2>1
<1>11. Xor3(a \o <<v>> \o b) = Xor3(a \o m \o b)
  BY <1>5, <1>6, <1>7, <1>10
<1> QED BY <1>11 DEF v

(* MergedInto, on the operations it is defined for. *)
LEMMA MergedFacts ==
  /\ MergedInto("AND") = "AND" /\ MergedInto("NAND") = "AND"
  /\ MergedInto("OR") = "OR" /\ MergedInto("NOR") = "OR"
  /\ MergedInto("XOR") = "XOR" /\ MergedInto("XNOR") = "XOR"
  /\ \A op : MergedInto(op) # "INVALID" => op \in {"AND", "NAND", "OR", "NOR", "XOR", "XNOR"}
  BY Zenon DEF MergedInto

(* Merging keeps the meaning (rules.h:107-144): an argument whose operation *)
(* the rule merges stands for its own arguments, wherever it is among the   *)
(* others and however many they are.                                        *)
THEOREM MergeMeans ==
  ASSUME NEW op, MergedInto(op) # "INVALID",
         NEW a \in Seq(Value), NEW m \in Seq(Value), NEW b \in Seq(Value)
  PROVE  Logic(op, a \o <<Logic(MergedInto(op), m)>> \o b) = Logic(op, a \o m \o b)
<1>1. \A s : /\ Logic("AND", s) = And3(s) /\ Logic("NAND", s) = Not3(And3(s))
             /\ Logic("OR", s) = Or3(s) /\ Logic("NOR", s) = Not3(Or3(s))
             /\ Logic("XOR", s) = Xor3(s) /\ Logic("XNOR", s) = Not3(Xor3(s))
  BY Zenon DEF Logic
<1>2. CASE op \in {"AND", "NAND"}
  <2>1. Logic(MergedInto(op), m) = And3(m)
    BY <1>1, <1>2, MergedFacts
  <2> QED BY <1>1, <1>2, <2>1, MergedAnd
<1>3. CASE op \in {"OR", "NOR"}
  <2>1. Logic(MergedInto(op), m) = Or3(m)
    BY <1>1, <1>3, MergedFacts
  <2> QED BY <1>1, <1>3, <2>1, MergedOr
<1>4. CASE op \in {"XOR", "XNOR"}
  <2>1. Logic(MergedInto(op), m) = Xor3(m)
    BY <1>1, <1>4, MergedFacts
  <2> QED BY <1>1, <1>4, <2>1, MergedXor
<1> QED BY <1>2, <1>3, <1>4, MergedFacts

-----------------------------------------------------------------------------
(* Values of operations.                                                   *)
LEMMA LogicType ==
  ASSUME NEW op, NEW s \in Seq(Value)
  PROVE  Logic(op, s) \in Value
<1>1. \A v : TruthOf(v) \in {0, 1, NULL} /\ Not3(v) \in {0, 1, NULL}
  BY DEF TruthOf, Not3
<1>2. And3(s) \in {0, 1, NULL} /\ Or3(s) \in {0, 1, NULL}
  BY DEF And3, Or3
<1>3. Xor3(s) \in Value
  <2>1. Cardinality(NonZero(s)) \in Nat
    BY NonZeroFinite
  <2>2. Xor3(s) = NULL \/ Xor3(s) = Cardinality(NonZero(s)) % 2
    BY DEF Xor3, NonZero
  <2> QED BY <2>1, <2>2 DEF Value
<1>4. Operand(s, 1) \in Value
  BY DEF Operand, Value
<1>5. \A x : Known(s, x) \in {0, 1, NULL}
  BY Zenon DEF Known
<1>6. \A o : Says(o, s) \in {0, 1, NULL}
  BY <1>1 DEF Says
<1>7. \/ Logic(op, s) \in {0, 1, NULL}
      \/ Logic(op, s) = Xor3(s)
      \/ Logic(op, s) = Operand(s, 1)
  <2>1. CASE op \in {"NOP", "NOT", "TRUE", "FALSE"}
    BY <2>1, <1>1, Zenon DEF Logic
  <2>2. CASE op \in {"AND", "OR", "XOR", "NAND", "NOR", "XNOR"}
    BY <2>2, <1>1, <1>2, Zenon DEF Logic
  <2>3. CASE op \in {"EQ", "NEQ", "GT", "LT", "GTE", "LTE"}
    BY <2>3, <1>5, Zenon DEF Logic
  <2>4. CASE op \in {"NOT_LIKE", "NOT_ILIKE", "NOT_IN", "IS_NOT_NULL"}
    BY <2>4, <1>1, Zenon DEF Logic
  <2>5. CASE op \in {"LIKE", "ILIKE", "IN", "IS_NULL"}
    BY <2>5, <1>6, Zenon DEF Logic
  <2>6. CASE op \notin {"NOP", "NOT", "TRUE", "FALSE", "AND", "OR", "XOR", "NAND", "NOR", "XNOR",
                        "EQ", "NEQ", "GT", "LT", "GTE", "LTE", "NOT_LIKE", "NOT_ILIKE", "NOT_IN",
                        "IS_NOT_NULL", "LIKE", "ILIKE", "IN", "IS_NULL"}
    BY <2>6, Zenon DEF Logic
  <2> QED BY <2>1, <2>2, <2>3, <2>4, <2>5, <2>6
<1> QED BY <1>3, <1>4, <1>7 DEF Value

(* Arithmetic over all the arguments from the left. *)
Total(op, s) == Folded(Arith(op), s[1], Tail(s))

LEMMA ApplyIs ==
  ASSUME NEW op, NEW s
  PROVE  /\ op \notin Numeric => Apply(op, s) = Logic(op, s)
         /\ op \in Numeric /\ s # <<>> => Apply(op, s) = Total(op, s)
         /\ op \in Numeric /\ s = <<>> => Apply(op, s) = NULL
  BY Zenon DEF Apply, Total, Folded

(* A list that is not empty has a last. *)
LEMMA Shorter ==
  ASSUME NEW V, NEW s \in Seq(V), NEW k \in Nat, Len(s) = k + 1
  PROVE  \E u \in Seq(V), x \in V : s = Append(u, x) /\ Len(u) = k
<1> DEFINE u == [i \in 1..k |-> s[i]]
<1>1. u \in Seq(V) /\ Len(u) = k /\ \A i \in 1..k : u[i] = s[i]
  OBVIOUS
<1>2. s[k + 1] \in V
  OBVIOUS
<1> HIDE DEF u
<1>3. s = Append(u, s[k + 1])
  BY <1>1, <1>2
<1> QED BY <1>1, <1>2, <1>3

LEMMA Single ==
  ASSUME NEW V, NEW s \in Seq(V), Len(s) = 1
  PROVE  s[1] \in V /\ s = <<s[1]>>
<1>1. s[1] \in V
  OBVIOUS
<1>2. <<s[1]>> \in Seq(V) /\ Len(<<s[1]>>) = 1 /\ <<s[1]>>[1] = s[1]
  BY <1>1
<1>3. \A i \in 1..Len(s) : s[i] = <<s[1]>>[i]
  BY <1>2
<1>4. s = <<s[1]>>
  BY <1>2, <1>3, SeqEqual
<1> QED BY <1>1, <1>4

LEMMA TotalSingle ==
  ASSUME NEW op, NEW x PROVE Total(op, <<x>>) = x
<1>1. <<x>>[1] = x /\ Tail(<<x>>) = <<>>
  OBVIOUS
<1> QED BY <1>1, FoldedEmpty DEF Total

LEMMA TotalAppend ==
  ASSUME NEW op, NEW V, NEW s \in Seq(V), s # <<>>, NEW x \in V
  PROVE  Total(op, Append(s, x)) = Arith(op)[<<Total(op, s), x>>]
<1>1. Tail(s) \in Seq(V) /\ Append(s, x)[1] = s[1] /\ Tail(Append(s, x)) = Append(Tail(s), x)
  BY HeadTailProperties, HeadTailAppend
<1>2. PICK f : f = Arith(op)
  OBVIOUS
<1>3. PICK z : z = s[1]
  OBVIOUS
<1>5. PICK u \in Seq(V) : u = Tail(s)
  BY <1>1
<1>6. Folded(f, z, Append(u, x)) = f[<<Folded(f, z, u), x>>]
  BY FoldedAppend
<1>4. Folded(f, z, Append(Tail(s), x)) = f[<<Folded(f, z, Tail(s)), x>>]
  BY <1>5, <1>6
<1> QED BY <1>1, <1>2, <1>3, <1>4 DEF Total

(* Arithmetic: on values, and associative but for the difference and the   *)
(* quotient.                                                               *)
Pair(op, a, b) == Arith(op)[<<a, b>>]

LEMMA PairIs ==
  ASSUME NEW a \in Value, NEW b \in Value
  PROVE  /\ \A op : a = NULL \/ b = NULL => Pair(op, a, b) = NULL
         /\ a # NULL /\ b # NULL =>
              /\ a \in Int /\ b \in Int
              /\ Pair("ADD", a, b) = a + b
              /\ Pair("SUB", a, b) = a - b
              /\ Pair("MUL", a, b) = a * b
              /\ Pair("DIV", a, b) = Quotient(a, b)
              /\ Pair("MIN", a, b) = IF a < b THEN a ELSE b
              /\ Pair("MAX", a, b) = IF a > b THEN a ELSE b
<1>0. <<a, b>> \in Value \X Value /\ <<a, b>>[1] = a /\ <<a, b>>[2] = b
  OBVIOUS
<1>1. ASSUME NEW op, a = NULL \/ b = NULL PROVE Pair(op, a, b) = NULL
  BY <1>0, <1>1, Zenon DEF Pair, Arith
<1>2. ASSUME a # NULL, b # NULL
      PROVE  /\ Pair("ADD", a, b) = a + b
             /\ Pair("SUB", a, b) = a - b
             /\ Pair("MUL", a, b) = a * b
             /\ Pair("DIV", a, b) = Quotient(a, b)
             /\ Pair("MIN", a, b) = IF a < b THEN a ELSE b
             /\ Pair("MAX", a, b) = IF a > b THEN a ELSE b
  <2>1. Pair("ADD", a, b) = a + b
    BY <1>0, <1>2, Zenon DEF Pair, Arith
  <2>2. Pair("SUB", a, b) = a - b
    BY <1>0, <1>2, Zenon DEF Pair, Arith
  <2>3. Pair("MUL", a, b) = a * b
    BY <1>0, <1>2, Zenon DEF Pair, Arith
  <2>4. Pair("DIV", a, b) = Quotient(a, b)
    BY <1>0, <1>2, Zenon DEF Pair, Arith
  <2>5. Pair("MIN", a, b) = IF a < b THEN a ELSE b
    BY <1>0, <1>2, Zenon DEF Pair, Arith
  <2>6. Pair("MAX", a, b) = IF a > b THEN a ELSE b
    BY <1>0, <1>2, Zenon DEF Pair, Arith
  <2> QED BY <2>1, <2>2, <2>3, <2>4, <2>5, <2>6
<1>3. (a # NULL => a \in Int) /\ (b # NULL => b \in Int)
  BY DEF Value
<1> QED BY <1>1, <1>2, <1>3

LEMMA PairType ==
  ASSUME NEW op \in Numeric, NEW a \in Value, NEW b \in Value
  PROVE  Pair(op, a, b) \in Value
<1>1. CASE a = NULL \/ b = NULL
  BY <1>1, PairIs DEF Value
<1>2. CASE a # NULL /\ b # NULL
  <2>1. a \in Int /\ b \in Int
    BY <1>2, PairIs
  <2>2. CASE op = "DIV"
    <3>1. Pair(op, a, b) = Quotient(a, b)
      BY <1>2, <2>2, PairIs
    <3>2. \A x \in Int, y \in Nat \ {0} : x \div y \in Int
      OBVIOUS
    <3>3. b = 0 \/ b \in Nat \ {0} \/ -b \in Nat \ {0}
      BY <2>1
    <3>4. Quotient(a, b) \in Int \cup {NULL}
      BY <2>1, <3>2, <3>3 DEF Quotient
    <3> QED BY <3>1, <3>4 DEF Value
  <2>3. CASE op = "MUL"
    <3>1. Pair(op, a, b) = a * b
      BY <1>2, <2>3, PairIs
    <3> QED BY <2>1, <3>1 DEF Value
  <2>4. CASE op \in {"ADD", "SUB", "MIN", "MAX"}
    <3>1. Pair(op, a, b) \in {a + b, a - b, a, b}
      BY <1>2, <2>4, PairIs
    <3> QED BY <2>1, <3>1 DEF Value
  <2> QED BY <2>2, <2>3, <2>4 DEF Numeric
<1> QED BY <1>1, <1>2

Associative == {"ADD", "MUL", "MIN", "MAX"}

LEMMA PairAssociates ==
  ASSUME NEW op \in Associative, NEW a \in Value, NEW b \in Value, NEW c \in Value
  PROVE  Pair(op, Pair(op, a, b), c) = Pair(op, a, Pair(op, b, c))
<1>0. op \in Numeric /\ Pair(op, a, b) \in Value /\ Pair(op, b, c) \in Value
  BY PairType DEF Associative, Numeric
<1>1. CASE a = NULL \/ b = NULL \/ c = NULL
  <2>1. CASE a = NULL
    <3>1. Pair(op, a, b) = NULL /\ Pair(op, a, Pair(op, b, c)) = NULL
      BY <1>0, <2>1, PairIs
    <3> QED BY <1>0, <3>1, PairIs
  <2>2. CASE b = NULL
    <3>1. Pair(op, a, b) = NULL /\ Pair(op, b, c) = NULL
      BY <2>2, PairIs
    <3>2. NULL \in Value
      BY DEF Value
    <3>3. Pair(op, NULL, c) = NULL /\ Pair(op, a, NULL) = NULL
      BY <3>2, PairIs
    <3> QED BY <3>1, <3>3
  <2>3. CASE c = NULL
    <3>1. Pair(op, b, c) = NULL /\ Pair(op, Pair(op, a, b), c) = NULL
      BY <1>0, <2>3, PairIs
    <3> QED BY <1>0, <3>1, PairIs
  <2> QED BY <1>1, <2>1, <2>2, <2>3
<1>2. CASE a # NULL /\ b # NULL /\ c # NULL
  <2>1. a \in Int /\ b \in Int /\ c \in Int
    BY <1>2 DEF Value
  <2>2. \A x \in Int : x # NULL /\ x \in Value
    BY NullAssumption DEF Value
  <2>3. CASE op = "ADD"
    <3>1. Pair(op, a, b) = a + b /\ Pair(op, b, c) = b + c /\ a + b \in Int /\ b + c \in Int
      BY <1>2, <2>1, <2>3, PairIs
    <3>2. Pair(op, a + b, c) = (a + b) + c /\ Pair(op, a, b + c) = a + (b + c)
      BY <1>2, <2>2, <2>3, <3>1, PairIs
    <3> QED BY <2>1, <3>1, <3>2
  <2>4. CASE op = "MUL"
    <3>1. Pair(op, a, b) = a * b /\ Pair(op, b, c) = b * c /\ a * b \in Int /\ b * c \in Int
      BY <1>2, <2>1, <2>4, PairIs
    <3>2. Pair(op, a * b, c) = (a * b) * c /\ Pair(op, a, b * c) = a * (b * c)
      BY <1>2, <2>2, <2>4, <3>1, PairIs
    <3>3. (a * b) * c = a * (b * c)
      BY <2>1
    <3> QED BY <3>1, <3>2, <3>3
  <2>5. CASE op = "MIN"
    <3>1. \A x, y \in Int : Pair(op, x, y) = IF x < y THEN x ELSE y
      BY <2>2, <2>5, PairIs
    <3> QED BY <2>1, <3>1
  <2>6. CASE op = "MAX"
    <3>1. \A x, y \in Int : Pair(op, x, y) = IF x > y THEN x ELSE y
      BY <2>2, <2>6, PairIs
    <3> QED BY <2>1, <3>1
  <2> QED BY <2>3, <2>4, <2>5, <2>6 DEF Associative
<1> QED BY <1>1, <1>2

LEMMA TotalType ==
  ASSUME NEW op \in Numeric, NEW s \in Seq(Value), s # <<>>
  PROVE  Total(op, s) \in Value
<1> DEFINE T == {k \in Nat : \A t \in Seq(Value) : Len(t) = k + 1 => Total(op, t) \in Value}
<1>1. 0 \in T
  <2> SUFFICES ASSUME NEW t \in Seq(Value), Len(t) = 1 PROVE Total(op, t) \in Value
    OBVIOUS
  <2>1. t = <<t[1]>> /\ t[1] \in Value
    BY Single
  <2> QED BY <2>1, TotalSingle
<1>2. ASSUME NEW k \in Nat, k \in T PROVE k + 1 \in T
  <2> SUFFICES ASSUME NEW t \in Seq(Value), Len(t) = (k + 1) + 1 PROVE Total(op, t) \in Value
    OBVIOUS
  <2>0. PICK j \in Nat : j = k + 1
    OBVIOUS
  <2>1. PICK u \in Seq(Value), x \in Value : t = Append(u, x) /\ Len(u) = j
    BY <2>0, Shorter
  <2>2. u # <<>> /\ Total(op, u) \in Value
    BY <1>2, <2>0, <2>1
  <2>3. Total(op, t) = Pair(op, Total(op, u), x)
    BY <2>1, <2>2, TotalAppend DEF Pair
  <2> QED BY <2>2, <2>3, PairType
<1> HIDE DEF T
<1>3. Nat \subseteq T
  BY <1>1, <1>2, SetInduction
<1>4. Len(s) - 1 \in Nat /\ Len(s) = (Len(s) - 1) + 1
  OBVIOUS
<1> QED BY <1>3, <1>4 DEF T

LEMMA TotalConcat ==
  ASSUME NEW op \in Associative, NEW s \in Seq(Value), s # <<>>, NEW t \in Seq(Value), t # <<>>
  PROVE  Total(op, s \o t) = Pair(op, Total(op, s), Total(op, t))
<1> DEFINE T == {k \in Nat : \A u \in Seq(Value) :
                   Len(u) = k + 1 => Total(op, s \o u) = Pair(op, Total(op, s), Total(op, u))}
<1>0. op \in Numeric /\ Total(op, s) \in Value
  BY TotalType DEF Associative, Numeric
<1>1. 0 \in T
  <2> SUFFICES ASSUME NEW u \in Seq(Value), Len(u) = 1
               PROVE  Total(op, s \o u) = Pair(op, Total(op, s), Total(op, u))
    OBVIOUS
  <2>1. u = <<u[1]>> /\ u[1] \in Value
    BY Single
  <2>2. s \o u = Append(s, u[1])
    BY <2>1, AppendIsConcat
  <2>3. Total(op, s \o u) = Pair(op, Total(op, s), u[1])
    BY <2>1, <2>2, TotalAppend DEF Pair
  <2>4. Total(op, u) = u[1]
    BY <2>1, TotalSingle
  <2> QED BY <2>3, <2>4
<1>2. ASSUME NEW k \in Nat, k \in T PROVE k + 1 \in T
  <2> SUFFICES ASSUME NEW u \in Seq(Value), Len(u) = (k + 1) + 1
               PROVE  Total(op, s \o u) = Pair(op, Total(op, s), Total(op, u))
    OBVIOUS
  <2>0. PICK j \in Nat : j = k + 1
    OBVIOUS
  <2>1. PICK v \in Seq(Value), x \in Value : u = Append(v, x) /\ Len(v) = j
    BY <2>0, Shorter
  <2>2. v # <<>> /\ Total(op, v) \in Value
    BY <1>0, <2>0, <2>1, TotalType
  <2>3. Total(op, s \o v) = Pair(op, Total(op, s), Total(op, v))
    BY <1>2, <2>0, <2>1
  <2>4. s \o u = Append(s \o v, x) /\ s \o v \in Seq(Value) /\ s \o v # <<>>
    <3>1. s \o v \in Seq(Value) /\ s \o v # <<>> /\ <<x>> \in Seq(Value)
      OBVIOUS
    <3>2. s \o u = s \o (v \o <<x>>)
      BY <2>1, AppendIsConcat
    <3>3. s \o u = (s \o v) \o <<x>>
      BY <3>1, <3>2, ConcatAssociative
    <3>4. Append(s \o v, x) = (s \o v) \o <<x>>
      BY <3>1, AppendIsConcat
    <3> QED BY <3>1, <3>3, <3>4
  <2>5. Total(op, u) = Pair(op, Total(op, v), x)
    BY <2>1, <2>2, TotalAppend DEF Pair
  <2>7. PICK w \in Seq(Value) : w = s \o v
    BY <2>4
  <2>8. Total(op, Append(w, x)) = Arith(op)[<<Total(op, w), x>>]
    <3>1. w # <<>>
      BY <2>4, <2>7
    <3> HIDE <2>4, <2>7
    <3> QED BY <3>1, TotalAppend
  <2>6. Total(op, s \o u) = Pair(op, Total(op, s \o v), x)
    BY <2>4, <2>7, <2>8 DEF Pair
  <2> QED BY <1>0, <2>2, <2>3, <2>5, <2>6, PairAssociates
<1> HIDE DEF T
<1>3. Nat \subseteq T
  BY <1>1, <1>2, SetInduction
<1>4. Len(t) - 1 \in Nat /\ Len(t) = (Len(t) - 1) + 1
  OBVIOUS
<1> QED BY <1>3, <1>4 DEF T

LEMMA ApplyType ==
  ASSUME NEW op, NEW s \in Seq(Value)
  PROVE  Apply(op, s) \in Value
<1>1. NULL \in Value
  BY DEF Value
<1> QED BY <1>1, ApplyIs, LogicType, TotalType

(* One argument that is the total of others stands for them. *)
LEMMA MergedTotal ==
  ASSUME NEW op \in Associative, NEW a \in Seq(Value), NEW m \in Seq(Value), NEW b \in Seq(Value),
         m # <<>>
  PROVE  Total(op, a \o <<Total(op, m)>> \o b) = Total(op, a \o m \o b)
<1>0. op \in Numeric /\ Total(op, m) \in Value
  BY TotalType DEF Associative, Numeric
<1> DEFINE v == <<Total(op, m)>>
<1>1. v \in Seq(Value) /\ v # <<>> /\ Total(op, v) = Total(op, m)
  BY <1>0, TotalSingle
<1> HIDE DEF v
<1>2. a # <<>> => Total(op, a \o v) = Total(op, a \o m)
  BY <1>1, TotalConcat
<1>3. a = <<>> => Total(op, a \o v) = Total(op, a \o m)
  <2> SUFFICES ASSUME a = <<>> PROVE Total(op, a \o v) = Total(op, a \o m)
    OBVIOUS
  <2>1. a \o v = v /\ a \o m = m
    BY <1>1
  <2> QED BY <1>1, <2>1
<1>4. a \o v \in Seq(Value) /\ a \o m \in Seq(Value) /\ a \o v # <<>> /\ a \o m # <<>>
  BY <1>1
<1>5. CASE b = <<>>
  <2>1. a \o v \o b = a \o v /\ a \o m \o b = a \o m
    BY <1>4, <1>5
  <2> QED BY <1>2, <1>3, <2>1 DEF v
<1>6. CASE b # <<>>
  <2>1. Total(op, (a \o v) \o b) = Pair(op, Total(op, a \o v), Total(op, b))
    BY <1>4, <1>6, TotalConcat
  <2>2. Total(op, (a \o m) \o b) = Pair(op, Total(op, a \o m), Total(op, b))
    BY <1>4, <1>6, TotalConcat
  <2> QED BY <1>2, <1>3, <2>1, <2>2 DEF v
<1> QED BY <1>5, <1>6

-----------------------------------------------------------------------------
(* Values of nodes.                                                        *)
LEMMA ValueFromType ==
  ASSUME NEW h, IsGraph(h), NEW n \in Ids(h), NEW val \in Valuations(h), NEW s \in Seq(Value)
  PROVE  ValueFrom(h, n, val, s) \in Value
<1>1. CASE Node(h, n).op = "COLUMN"
  <2>1. ValueFrom(h, n, val, s) = val[n]
    BY <1>1, Zenon DEF ValueFrom
  <2>2. n \in ColumnNodes(h)
    BY <1>1 DEF ColumnNodes
  <2>3. val[n] \in Samples
    BY <2>2 DEF Valuations
  <2> QED BY <2>1, <2>3, SamplesAssumption
<1>2. CASE Node(h, n).op = "CONST"
  <2>1. ValueFrom(h, n, val, s) = ConstantIn(h, Node(h, n))
    BY <1>2, Zenon DEF ValueFrom
  <2>2. Sound(h, Node(h, n)) /\ h.consts \in [Types -> Seq(Int)]
    BY DEF IsGraph
  <2>3. h.consts[Node(h, n).type] \in Seq(Int)
    BY <1>2, <2>2 DEF Sound
  <2>4. Node(h, n).const + 1 \in 1..Len(h.consts[Node(h, n).type])
    BY <1>2, <2>2, <2>3 DEF Sound
  <2>5. ConstantIn(h, Node(h, n)) \in Int
    BY <2>3, <2>4 DEF ConstantIn
  <2> QED BY <2>1, <2>5 DEF Value
<1>3. CASE Node(h, n).op \notin {"COLUMN", "CONST"}
  <2>1. ValueFrom(h, n, val, s) = Apply(Node(h, n).op, s)
    BY <1>3, Zenon DEF ValueFrom
  <2> QED BY <2>1, ApplyType
<1> QED BY <1>1, <1>2, <1>3

LEMMA ArgsInType ==
  ASSUME NEW h, IsGraph(h), NEW n \in Ids(h), NEW val,
         \A i \in DOMAIN Args(h, n) : ValueIn(h, Args(h, n)[i], val) \in Value
  PROVE  ArgsIn(h, n, val) \in Seq(Value)
<1>1. Len(Args(h, n)) \in Nat /\ DOMAIN Args(h, n) = 1..Len(Args(h, n))
  BY NodeType
<1>2. ArgsIn(h, n, val) \in [1..Len(Args(h, n)) -> Value]
  BY <1>1 DEF ArgsIn
<1> QED BY <1>1, <1>2

LEMMA ValueType ==
  ASSUME NEW h, Acyclic(h), NEW val \in Valuations(h)
  PROVE  \A n \in Ids(h) : ValueIn(h, n, val) \in Value /\ ArgsIn(h, n, val) \in Seq(Value)
<1>b. PICK b \in Nat : \E r : IsGraph(h) /\ Ranks(h, b, r)
  BY DEF Acyclic
<1>1. PICK r : IsGraph(h) /\ Ranks(h, b, r)
  BY <1>b
<1> DEFINE T == {k \in Nat : \A n \in Ids(h) : r[n] < k => ValueIn(h, n, val) \in Value}
<1>2. \A n \in Ids(h) : r[n] \in 0..b /\ \A i \in DOMAIN Args(h, n) :
         Args(h, n)[i] \in Ids(h) /\ r[Args(h, n)[i]] < r[n]
  BY <1>1 DEF Ranks, IsGraph
<1>3. 0 \in T
  BY <1>2
<1>4. ASSUME NEW k \in Nat, k \in T PROVE k + 1 \in T
  <2> SUFFICES ASSUME NEW n \in Ids(h), r[n] < k + 1 PROVE ValueIn(h, n, val) \in Value
    OBVIOUS
  <2>1. \A i \in DOMAIN Args(h, n) : ValueIn(h, Args(h, n)[i], val) \in Value
    <3> SUFFICES ASSUME NEW i \in DOMAIN Args(h, n) PROVE ValueIn(h, Args(h, n)[i], val) \in Value
      OBVIOUS
    <3>1. Args(h, n)[i] \in Ids(h) /\ r[Args(h, n)[i]] < k
      BY <1>2
    <3> QED BY <1>4, <3>1
  <2>2. ArgsIn(h, n, val) \in Seq(Value)
    BY <1>1, <2>1, ArgsInType
  <2>3. ValueIn(h, n, val) = ValueFrom(h, n, val, ArgsIn(h, n, val))
    BY ValueUnfolds
  <2> HIDE DEF T
  <2> QED BY <1>1, <2>2, <2>3, ValueFromType
<1>5. \A n \in Ids(h) : ValueIn(h, n, val) \in Value
  <2> HIDE DEF T
  <2>1. b + 1 \in T
    BY <1>3, <1>4, SetInduction
  <2>2. \A n \in Ids(h) : r[n] < b + 1
    BY <1>2
  <2> QED BY <2>1, <2>2 DEF T
<1>6. \A n \in Ids(h) : ArgsIn(h, n, val) \in Seq(Value)
  BY <1>1, <1>2, <1>5, ArgsInType
<1> QED BY <1>5, <1>6

(* The value of an operation. *)
LEMMA OperationValue ==
  ASSUME NEW h, Acyclic(h), NEW n \in Ids(h), NEW val, Node(h, n).op \notin {"COLUMN", "CONST"}
  PROVE  ValueIn(h, n, val) = Apply(Node(h, n).op, ArgsIn(h, n, val))
<1>1. ValueIn(h, n, val) = ValueFrom(h, n, val, ArgsIn(h, n, val))
  BY ValueUnfolds
<1> QED BY <1>1, Zenon DEF ValueFrom

LEMMA LogicValue ==
  ASSUME NEW h, Acyclic(h), NEW n \in Ids(h), NEW val,
         Node(h, n).op \notin Numeric \cup {"CONST", "COLUMN"}
  PROVE  ValueIn(h, n, val) = Logic(Node(h, n).op, ArgsIn(h, n, val))
  BY OperationValue, ApplyIs

LEMMA SameArgs ==
  ASSUME NEW h, NEW m, NEW n, NEW val, Args(h, m) = Args(h, n)
  PROVE  ArgsIn(h, m, val) = ArgsIn(h, n, val)
  BY DEF ArgsIn

(* A node with the negated operation has the opposite value. *)
LEMMA NegatedValue ==
  ASSUME NEW h, Acyclic(h), NEW val \in Valuations(h), NEW m \in Ids(h), NEW n \in Ids(h),
         Node(h, n) = Negation(Node(h, m)), getNegatedOperation(Node(h, m).op) # "INVALID"
  PROVE  TruthOf(ValueIn(h, n, val)) = Not3(TruthOf(ValueIn(h, m, val)))
<1> DEFINE op == Node(h, m).op
<1>1. IsGraph(h)
  BY DEF Acyclic
<1>2. Node(h, n).op = getNegatedOperation(op) /\ Args(h, n) = Args(h, m)
  BY <1>1, NodeType, NegationType DEF Args
<1>3. /\ getNegatedOperation(op) \notin Numeric \cup {"CONST", "COLUMN"}
      /\ op \notin Numeric \cup {"CONST", "COLUMN"}
  BY NegatedKind
<1>4. ArgsIn(h, n, val) = ArgsIn(h, m, val) /\ ArgsIn(h, m, val) \in Seq(Value)
  BY <1>2, SameArgs, ValueType
<1>5. ValueIn(h, n, val) = Logic(getNegatedOperation(op), ArgsIn(h, m, val))
  BY <1>2, <1>3, <1>4, LogicValue
<1>6. ValueIn(h, m, val) = Logic(op, ArgsIn(h, m, val))
  BY <1>3, LogicValue
<1> QED BY <1>4, <1>5, <1>6, NegationMeans

-----------------------------------------------------------------------------
(* De Morgan's rule.                                                       *)
LEMMA DeMorganKeeps ==
  ASSUME NEW h, Acyclic(h), NEW n \in Ids(h), NEW res, res = demorgan_apply(h, n), res.ok,
         NEW val \in Valuations(res.g)
  PROVE  ValueIn(res.g, n, val) = ValueIn(res.g, res.node, val)
<1> DEFINE t == res.g
           args == Args(h, n)
<1>1. IsGraph(h)
  BY DEF Acyclic
<1>2. DeMorganDual(Node(h, n).op) # "INVALID"
  BY Zenon DEF demorgan_apply, Threw
<1>3. PICK good, all, more :
        /\ Pieces(h, n, good, all, more)
        /\ \/ /\ good = Len(args) /\ all = good
              /\ Unnegatable(h, args) = {}
              /\ res = Gives(AppendAll(h, more), Size(h))
           \/ res = Threw(AppendAll(h, more))
  BY <1>1, <1>2, DeMorganPieces
<1>4. /\ good = Len(args) /\ all = good /\ Unnegatable(h, args) = {}
      /\ t = AppendAll(h, more) /\ res.node = Size(h)
  BY <1>3 DEF Threw, Gives
<1>5. /\ args \in Seq(Int) /\ Len(args) \in Nat /\ DOMAIN args = 1..Len(args)
      /\ \A i \in 1..Len(args) : args[i] \in Ids(h)
  BY <1>1, NodeType
<1>6. /\ more \in Seq(AnyNode) /\ Len(more) = 1 + Len(args)
      /\ more[1].op = DeMorganDual(Node(h, n).op)
      /\ more[1].args \in Seq(Int) /\ Len(more[1].args) = Len(args)
      /\ \A i \in 1..Len(args) : more[1].args[i] = Size(h) + i
      /\ \A i \in 1..Len(args) : more[i + 1] = Negation(Node(h, args[i]))
  BY <1>3, <1>4 DEF Pieces
<1>7. RuleGood(h, res)
  BY DeMorganGood
<1>8. Acyclic(t) /\ Extends(h, t) /\ res.node \in Ids(t)
  BY <1>7 DEF RuleGood
<1> HIDE DEF t, args
<1>9. /\ Size(h) \in Nat
      /\ \A i \in 1..Len(more) : Size(h) + i - 1 \in Ids(t) /\ Node(t, Size(h) + i - 1) = more[i]
  <2> HIDE DEF AnyNode
  <2> QED BY <1>1, <1>4, <1>6, AppendedNodes
<1>10. Node(t, Size(h)) = more[1]
  <2>1. 1 \in 1..Len(more) /\ Size(h) + 1 - 1 = Size(h)
    BY <1>5, <1>6, <1>9
  <2>2. Node(t, Size(h) + 1 - 1) = more[1]
    BY <1>9, <2>1
  <2> QED BY <2>1, <2>2
<1>11. ASSUME NEW i \in 1..Len(args)
       PROVE  Size(h) + i \in Ids(t) /\ Node(t, Size(h) + i) = Negation(Node(t, args[i])) /\ args[i] \in Ids(t)
  <2>1. i + 1 \in 1..Len(more) /\ Size(h) + (i + 1) - 1 = Size(h) + i
    BY <1>5, <1>6, <1>9
  <2>2. Size(h) + (i + 1) - 1 \in Ids(t) /\ Node(t, Size(h) + (i + 1) - 1) = more[i + 1]
    BY <1>9, <2>1
  <2> QED BY <1>5, <1>6, <1>8, <2>1, <2>2 DEF Extends
<1>12. ASSUME NEW i \in 1..Len(args)
       PROVE  TruthOf(ValueIn(t, Size(h) + i, val)) = Not3(TruthOf(ValueIn(t, args[i], val)))
  <2>1. getNegatedOperation(Node(h, args[i]).op) # "INVALID"
    BY <1>4, <1>5 DEF Unnegatable
  <2>2. Node(t, args[i]) = Node(h, args[i])
    BY <1>5, <1>8 DEF Extends
  <2>3. val \in Valuations(t)
    BY DEF t
  <2> QED BY <1>8, <1>11, <2>1, <2>2, <2>3, NegatedValue
<1>13. Args(t, n) = args /\ Node(t, n).op = Node(h, n).op /\ n \in Ids(t)
  BY <1>8 DEF Extends, Args, args
<1>14. /\ DOMAIN Args(t, Size(h)) = 1..Len(args)
       /\ \A i \in 1..Len(args) : Args(t, Size(h))[i] = Size(h) + i
  BY <1>5, <1>6, <1>10 DEF Args
<1> DEFINE old == ArgsIn(t, n, val)
           new == ArgsIn(t, Size(h), val)
<1>15. DOMAIN old = DOMAIN new /\ \A i \in DOMAIN old : TruthOf(new[i]) = Not3(TruthOf(old[i]))
  BY <1>5, <1>12, <1>13, <1>14 DEF ArgsIn
<1> DEFINE op == Node(h, n).op
<1>16. op \notin Numeric \cup {"CONST", "COLUMN"} /\ DeMorganDual(op) \notin Numeric \cup {"CONST", "COLUMN"}
  <2>1. op \in {"AND", "OR", "NAND", "NOR"}
    BY <1>2, DualFacts
  <2> QED BY <1>2, <2>1, DualKind DEF Numeric
<1>17. ValueIn(t, n, val) = Logic(op, old)
  BY <1>8, <1>13, <1>16, LogicValue
<1>18. ValueIn(t, Size(h), val) = Logic(DeMorganDual(op), new)
  BY <1>4, <1>6, <1>8, <1>10, <1>16, LogicValue
<1> HIDE DEF old, new, op
<1>19. Logic(DeMorganDual(op), new) = Logic(op, old)
  BY <1>2, <1>15, DeMorganMeans DEF op
<1> QED BY <1>4, <1>17, <1>18, <1>19 DEF t

-----------------------------------------------------------------------------
(* The rule for NOT and NOP.                                               *)
LEMMA OneAppended ==
  ASSUME NEW h, IsGraph(h), NEW node \in AnyNode
  PROVE  Node(AppendRaw(h, node), Size(h)) = node
<1> DEFINE more == <<node>>
           t == AppendRaw(h, node)
<1>1. t = AppendAll(h, more) /\ more \in Seq(AnyNode) /\ Len(more) = 1 /\ more[1] = node
  BY AppendRawIsAll
<1> HIDE DEF more, t, AnyNode
<1>2. Size(h) \in Nat /\ \A i \in 1..Len(more) : Node(t, Size(h) + i - 1) = more[i]
  BY <1>1, AppendedNodes
<1>3. 1 \in 1..Len(more) /\ Size(h) + 1 - 1 = Size(h)
  BY <1>1, <1>2
<1>4. Node(t, Size(h) + 1 - 1) = more[1]
  BY <1>2, <1>3
<1> QED BY <1>1, <1>3, <1>4 DEF t

(* What replaces NOT or NOP has the truth value of what it replaces. *)
LEMMA ReduceKeeps ==
  ASSUME NEW h, Acyclic(h), NEW n \in Ids(h), NEW res, res = reduce_not_nop_apply(h, n), res.ok,
         NEW val \in Valuations(res.g)
  PROVE  TruthOf(ValueIn(res.g, n, val)) = TruthOf(ValueIn(res.g, res.node, val))
<1> DEFINE t == res.g
           child == Args(h, n)[1]
           neg == Negation(Node(h, child))
<1>1. IsGraph(h)
  BY DEF Acyclic
<1>2. /\ Node(h, n).op \in {"NOT", "NOP"} /\ Len(Args(h, n)) = 1
      /\ \/ /\ Node(h, n).op = "NOP" /\ res = Gives(h, child)
         \/ /\ Node(h, n).op = "NOT" /\ res = Gives(AppendRaw(h, neg), Size(h))
            /\ getNegatedOperation(Node(h, child).op) # "INVALID"
  BY Zenon DEF reduce_not_nop_apply, Threw
<1>3. /\ Args(h, n) \in Seq(Int) /\ DOMAIN Args(h, n) = 1..1 /\ child \in Ids(h)
      /\ Node(h, child) \in AnyNode
  <2>1. Args(h, n) \in Seq(Int) /\ \A i \in DOMAIN Args(h, n) : Args(h, n)[i] \in Ids(h)
    BY <1>1, NodeType
  <2>2. child \in Ids(h)
    BY <1>2, <2>1
  <2> QED BY <1>1, <1>2, <2>1, <2>2, NodeType
<1>4. Acyclic(t) /\ Extends(h, t) /\ res.node \in Ids(t)
  BY ReduceGood DEF RuleGood
<1>5. Args(t, n) = Args(h, n) /\ Node(t, n) = Node(h, n) /\ n \in Ids(t) /\ child \in Ids(t) /\ Node(t, child) = Node(h, child)
  BY <1>3, <1>4 DEF Extends, Args
<1> DEFINE s == ArgsIn(t, n, val)
<1>6. Operand(s, 1) = ValueIn(t, child, val)
  <2>1. 1 \in DOMAIN s /\ s[1] = ValueIn(t, child, val)
    BY <1>3, <1>5 DEF ArgsIn
  <2> HIDE DEF s
  <2> QED BY <2>1 DEF Operand
<1>7. ValueIn(t, n, val) = Logic(Node(h, n).op, s)
  <2>1. Node(h, n).op \notin Numeric \cup {"CONST", "COLUMN"}
    BY <1>2 DEF Numeric
  <2> QED BY <1>4, <1>5, <2>1, LogicValue
<1>8. CASE Node(h, n).op = "NOP"
  <2>1. Logic("NOP", s) = Operand(s, 1)
    BY Zenon DEF Logic
  <2>2. res.node = child
    BY <1>2, <1>8 DEF Gives
  <2> QED BY <1>6, <1>7, <1>8, <2>1, <2>2
<1>9. CASE Node(h, n).op = "NOT"
  <2>1. Logic("NOT", s) = Not3(Operand(s, 1))
    BY Zenon DEF Logic
  <2>2. res.node = Size(h) /\ t = AppendRaw(h, neg) /\ getNegatedOperation(Node(h, child).op) # "INVALID"
    BY <1>2, <1>9 DEF Gives
  <2>3. neg \in AnyNode
    BY <1>3, NegationType
  <2>4. Node(t, res.node) = Negation(Node(t, child))
    <3> HIDE DEF neg
    <3>1. Node(AppendRaw(h, neg), Size(h)) = neg
      BY <1>1, <2>3, OneAppended
    <3> QED BY <1>5, <2>2, <3>1 DEF neg
  <2>5. TruthOf(ValueIn(t, res.node, val)) = Not3(TruthOf(ValueIn(t, child, val)))
    BY <1>4, <1>5, <2>2, <2>4, NegatedValue
  <2> QED BY <1>6, <1>7, <1>9, <2>1, <2>5, NotFacts
<1> QED BY <1>2, <1>8, <1>9

-----------------------------------------------------------------------------
(* Merging arguments.                                                      *)
(* One argument that is worth what others give is worth as much as they.   *)
MergesInto(top, op) ==
  \/ top \in Associative /\ op = top
  \/ MergedInto(top) # "INVALID" /\ op = MergedInto(top)

LEMMA MergesIntoKinds ==
  ASSUME NEW top, NEW op, MergesInto(top, op), op \notin Associative
  PROVE  /\ top \notin Numeric \cup {"CONST", "COLUMN"} /\ op \notin Numeric \cup {"CONST", "COLUMN"}
         /\ MergedInto(top) # "INVALID" /\ op = MergedInto(top)
<1>1. MergedInto(top) # "INVALID" /\ op = MergedInto(top)
  BY DEF MergesInto
<1>2. top \in {"AND", "NAND", "OR", "NOR", "XOR", "XNOR"}
  BY <1>1, MergedFacts
<1>3. op \in {"AND", "OR", "XOR"}
  BY <1>1, <1>2, MergedFacts
<1> QED BY <1>1, <1>2, <1>3 DEF Numeric

(* Where one of the values is an operation that merges, its own values may *)
(* stand in its place.                                                     *)
LEMMA ApplyMerges ==
  ASSUME NEW top, NEW op, MergesInto(top, op),
         NEW a \in Seq(Value), NEW m \in Seq(Value), NEW b \in Seq(Value),
         op \in Numeric => m # <<>>
  PROVE  Apply(top, a \o <<Apply(op, m)>> \o b) = Apply(top, a \o m \o b)
<1>1. CASE op \in Associative
  <2>1. op \in Numeric /\ top = op
    <3>1. op \in Numeric
      BY <1>1 DEF Associative, Numeric
    <3>2. MergedInto(top) # op \/ MergedInto(top) = "INVALID"
      BY <1>1, Zenon DEF MergedInto, Associative
    <3> QED BY <3>1, <3>2 DEF MergesInto
  <2>2. m # <<>> /\ Apply(op, m) = Total(op, m) /\ Total(op, m) \in Value
    BY <2>1, ApplyIs, TotalType
  <2> DEFINE v == <<Total(op, m)>>
  <2>3. v \in Seq(Value) /\ v # <<>>
    BY <2>2
  <2> HIDE DEF v
  <2>4. a \o v \o b # <<>> /\ a \o m \o b # <<>>
    BY <2>2, <2>3
  <2>5. Apply(op, a \o v \o b) = Total(op, a \o v \o b) /\ Apply(op, a \o m \o b) = Total(op, a \o m \o b)
    BY <2>1, <2>4, ApplyIs
  <2>6. Total(op, a \o v \o b) = Total(op, a \o m \o b)
    BY <1>1, <2>2, MergedTotal DEF v
  <2> QED BY <2>1, <2>2, <2>5, <2>6 DEF v
<1>2. CASE op \notin Associative
  <2>1. top \notin Numeric /\ op \notin Numeric /\ MergedInto(top) # "INVALID" /\ op = MergedInto(top)
    BY <1>2, MergesIntoKinds
  <2>2. \A s : Apply(top, s) = Logic(top, s) /\ Apply(op, s) = Logic(op, s)
    BY <2>1, ApplyIs
  <2>3. Logic(top, a \o <<Logic(op, m)>> \o b) = Logic(top, a \o m \o b)
    BY <2>1, MergeMeans
  <2> QED BY <2>2, <2>3
<1> QED BY <1>1, <1>2

(* What comes after the first k. *)
Rest(s, k) == [i \in 1..Len(s) - k |-> s[k + i]]

LEMMA RestIs ==
  ASSUME NEW V, NEW s \in Seq(V), NEW k \in 1..Len(s)
  PROVE  /\ Rest(s, k) \in Seq(V) /\ Rest(s, k - 1) \in Seq(V)
         /\ Rest(s, k - 1) = <<s[k]>> \o Rest(s, k)
         /\ Rest(s, 0) = s /\ Rest(s, Len(s)) = <<>>
<1>0. Len(s) \in Nat /\ k \in Nat
  OBVIOUS
<1>1. ASSUME NEW j \in 0..Len(s)
      PROVE  /\ Rest(s, j) \in Seq(V) /\ Len(Rest(s, j)) = Len(s) - j
             /\ \A i \in 1..Len(s) - j : Rest(s, j)[i] = s[j + i]
  <2>1. Rest(s, j) = [i \in 1..Len(s) - j |-> s[j + i]] /\ Len(s) - j \in Nat
    BY <1>0 DEF Rest
  <2>2. \A i \in 1..Len(s) - j : s[j + i] \in V
    BY <1>0
  <2> QED BY <2>1, <2>2
<1>2. Rest(s, 0) = s
  <2>1. Len(Rest(s, 0)) = Len(s) /\ Rest(s, 0) \in Seq(V) /\ \A i \in 1..Len(s) : Rest(s, 0)[i] = s[i]
    BY <1>0, <1>1
  <2> QED BY <2>1, SeqEqual
<1>3. Rest(s, Len(s)) = <<>>
  BY <1>0, <1>1
<1>4. Rest(s, k - 1) = <<s[k]>> \o Rest(s, k)
  <2>1. k \in 0..Len(s) /\ k - 1 \in 0..Len(s) /\ s[k] \in V
    BY <1>0
  <2> DEFINE t == <<s[k]>> \o Rest(s, k)
  <2>2. <<s[k]>> \in Seq(V) /\ Rest(s, k) \in Seq(V) /\ Len(<<s[k]>>) = 1 /\ <<s[k]>>[1] = s[k]
    BY <1>1, <2>1
  <2>3. /\ t \in Seq(V) /\ Len(t) = Len(<<s[k]>>) + Len(Rest(s, k))
        /\ \A i \in 1..Len(<<s[k]>>) + Len(Rest(s, k)) :
             t[i] = IF i <= Len(<<s[k]>>) THEN <<s[k]>>[i] ELSE Rest(s, k)[i - Len(<<s[k]>>)]
    BY <2>2, ConcatProperties
  <2> HIDE DEF t
  <2>4. Len(t) = Len(s) - (k - 1)
    <3>1. Len(Rest(s, k)) = Len(s) - k
      BY <1>1, <2>1
    <3>2. Len(t) = 1 + Len(Rest(s, k))
      BY <2>2, <2>3
    <3> QED BY <1>0, <3>1, <3>2
  <2>5. ASSUME NEW i \in 1..Len(s) - (k - 1)
        PROVE  t[i] = s[(k - 1) + i]
    <3>1. CASE i = 1
      BY <1>0, <2>2, <2>3, <2>4, <3>1
    <3>2. CASE i # 1
      <4>1. i - 1 \in 1..Len(s) - k /\ k + (i - 1) = (k - 1) + i
        BY <1>0, <3>2
      <4>2. t[i] = Rest(s, k)[i - 1]
        BY <1>0, <2>2, <2>3, <2>4, <3>2
      <4>3. Rest(s, k)[i - 1] = s[k + (i - 1)]
        BY <1>1, <2>1, <4>1
      <4> QED BY <4>1, <4>2, <4>3
    <3> QED BY <3>1, <3>2
  <2>6. /\ Rest(s, k - 1) \in Seq(V) /\ Len(Rest(s, k - 1)) = Len(t)
        /\ \A i \in 1..Len(t) : Rest(s, k - 1)[i] = t[i]
    <3>1. PICK j \in 0..Len(s) : j = k - 1
      BY <2>1
    <3>2. /\ Rest(s, j) \in Seq(V) /\ Len(Rest(s, j)) = Len(s) - j
          /\ \A i \in 1..Len(s) - j : Rest(s, j)[i] = s[j + i]
      BY <1>1
    <3> QED BY <2>4, <2>5, <3>1, <3>2
  <2>7. Rest(s, k - 1) = t
    BY <2>3, <2>6, SeqEqual
  <2> QED BY <2>7 DEF t
<1> QED BY <1>0, <1>1, <1>2, <1>3, <1>4

(* The provers find their way better with a name for this. *)
IsList(s, V) == s \in Seq(V)

Associates(x, y, z) == (x \o y) \o z = x \o (y \o z)

LEMMA ListsAssociate ==
  ASSUME NEW V, NEW x, IsList(x, V), NEW y, IsList(y, V), NEW z, IsList(z, V)
  PROVE  Associates(x, y, z)
  BY ConcatAssociative DEF IsList, Associates

(* Each list joined to those before stands for the value it gives. *)
Stands(op, slices, vals) ==
  \A i \in 1..Len(vals) :
    \/ slices[i] = <<vals[i]>>
    \/ vals[i] = Apply(op, slices[i]) /\ (op \in Numeric => slices[i] # <<>>)

(* The same with every value replaced by the slice that stands for it. *)
LEMMA ApplyFlattens ==
  ASSUME NEW top, NEW op, MergesInto(top, op), NEW vals \in Seq(Value),
         NEW slices \in Seq(Seq(Value)), Len(slices) = Len(vals), Stands(op, slices, vals)
  PROVE  Apply(top, FlattenSeq(slices)) = Apply(top, vals)
<1>1. CASE slices = <<>>
  <2>1. vals = <<>> /\ FlattenSeq(slices) = <<>>
    BY <1>1, FlattenNothing
  <2> QED BY <2>1
<1>2. CASE slices # <<>>
  <2>0. Len(vals) \in Nat /\ Len(vals) >= 1
    BY <1>2
  <2>1. PICK f : Joined(f, slices, Value)
    BY <1>2, FlattenIs
  <2>2. /\ FlattenSeq(slices) = f[Len(vals)] /\ f[1] = slices[1]
        /\ \A i \in 1..Len(vals) : f[i] \in Seq(Value) /\ slices[i] \in Seq(Value)
        /\ \A i \in 1..Len(vals) : i # 1 => f[i] = f[i - 1] \o slices[i]
    BY <2>1 DEF Joined
  <2> DEFINE T == {k \in Nat : k + 1 \in 1..Len(vals) =>
                     Apply(top, f[k + 1] \o Rest(vals, k + 1)) = Apply(top, vals)}
  <2>3. ASSUME NEW k \in 1..Len(vals), NEW a \in Seq(Value), NEW b \in Seq(Value)
        PROVE  Apply(top, a \o slices[k] \o b) = Apply(top, a \o <<vals[k]>> \o b)
    <3>1. CASE slices[k] = <<vals[k]>>
      BY <3>1
    <3>2. CASE vals[k] = Apply(op, slices[k]) /\ (op \in Numeric => slices[k] # <<>>)
      <4>1. slices[k] \in Seq(Value)
        BY <2>2
      <4>2. Apply(top, a \o <<Apply(op, slices[k])>> \o b) = Apply(top, a \o slices[k] \o b)
        BY <3>2, <4>1, ApplyMerges
      <4> QED BY <3>2, <4>2
    <3> QED BY <3>1, <3>2 DEF Stands
  <2>4. 0 \in T
    <3>1. 1 \in 1..Len(vals)
      BY <2>0
    <3>2. Rest(vals, 1) \in Seq(Value) /\ Rest(vals, 1 - 1) = <<vals[1]>> \o Rest(vals, 1) /\ Rest(vals, 0) = vals
      BY <3>1, RestIs
    <3>3. Apply(top, <<>> \o slices[1] \o Rest(vals, 1)) = Apply(top, <<>> \o <<vals[1]>> \o Rest(vals, 1))
      <4>1. <<>> \in Seq(Value)
        OBVIOUS
      <4> QED BY <2>3, <3>1, <3>2, <4>1
    <3>4. <<>> \o slices[1] = slices[1] /\ <<>> \o <<vals[1]>> = <<vals[1]>>
      <4>1. slices[1] \in Seq(Value) /\ <<vals[1]>> \in Seq(Value)
        BY <2>2, <3>1
      <4> QED BY <4>1, ConcatEmptySeq
    <3>5. 1 - 1 = 0 /\ 0 + 1 = 1
      OBVIOUS
    <3>6. Apply(top, f[1] \o Rest(vals, 1)) = Apply(top, vals)
      BY <2>2, <3>2, <3>3, <3>4, <3>5
    <3> QED BY <3>5, <3>6
  <2>5. ASSUME NEW k \in Nat, k \in T PROVE k + 1 \in T
    <3> SUFFICES ASSUME (k + 1) + 1 \in 1..Len(vals)
                 PROVE  Apply(top, f[(k + 1) + 1] \o Rest(vals, (k + 1) + 1)) = Apply(top, vals)
      OBVIOUS
    <3>1. PICK i \in 1..Len(vals) : i = (k + 1) + 1
      OBVIOUS
    <3>2. PICK j \in 1..Len(vals) : j = k + 1
      BY <2>0
    <3>3. j = i - 1 /\ i # 1
      BY <3>1, <3>2
    <3>4. Apply(top, f[j] \o Rest(vals, j)) = Apply(top, vals)
      BY <2>5, <3>2
    <3>5. Rest(vals, i) \in Seq(Value) /\ Rest(vals, j) = <<vals[i]>> \o Rest(vals, i)
      BY <3>3, RestIs
    <3>6. f[j] \in Seq(Value) /\ f[i] = f[j] \o slices[i] /\ vals[i] \in Value
      <4>1. f[i] = f[i - 1] \o slices[i]
        BY <2>2, <3>3
      <4>2. f[j] \in Seq(Value)
        BY <2>2
      <4>3. vals[i] \in Value
        OBVIOUS
      <4> QED BY <3>3, <4>1, <4>2, <4>3
    <3>7. Apply(top, f[j] \o slices[i] \o Rest(vals, i)) = Apply(top, f[j] \o <<vals[i]>> \o Rest(vals, i))
      BY <2>3, <3>5, <3>6
    <3>8. (f[j] \o <<vals[i]>>) \o Rest(vals, i) = f[j] \o (<<vals[i]>> \o Rest(vals, i))
      <4>1. PICK x \in Seq(Value) : x = f[j]
        BY <3>6
      <4>5. <<vals[i]>> \in Seq(Value)
        BY <3>6
      <4>2. PICK y \in Seq(Value) : y = <<vals[i]>>
        BY <4>5
      <4>3. PICK z \in Seq(Value) : z = Rest(vals, i)
        BY <3>5
      <4>4. (x \o y) \o z = x \o (y \o z)
        <5>1. IsList(x, Value) /\ IsList(y, Value) /\ IsList(z, Value)
          BY DEF IsList
        <5>2. Associates(x, y, z)
          BY ONLY <5>1, ListsAssociate
        <5> QED BY <5>2, Zenon DEF Associates
      <4> QED BY <4>1, <4>2, <4>3, <4>4
    <3> QED BY <3>1, <3>4, <3>5, <3>6, <3>7, <3>8
  <2> HIDE DEF T
  <2>6. Nat \subseteq T
    BY <2>4, <2>5, SetInduction
  <2>7. PICK k \in Nat : k + 1 = Len(vals)
    <3>1. Len(vals) - 1 \in Nat /\ (Len(vals) - 1) + 1 = Len(vals)
      BY <2>0
    <3> QED BY <3>1
  <2>8. k + 1 \in 1..Len(vals)
    BY <2>0, <2>7
  <2>9. Apply(top, f[Len(vals)] \o Rest(vals, Len(vals))) = Apply(top, vals)
    BY <2>6, <2>7, <2>8 DEF T
  <2>10. Rest(vals, Len(vals)) = <<>> /\ f[Len(vals)] \in Seq(Value)
    <3>1. Len(vals) \in 1..Len(vals)
      BY <2>0
    <3> QED BY <2>2, <3>1, RestIs
  <2>11. f[Len(vals)] \o <<>> = f[Len(vals)]
    BY <2>10, ConcatEmptySeq
  <2> QED BY <2>2, <2>9, <2>10, <2>11
<1> QED BY <1>1, <1>2

(* Mapping the elements of the joined lists, or of each. *)
Mapped(v, s) == [i \in DOMAIN s |-> v[s[i]]]
MappedAll(v, s) == [i \in DOMAIN s |-> Mapped(v, s[i])]

Maps(v, V, W) == v \in [V -> W]

MappedOf(t, v, s, W) ==
  /\ t \in Seq(W) /\ Len(t) = Len(s)
  /\ \A i \in 1..Len(s) : t[i] = v[s[i]]

LEMMA MappedType ==
  ASSUME NEW V, NEW W, NEW v, Maps(v, V, W), NEW s \in Seq(V)
  PROVE  MappedOf(Mapped(v, s), v, s, W)
<1>1. Len(s) \in Nat /\ DOMAIN s = 1..Len(s) /\ \A i \in 1..Len(s) : s[i] \in V
  OBVIOUS
<1>2. Mapped(v, s) = [i \in 1..Len(s) |-> v[s[i]]]
  BY <1>1 DEF Mapped
<1>3. \A i \in 1..Len(s) : v[s[i]] \in W
  BY <1>1 DEF Maps
<1> QED BY <1>1, <1>2, <1>3 DEF MappedOf

(* Two lists, one after the other. *)
Concatenated(u, s, t, V) ==
  /\ u \in Seq(V) /\ Len(u) = Len(s) + Len(t) /\ Len(s) \in Nat /\ Len(t) \in Nat
  /\ \A i \in 1..Len(s) + Len(t) : u[i] = IF i <= Len(s) THEN s[i] ELSE t[i - Len(s)]

LEMMA ConcatFacts ==
  ASSUME NEW V, NEW s \in Seq(V), NEW t \in Seq(V)
  PROVE  Concatenated(s \o t, s, t, V)
<1>1. Len(s) \in Nat /\ Len(t) \in Nat
  OBVIOUS
<1> QED BY <1>1, ConcatProperties, Zenon DEF Concatenated

LEMMA MappedConcat ==
  ASSUME NEW V, NEW W, NEW v, Maps(v, V, W), NEW s \in Seq(V), NEW t \in Seq(V)
  PROVE  Mapped(v, s \o t) = Mapped(v, s) \o Mapped(v, t)
<1>0. Len(s) \in Nat /\ Len(t) \in Nat
  OBVIOUS
<1>1. PICK u : u = s \o t
  OBVIOUS
<1>2. /\ u \in Seq(V) /\ Len(u) = Len(s) + Len(t)
      /\ \A i \in 1..Len(s) + Len(t) : u[i] = IF i <= Len(s) THEN s[i] ELSE t[i - Len(s)]
  <2>1. Concatenated(u, s, t, V)
    BY <1>1, ConcatFacts
  <2> QED BY <2>1 DEF Concatenated
<1>3. PICK l : l = Mapped(v, u)
  OBVIOUS
<1>4. PICK x : x = Mapped(v, s)
  OBVIOUS
<1>5. PICK y : y = Mapped(v, t)
  OBVIOUS
<1>6. l \in Seq(W) /\ Len(l) = Len(u) /\ \A i \in 1..Len(u) : l[i] = v[u[i]]
  <2>1. MappedOf(l, v, u, W)
    BY <1>2, <1>3, MappedType
  <2> QED BY <2>1 DEF MappedOf
<1>7. x \in Seq(W) /\ Len(x) = Len(s) /\ \A i \in 1..Len(s) : x[i] = v[s[i]]
  <2>1. MappedOf(x, v, s, W)
    BY <1>4, MappedType
  <2> QED BY <2>1 DEF MappedOf
<1>8. y \in Seq(W) /\ Len(y) = Len(t) /\ \A i \in 1..Len(t) : y[i] = v[t[i]]
  <2>1. MappedOf(y, v, t, W)
    BY <1>5, MappedType
  <2> QED BY <2>1 DEF MappedOf
<1>9. PICK r : r = x \o y
  OBVIOUS
<1>10. /\ r \in Seq(W) /\ Len(r) = Len(s) + Len(t)
       /\ \A i \in 1..Len(s) + Len(t) : r[i] = IF i <= Len(s) THEN x[i] ELSE y[i - Len(s)]
  <2>1. Concatenated(r, x, y, W)
    BY <1>7, <1>8, <1>9, ConcatFacts
  <2> QED BY <1>7, <1>8, <2>1 DEF Concatenated
<1>11. ASSUME NEW i \in 1..Len(s) + Len(t) PROVE l[i] = r[i]
  <2>1. l[i] = v[u[i]]
    BY <1>2, <1>6
  <2>2. CASE i <= Len(s)
    <3>1. i \in 1..Len(s)
      BY <1>0, <2>2
    <3>2. u[i] = s[i] /\ r[i] = x[i] /\ x[i] = v[s[i]]
      BY <1>2, <1>7, <1>10, <2>2, <3>1
    <3> QED BY <2>1, <3>2
  <2>3. CASE ~(i <= Len(s))
    <3>3. i - Len(s) \in 1..Len(t)
      BY <1>0, <2>3
    <3>1. PICK k \in 1..Len(t) : k = i - Len(s)
      BY <3>3
    <3>2. u[i] = t[k] /\ r[i] = y[k] /\ y[k] = v[t[k]]
      BY <1>2, <1>8, <1>10, <2>3, <3>1
    <3> QED BY <2>1, <3>2
  <2> QED BY <2>2, <2>3
<1>12. l = r
  BY <1>2, <1>6, <1>9, <1>10, <1>11, SeqEqual
<1> QED BY <1>1, <1>3, <1>4, <1>5, <1>9, <1>12

LEMMA MappedLists ==
  ASSUME NEW V, NEW W, NEW v, Maps(v, V, W), NEW s, IsList(s, V), NEW t, IsList(t, V)
  PROVE  Mapped(v, s \o t) = Mapped(v, s) \o Mapped(v, t)
  BY MappedConcat DEF IsList

(* Joining and then mapping is mapping and then joining. *)
LEMMA FlattenMaps ==
  ASSUME NEW V, NEW W, NEW v, Maps(v, V, W), NEW s \in Seq(Seq(V))
  PROVE  /\ MappedAll(v, s) \in Seq(Seq(W)) /\ Len(MappedAll(v, s)) = Len(s)
         /\ \A i \in 1..Len(s) : MappedAll(v, s)[i] = Mapped(v, s[i])
         /\ FlattenSeq(MappedAll(v, s)) = Mapped(v, FlattenSeq(s))
<1> DEFINE t == MappedAll(v, s)
<1>1. Len(s) \in Nat /\ DOMAIN s = 1..Len(s) /\ \A i \in 1..Len(s) : s[i] \in Seq(V)
  OBVIOUS
<1>2. t \in Seq(Seq(W)) /\ Len(t) = Len(s) /\ \A i \in 1..Len(s) : t[i] = Mapped(v, s[i])
  <2>1. t = [i \in 1..Len(s) |-> Mapped(v, s[i])]
    BY <1>1 DEF MappedAll
  <2>2. \A i \in 1..Len(s) : Mapped(v, s[i]) \in Seq(W)
    <3> SUFFICES ASSUME NEW i \in 1..Len(s) PROVE Mapped(v, s[i]) \in Seq(W)
      OBVIOUS
    <3>1. s[i] \in Seq(V)
      BY <1>1
    <3>2. MappedOf(Mapped(v, s[i]), v, s[i], W)
      BY <3>1, MappedType
    <3> QED BY <3>2 DEF MappedOf
  <2> HIDE DEF t
  <2> QED BY <1>1, <2>1, <2>2
<1> HIDE DEF t
<1>3. CASE s = <<>>
  <2>1. t = <<>> /\ FlattenSeq(s) = <<>> /\ FlattenSeq(t) = <<>>
    BY <1>2, <1>3, FlattenNothing
  <2>2. Mapped(v, <<>>) = <<>>
    <3>1. <<>> \in Seq(V) /\ Len(<<>>) = 0
      OBVIOUS
    <3>2. Mapped(v, <<>>) \in Seq(W) /\ Len(Mapped(v, <<>>)) = 0
      <4>1. MappedOf(Mapped(v, <<>>), v, <<>>, W)
        BY <3>1, MappedType
      <4> QED BY <3>1, <4>1 DEF MappedOf
    <3> QED BY <3>2
  <2> QED BY <1>2, <2>1, <2>2 DEF t
<1>4. CASE s # <<>>
  <2>0. Len(s) >= 1 /\ t # <<>>
    BY <1>1, <1>2, <1>4
  <2>1. PICK f : Joined(f, s, V)
    BY <1>4, FlattenIs
  <2>2. PICK p : Joined(p, t, W)
    BY <1>2, <2>0, FlattenIs
  <2> DEFINE T == {k \in Nat : k + 1 \in 1..Len(s) => p[k + 1] = Mapped(v, f[k + 1])}
  <2>3. 0 \in T
    <3>1. 1 \in 1..Len(s) /\ 0 + 1 = 1
      BY <1>1, <2>0
    <3>2. p[1] = t[1] /\ f[1] = s[1] /\ t[1] = Mapped(v, s[1])
      BY <1>2, <2>1, <2>2, <3>1 DEF Joined
    <3> QED BY <3>1, <3>2
  <2>4. ASSUME NEW k \in Nat, k \in T PROVE k + 1 \in T
    <3> SUFFICES ASSUME (k + 1) + 1 \in 1..Len(s) PROVE p[(k + 1) + 1] = Mapped(v, f[(k + 1) + 1])
      OBVIOUS
    <3>1. PICK i \in 1..Len(s) : i = (k + 1) + 1
      OBVIOUS
    <3>2. PICK j \in 1..Len(s) : j = k + 1
      BY <1>1
    <3>3. j = i - 1 /\ i # 1
      BY <3>1, <3>2
    <3>4. p[j] = Mapped(v, f[j])
      BY <2>4, <3>2
    <3>5. p[i] = p[j] \o t[i] /\ t[i] = Mapped(v, s[i])
      BY <1>2, <2>2, <3>3 DEF Joined
    <3>6. f[i] = f[j] \o s[i] /\ f[j] \in Seq(V) /\ s[i] \in Seq(V)
      BY <2>1, <3>3 DEF Joined
    <3>7. Mapped(v, f[j] \o s[i]) = Mapped(v, f[j]) \o Mapped(v, s[i])
      <4>1. PICK x \in Seq(V) : x = f[j]
        BY <3>6
      <4>2. PICK y \in Seq(V) : y = s[i]
        BY <3>6
      <4>3. Mapped(v, x \o y) = Mapped(v, x) \o Mapped(v, y)
        <5>1. IsList(x, V) /\ IsList(y, V) /\ Maps(v, V, W)
          BY DEF IsList
        <5> QED BY ONLY <5>1, MappedLists
      <4> QED BY <4>1, <4>2, <4>3
    <3> QED BY <3>1, <3>4, <3>5, <3>6, <3>7
  <2> HIDE DEF T
  <2>5. Nat \subseteq T
    BY <2>3, <2>4, SetInduction
  <2>6. PICK k \in Nat : k + 1 = Len(s)
    <3>1. Len(s) - 1 \in Nat /\ (Len(s) - 1) + 1 = Len(s)
      BY <1>1, <2>0
    <3> QED BY <3>1
  <2>7. p[Len(s)] = Mapped(v, f[Len(s)])
    <3>1. k + 1 \in 1..Len(s)
      BY <1>1, <2>0, <2>6
    <3> QED BY <2>5, <2>6, <3>1 DEF T
  <2>8. FlattenSeq(s) = f[Len(s)] /\ FlattenSeq(t) = p[Len(s)]
    BY <1>2, <2>1, <2>2 DEF Joined
  <2> QED BY <1>2, <2>7, <2>8 DEF t
<1> QED BY <1>3, <1>4

-----------------------------------------------------------------------------
LEMMA MergesIntoOperations ==
  ASSUME NEW top, NEW op, MergesInto(top, op)
  PROVE  /\ top \notin {"CONST", "COLUMN"} /\ op \notin {"CONST", "COLUMN"}
         /\ top \in Numeric => op = top
<1>1. CASE op \in Associative
  <2>1. op \notin {"CONST", "COLUMN", "AND", "OR", "XOR", "INVALID"}
    BY <1>1 DEF Associative
  <2>2. MergedInto(top) \in {"AND", "OR", "XOR", "INVALID"}
    BY Zenon DEF MergedInto
  <2>3. top = op
    BY <2>1, <2>2 DEF MergesInto
  <2> QED BY <2>1, <2>3
<1>2. CASE op \notin Associative
  BY <1>2, MergesIntoKinds
<1> QED BY <1>1, <1>2

(* The values that the arguments of a node have, as a function of nodes. *)
NodeValues(h, t, val) == [m \in Ids(h) |-> ValueIn(t, m, val)]

(* What the values of a slice stand for: the value of the argument. *)
SliceIs(m, x, op) == m = <<x>> \/ (x = Apply(op, m) /\ (op \in Numeric => m # <<>>))

LEMMA SliceStands ==
  ASSUME NEW h, IsGraph(h), NEW t, Acyclic(t), Extends(h, t), NEW val \in Valuations(t),
         NEW op, op \notin {"CONST", "COLUMN"}, NEW c \in Ids(h), NEW s,
         s = IF Node(h, c).op = op THEN Args(h, c) ELSE <<c>>
  PROVE  SliceIs(Mapped(NodeValues(h, t, val), s), ValueIn(t, c, val), op)
<1> DEFINE v == NodeValues(h, t, val)
           m == Mapped(v, s)
<1>0. c \in Ids(t) /\ Node(t, c) = Node(h, c) /\ Args(t, c) = Args(h, c)
  BY DEF Extends, Args
<1>1. CASE Node(h, c).op = op
  <2>1. s = Args(h, c) /\ \A i \in DOMAIN Args(h, c) : Args(h, c)[i] \in Ids(h)
    BY <1>1 DEF IsGraph
  <2>2. m = ArgsIn(t, c, val)
    BY <1>0, <2>1 DEF Mapped, NodeValues, ArgsIn
  <2>3. ValueIn(t, c, val) = Apply(op, ArgsIn(t, c, val))
    BY <1>0, <1>1, OperationValue
  <2>4. op \in Numeric => m # <<>>
    <3> SUFFICES ASSUME op \in Numeric PROVE m # <<>>
      OBVIOUS
    <3>1. Sound(h, Node(h, c))
      BY DEF IsGraph
    <3>2. Args(h, c) # <<>> /\ Args(h, c) \in Seq(Int)
      BY <1>1, <3>1, NodeType DEF Sound, Args
    <3>3. 1 \in DOMAIN Args(h, c)
      BY <3>2
    <3>4. 1 \in DOMAIN m
      BY <2>1, <3>3 DEF Mapped
    <3> HIDE DEF m
    <3> QED BY <3>4
  <2> QED BY <2>2, <2>3, <2>4 DEF SliceIs
<1>2. CASE Node(h, c).op # op
  <2>1. s = <<c>> /\ DOMAIN s = 1..1 /\ s[1] = c
    BY <1>2
  <2>2. m = [i \in 1..1 |-> v[s[i]]]
    BY <2>1 DEF Mapped
  <2>3. v[c] = ValueIn(t, c, val)
    BY DEF NodeValues
  <2> HIDE DEF v
  <2>4. m = [i \in 1..1 |-> ValueIn(t, c, val)]
    BY <2>1, <2>2, <2>3
  <2>5. <<ValueIn(t, c, val)>> = [i \in 1..1 |-> ValueIn(t, c, val)]
    OBVIOUS
  <2>6. Mapped(v, s) = <<ValueIn(t, c, val)>>
    BY <2>4, <2>5
  <2> QED BY <2>6, Zenon DEF v, SliceIs
<1> QED BY <1>1, <1>2

(* A node is worth what its clone with merged arguments is worth. *)
LEMMA MergeKeeps ==
  ASSUME NEW h, Acyclic(h), NEW n \in Ids(h), NEW op, MergesInto(Node(h, n).op, op),
         NEW res, res = MergedClone(h, n, op), NEW val \in Valuations(res.g)
  PROVE  ValueIn(res.g, n, val) = ValueIn(res.g, res.node, val)
<1> DEFINE top  == Node(h, n).op
           args == Args(h, n)
           new  == Merged(h, n, op)
           t    == AppendRaw(h, new)
           s    == Slices(h, args, op)
           v    == NodeValues(h, t, val)
           w    == MappedAll(v, s)
           vals == ArgsIn(t, n, val)
<1>0. IsGraph(h)
  BY DEF Acyclic
<1>1. top \notin {"CONST", "COLUMN"} /\ op \notin {"CONST", "COLUMN"} /\ (top \in Numeric => op = top)
  BY MergesIntoOperations
<1>2. /\ new \in AnyNode /\ new.op = top /\ new.args = Flattened(h, args, op)
      /\ res = Gives(t, Size(h))
  BY <1>0, <1>1, MergedType
<1>3. Acyclic(t) /\ Extends(h, t) /\ Size(h) \in Ids(t)
  <2>1. RuleGood(h, res)
    BY <1>1, MergedCloneGood
  <2> QED BY <1>2, <2>1 DEF RuleGood, Gives
<1>4. Node(t, Size(h)) = new
  BY <1>0, <1>2, OneAppended
<1>5. n \in Ids(t) /\ Node(t, n) = Node(h, n) /\ Args(t, n) = args
  BY <1>3 DEF Extends, Args
<1>6. val \in Valuations(t) /\ res.node = Size(h) /\ res.g = t
  BY <1>2 DEF Gives
<1> HIDE DEF t, new
<1>7. /\ args \in Seq(Int) /\ DOMAIN args = 1..Len(args) /\ Len(args) \in Nat
      /\ \A i \in 1..Len(args) : args[i] \in Ids(h)
  BY <1>0, NodeType
<1>8. s \in Seq(Seq(Ids(h))) /\ Len(s) = Len(args) /\ Flattened(h, args, op) = FlattenSeq(s)
  BY <1>0, SlicesType
<1>9. \A i \in 1..Len(args) : s[i] = IF Node(h, args[i]).op = op THEN Args(h, args[i]) ELSE <<args[i]>>
  BY <1>7 DEF Slices
<1>10. Maps(v, Ids(h), Value)
  <2>1. \A m \in Ids(h) : m \in Ids(t)
    BY <1>3 DEF Extends
  <2>2. \A m \in Ids(h) : ValueIn(t, m, val) \in Value
    BY <1>3, <1>6, <2>1, ValueType
  <2> QED BY <2>2 DEF Maps, NodeValues
<1>11. vals \in Seq(Value) /\ Len(vals) = Len(args) /\ \A i \in 1..Len(args) : vals[i] = ValueIn(t, args[i], val)
  <2>1. vals \in Seq(Value)
    BY <1>3, <1>5, <1>6, ValueType
  <2>2. DOMAIN vals = 1..Len(args) /\ \A i \in 1..Len(args) : vals[i] = ValueIn(t, args[i], val)
    BY <1>5, <1>7 DEF ArgsIn
  <2> HIDE DEF vals
  <2>3. Len(vals) = Len(args)
    BY <1>7, <2>1, <2>2
  <2> QED BY <2>1, <2>2, <2>3
<1> HIDE DEF s
<1>12. /\ w \in Seq(Seq(Value)) /\ Len(w) = Len(s) /\ \A i \in 1..Len(s) : w[i] = Mapped(v, s[i])
       /\ FlattenSeq(w) = Mapped(v, FlattenSeq(s))
  BY <1>8, <1>10, FlattenMaps
<1> HIDE DEF w, vals, args
<1>13. Stands(op, w, vals)
  <2> SUFFICES ASSUME NEW i \in 1..Len(vals)
               PROVE  \/ w[i] = <<vals[i]>>
                      \/ vals[i] = Apply(op, w[i]) /\ (op \in Numeric => w[i] # <<>>)
    BY DEF Stands
  <2>1. i \in 1..Len(args) /\ i \in 1..Len(s)
    BY <1>8, <1>11
  <2>2. /\ w[i] = Mapped(v, s[i]) /\ vals[i] = ValueIn(t, args[i], val) /\ args[i] \in Ids(h)
        /\ s[i] = IF Node(h, args[i]).op = op THEN Args(h, args[i]) ELSE <<args[i]>>
    BY <1>7, <1>9, <1>11, <1>12, <2>1
  <2>3. PICK c \in Ids(h) : c = args[i]
    BY <2>2
  <2>4. PICK z : z = s[i]
    OBVIOUS
  <2>5. z = IF Node(h, c).op = op THEN Args(h, c) ELSE <<c>>
    BY <2>2, <2>3, <2>4
  <2>6. SliceIs(Mapped(NodeValues(h, t, val), z), ValueIn(t, c, val), op)
    BY ONLY <1>0, <1>1, <1>3, <1>6, <2>3, <2>5, SliceStands
  <2>7. w[i] = Mapped(v, z) /\ vals[i] = ValueIn(t, c, val)
    BY <2>2, <2>3, <2>4
  <2>8. SliceIs(w[i], vals[i], op)
    BY <2>6, <2>7, Zenon
  <2> QED BY <2>8, Zenon DEF SliceIs
<1>14. ArgsIn(t, Size(h), val) = Mapped(v, FlattenSeq(s))
  <2>1. Args(t, Size(h)) = FlattenSeq(s)
    BY <1>2, <1>4, <1>8 DEF Args
  <2>2. FlattenSeq(s) \in Seq(Ids(h))
    BY <1>8, FlattenType
  <2>3. \A i \in DOMAIN FlattenSeq(s) : FlattenSeq(s)[i] \in Ids(h)
    BY <2>2
  <2>4. ASSUME NEW f, \A i \in DOMAIN f : f[i] \in Ids(h)
        PROVE  [i \in DOMAIN f |-> ValueIn(t, f[i], val)] = Mapped(v, f)
    BY <2>4 DEF Mapped, NodeValues
  <2>5. [i \in DOMAIN FlattenSeq(s) |-> ValueIn(t, FlattenSeq(s)[i], val)] = Mapped(v, FlattenSeq(s))
    BY <2>3, <2>4
  <2> QED BY <2>1, <2>5, Zenon DEF ArgsIn
<1>15. Apply(top, FlattenSeq(w)) = Apply(top, vals)
  BY <1>8, <1>11, <1>12, <1>13, ApplyFlattens
<1>16. ValueIn(t, n, val) = Apply(top, vals)
  BY <1>1, <1>3, <1>5, OperationValue DEF vals
<1>17. ValueIn(t, Size(h), val) = Apply(top, ArgsIn(t, Size(h), val))
  BY <1>1, <1>2, <1>3, <1>4, OperationValue
<1> QED BY <1>6, <1>12, <1>14, <1>15, <1>16, <1>17

-----------------------------------------------------------------------------
(* Every rule but pull_df returns a node worth as much as the one it was   *)
(* applied to.                                                             *)
LEMMA AppliedKeeps ==
  ASSUME Acyclic(g), NEW rule \in Rules, rule # "pull_df", NEW n \in Ids(g), MayTry(rule, n),
         NEW res, res = Applied(rule, n), res.ok, NEW val \in Valuations(res.g)
  PROVE  IF rule = "merge_numeric" THEN ValueIn(res.g, n, val) = ValueIn(res.g, res.node, val)
         ELSE TruthOf(ValueIn(res.g, n, val)) = TruthOf(ValueIn(res.g, res.node, val))
<1>1. CASE rule = "demorgan"
  <2>1. res = demorgan_apply(g, n)
    BY <1>1 DEF Applied
  <2>2. ValueIn(res.g, n, val) = ValueIn(res.g, res.node, val)
    BY <2>1, DeMorganKeeps
  <2> QED BY <1>1, <2>2
<1>2. CASE rule = "merge_numeric"
  <2>1. res = MergedClone(g, n, Node(g, n).op) /\ Node(g, n).op \in Associative
    BY <1>2 DEF Applied, MayTry, merge_cummutative_numeric_apply, Associative
  <2>2. MergesInto(Node(g, n).op, Node(g, n).op)
    BY <2>1 DEF MergesInto
  <2>3. ValueIn(res.g, n, val) = ValueIn(res.g, res.node, val)
    BY <2>1, <2>2, MergeKeeps
  <2> QED BY <1>2, <2>3
<1>3. CASE rule = "merge_logic"
  <2> DEFINE op == MergedInto(Node(g, n).op)
  <2>1. res = merge_cummutative_logic_apply(g, n)
    BY <1>3 DEF Applied
  <2>2. op # "INVALID"
    <3> SUFFICES ASSUME op = "INVALID" PROVE FALSE
      OBVIOUS
    <3>1. res = Threw(Clone(g, n))
      BY <2>1, Zenon DEF merge_cummutative_logic_apply
    <3> QED BY <3>1 DEF Threw
  <2>3. res = MergedClone(g, n, op)
    BY <2>1, <2>2, Zenon DEF merge_cummutative_logic_apply
  <2>4. MergesInto(Node(g, n).op, op)
    BY <2>2 DEF MergesInto
  <2>5. ValueIn(res.g, n, val) = ValueIn(res.g, res.node, val)
    BY <2>3, <2>4, MergeKeeps
  <2> QED BY <1>3, <2>5
<1>4. CASE rule = "reduce_not"
  <2>1. res = reduce_not_nop_apply(g, n)
    BY <1>4 DEF Applied
  <2>2. TruthOf(ValueIn(res.g, n, val)) = TruthOf(ValueIn(res.g, res.node, val))
    BY <2>1, ReduceKeeps
  <2> QED BY <1>4, <2>2
<1> QED BY <1>1, <1>2, <1>3, <1>4 DEF Rules

(* Every step keeps RulesKeepMeaning. *)
LEMMA RulesKeepMeaningNext ==
  ASSUME PhaseInv, GraphInv, RulesKeepMeaning, [Next]_vars
  PROVE  RulesKeepMeaning'
<1>1. CASE Parse
  <2>1. phase' # "numbered"
    BY <1>1 DEF Parse
  <2> QED BY <2>1 DEF RulesKeepMeaning
<1>2. CASE NumberDataFrames
  <2>1. last' = NoRule
    BY <1>2 DEF NumberDataFrames, PhaseInv
  <2>2. ~last'.ok
    BY <2>1 DEF NoRule
  <2> QED BY <2>2 DEF RulesKeepMeaning
<1>3. ASSUME NEW rule \in Rules, NEW n \in Ids(g), Rewrite(rule, n)
      PROVE  RulesKeepMeaning'
  <2> DEFINE res == Applied(rule, n)
  <2>1. /\ phase = "numbered" /\ MayTry(rule, n) /\ g' = res.g
        /\ last' = [rule |-> rule, node |-> n, result |-> res.node, ok |-> res.ok]
    BY <1>3 DEF Rewrite
  <2>2. Acyclic(g)
    BY <2>1 DEF GraphInv
  <2>3. last'.rule = rule /\ last'.node = n /\ last'.result = res.node /\ last'.ok = res.ok
    BY <2>1
  <2> SUFFICES ASSUME last'.ok, last'.rule # "pull_df", NEW val \in Valuations(g')
               PROVE  IF last'.rule = "merge_numeric"
                      THEN ValueIn(g', last'.node, val) = ValueIn(g', last'.result, val)
                      ELSE TruthOf(ValueIn(g', last'.node, val)) = TruthOf(ValueIn(g', last'.result, val))
    BY Zenon DEF RulesKeepMeaning
  <2>4. res.ok /\ rule # "pull_df" /\ val \in Valuations(res.g)
    BY <2>1, <2>3
  <2> HIDE DEF res
  <2>5. IF rule = "merge_numeric" THEN ValueIn(res.g, n, val) = ValueIn(res.g, res.node, val)
        ELSE TruthOf(ValueIn(res.g, n, val)) = TruthOf(ValueIn(res.g, res.node, val))
    BY <2>1, <2>2, <2>4, AppliedKeeps DEF res
  <2> QED BY <2>1, <2>3, <2>5
<1>4. CASE Compact
  <2>1. phase' # "numbered"
    BY <1>4 DEF Compact
  <2> QED BY <2>1 DEF RulesKeepMeaning
<1>5. CASE UNCHANGED vars
  <2>1. phase' = phase /\ last' = last /\ g' = g
    BY <1>5 DEF vars
  <2> QED BY <2>1, Zenon DEF RulesKeepMeaning
<1> QED BY <1>1, <1>2, <1>3, <1>4, <1>5 DEF Next

(* Rewriting keeps the meaning (rules.h:45-181, RulesKeepMeaning): the node *)
(* that De Morgan's rule, the merging of connectives or the reduction of    *)
(* NOT returns has, for all values of the columns, the truth value of the   *)
(* node the rule was tried on, and where arithmetic was merged its value;   *)
(* whatever rewrites came before and however the graph shares its nodes.    *)
THEOREM RulesPreserveMeaning == Spec /\ []ParsingOrder => []RulesKeepMeaning
<1>1. Init => PhaseInv /\ GraphInv /\ RulesKeepMeaning
  BY InvInit DEF Init, RulesKeepMeaning
<1>2. PhaseInv /\ GraphInv /\ RulesKeepMeaning /\ ParsingOrder /\ [Next]_vars
        => (PhaseInv /\ GraphInv /\ RulesKeepMeaning)'
  BY InvNext, RulesKeepMeaningNext
<1> QED BY <1>1, <1>2, PTL DEF Spec

-----------------------------------------------------------------------------
(* Ordered: a strict total order on a finite set numbers it.               *)
StrictOrder(S, R) ==
  /\ \A m \in S : <<m, m>> \notin R
  /\ \A m, n, p \in S : <<m, n>> \in R /\ <<n, p>> \in R => <<m, p>> \in R
  /\ \A m, n \in S : m # n => <<m, n>> \in R \/ <<n, m>> \in R

Preceding(S, R, n) == {m \in S : <<m, n>> \in R}

(* How many come before each. *)
Places(S, R) == [n \in S |-> Cardinality(Preceding(S, R, n))]

(* A numbering of S from 0, in the order R. *)
Numbers(S, R, p) ==
  /\ p \in [S -> 0..(Cardinality(S) - 1)]
  /\ \A m, n \in S : <<m, n>> \in R => p[m] < p[n]
  /\ \A m, n \in S : p[m] = p[n] => m = n
  /\ \A i \in 0..(Cardinality(S) - 1) : \E n \in S : p[n] = i

(* A strict total order gives each element of a finite set one place. *)
LEMMA PlacesNumber ==
  ASSUME NEW S, IsFiniteSet(S), NEW R, StrictOrder(S, R)
  PROVE  Numbers(S, R, Places(S, R))
<1> DEFINE p == Places(S, R)
           c == Cardinality(S)
<1>1. c \in Nat
  BY FS_CardinalityType
<1>2. ASSUME NEW n \in S
      PROVE  /\ IsFiniteSet(Preceding(S, R, n)) /\ Cardinality(Preceding(S, R, n)) \in Nat
             /\ Cardinality(Preceding(S, R, n)) < c
  <2> DEFINE T == Preceding(S, R, n)
  <2>1. T \in SUBSET S /\ n \notin T
    BY DEF Preceding, StrictOrder
  <2> HIDE DEF T
  <2>2. IsFiniteSet(T) /\ Cardinality(T) <= c /\ (c = Cardinality(T) => S = T)
    BY <2>1, FS_Subset
  <2>3. Cardinality(T) \in Nat
    BY <2>2, FS_CardinalityType
  <2>4. c # Cardinality(T)
    BY <2>1, <2>2
  <2>5. IsFiniteSet(T) /\ Cardinality(T) \in Nat /\ Cardinality(T) < c
    BY <1>1, <2>2, <2>3, <2>4
  <2> QED BY <2>5 DEF T
<1>3. p \in [S -> 0..(c - 1)]
  BY <1>1, <1>2 DEF Places
<1>4. ASSUME NEW m \in S, NEW n \in S, <<m, n>> \in R
      PROVE  p[m] < p[n]
  <2> DEFINE T == Preceding(S, R, n)
             U == Preceding(S, R, m)
  <2>1. U \in SUBSET T /\ m \in T /\ m \notin U
    BY <1>4 DEF Preceding, StrictOrder
  <2>2. IsFiniteSet(T) /\ Cardinality(T) \in Nat /\ Cardinality(U) \in Nat
    BY <1>2
  <2>3. p[m] = Cardinality(U) /\ p[n] = Cardinality(T)
    BY DEF Places
  <2> HIDE DEF T, U
  <2>4. Cardinality(U) <= Cardinality(T) /\ (Cardinality(T) = Cardinality(U) => T = U)
    BY <2>1, <2>2, FS_Subset
  <2> QED BY <2>1, <2>2, <2>3, <2>4
<1> HIDE DEF p
<1>5. ASSUME NEW m \in S, NEW n \in S, p[m] = p[n]
      PROVE  m = n
  <2> SUFFICES ASSUME m # n PROVE FALSE
    OBVIOUS
  <2>1. p[m] < p[n] \/ p[n] < p[m]
    BY <1>4 DEF StrictOrder
  <2>2. p[m] \in 0..(c - 1) /\ p[n] \in 0..(c - 1)
    BY <1>3
  <2> QED BY <1>5, <2>1, <2>2
<1>6. p \in Injection(S, 0..(c - 1))
  BY <1>3, <1>5 DEF Injection, IsInjective
<1>7. IsFiniteSet(0..(c - 1)) /\ Cardinality(0..(c - 1)) = c
  BY <1>1, FS_Interval
<1>8. p \in Surjection(S, 0..(c - 1))
  BY <1>6, <1>7, FS_Injection
<1>9. \A i \in 0..(c - 1) : \E n \in S : p[n] = i
  BY <1>8 DEF Surjection
<1> QED BY <1>3, <1>4, <1>5, <1>9 DEF Numbers, p

(* A sequence that lists S by its numbers, and its inverse. *)
Lists(order, S, p) ==
  /\ DOMAIN order = 1..Cardinality(S)
  /\ \A i \in 1..Cardinality(S) : order[i] \in S /\ p[order[i]] = i - 1

LEMMA ListedByNumbers ==
  ASSUME NEW S, IsFiniteSet(S), NEW R, NEW p, Numbers(S, R, p),
         NEW order, DOMAIN order = 1..Cardinality(S),
         \A i \in 1..Cardinality(S) : order[i] = CHOOSE n \in S : p[n] = i - 1
  PROVE  Lists(order, S, p)
<1>1. Cardinality(S) \in Nat
  BY FS_CardinalityType
<1>2. ASSUME NEW i \in 1..Cardinality(S)
      PROVE  order[i] \in S /\ p[order[i]] = i - 1
  <2>1. i - 1 \in 0..(Cardinality(S) - 1)
    BY <1>1
  <2>2. \E n \in S : p[n] = i - 1
    BY <2>1 DEF Numbers
  <2>3. PICK j : j = i - 1
    OBVIOUS
  <2>4. (CHOOSE n \in S : p[n] = j) \in S /\ p[CHOOSE n \in S : p[n] = j] = j
    BY <2>2, <2>3
  <2> QED BY <2>3, <2>4
<1> QED BY <1>2 DEF Lists

LEMMA LeaveMapOf ==
  ASSUME NEW S, IsFiniteSet(S), NEW R, NEW p, Numbers(S, R, p), NEW order, Lists(order, S, p)
  PROVE  visitedLeaveMap(order) = p
<1>0. Cardinality(S) \in Nat
  BY FS_CardinalityType
<1>1. \A n \in S : p[n] \in 0..(Cardinality(S) - 1) /\ p[n] + 1 \in 1..Cardinality(S)
  BY <1>0 DEF Numbers
<1>2. \A n \in S : order[p[n] + 1] = n
  <2> TAKE n \in S
  <2>1. PICK i \in 1..Cardinality(S) : i = p[n] + 1
    BY <1>1
  <2>2. order[i] \in S /\ p[order[i]] = i - 1 /\ i - 1 = p[n]
    BY <1>1, <2>1 DEF Lists
  <2>3. order[i] = n
    BY <2>2 DEF Numbers
  <2> QED BY <2>1, <2>3
<1>3. Range(order) = S
  BY <1>1, <1>2 DEF Range, Lists
<1>4. ASSUME NEW n \in S
      PROVE  (CHOOSE i \in DOMAIN order : order[i] = n) - 1 = p[n]
  <2> DEFINE i == CHOOSE i \in DOMAIN order : order[i] = n
  <2>1. \E j \in DOMAIN order : order[j] = n
    BY <1>1, <1>2 DEF Lists
  <2>2. i \in DOMAIN order /\ order[i] = n
    BY <2>1
  <2> HIDE DEF i
  <2>3. p[n] = i - 1
    BY <2>2 DEF Lists
  <2> QED BY <2>3 DEF i
<1>5. p = [n \in S |-> p[n]]
  BY DEF Numbers
<1> QED BY <1>3, <1>4, <1>5 DEF visitedLeaveMap

-----------------------------------------------------------------------------
(* The two orders that visitedNodesOrder may leave: deepest first.         *)
UpOrder(S, v) ==
  {p \in S \X S : v[p[1]] > v[p[2]] \/ (v[p[1]] = v[p[2]] /\ p[1] < p[2])}
DownOrder(S, v) ==
  {p \in S \X S : v[p[1]] > v[p[2]] \/ (v[p[1]] = v[p[2]] /\ p[1] > p[2])}

(* A numbering of the visited nodes, deeper ones first. *)
DeepestFirst(v, p) ==
  /\ p \in [VisitedNodes(v) -> 0..(Cardinality(VisitedNodes(v)) - 1)]
  /\ \A m, n \in VisitedNodes(v) : v[m] > v[n] => p[m] < p[n]
  /\ \A m, n \in VisitedNodes(v) : p[m] = p[n] => m = n
  /\ \A i \in 0..(Cardinality(VisitedNodes(v)) - 1) : \E n \in VisitedNodes(v) : p[n] = i

(* visitedLeaveMap numbers deeper nodes first, whichever way equals are    *)
(* sorted.                                                                 *)
LEMMA LeaveMapDeepestFirst ==
  ASSUME NEW D \in SUBSET Nat, IsFiniteSet(D), NEW v \in [D -> Nat],
         NEW order \in visitedNodesOrders(v)
  PROVE  DeepestFirst(v, visitedLeaveMap(order))
<1> DEFINE S == VisitedNodes(v)
<1>1. S \subseteq D /\ IsFiniteSet(S) /\ \A n \in S : n \in Nat /\ v[n] \in Nat
  <2>1. S \in SUBSET D
    BY DEF VisitedNodes
  <2>2. IsFiniteSet(S)
    BY <2>1, FS_Subset
  <2> QED BY <2>1, <2>2
<1>2. \/ order = Ordered(S, LAMBDA a, b : v[a] > v[b] \/ (v[a] = v[b] /\ a < b))
      \/ order = Ordered(S, LAMBDA a, b : v[a] > v[b] \/ (v[a] = v[b] /\ a > b))
  BY DEF visitedNodesOrders
<1> HIDE DEF S
<1>3. ASSUME NEW R, StrictOrder(S, R), \A m, n \in S : v[m] > v[n] => <<m, n>> \in R,
             DOMAIN order = 1..Cardinality(S),
             \A i \in 1..Cardinality(S) : order[i] = CHOOSE n \in S : Places(S, R)[n] = i - 1
      PROVE  DeepestFirst(v, visitedLeaveMap(order))
  <2> DEFINE p == Places(S, R)
  <2>1. Numbers(S, R, p)
    BY <1>1, <1>3, PlacesNumber
  <2>2. \A i \in 1..Cardinality(S) : order[i] = CHOOSE n \in S : p[n] = i - 1
    BY <1>3
  <2> HIDE DEF p
  <2>3. Lists(order, S, p)
    BY <1>1, <1>3, <2>1, <2>2, ListedByNumbers
  <2>4. visitedLeaveMap(order) = p
    BY <1>1, <2>1, <2>3, LeaveMapOf
  <2>5. DeepestFirst(v, p)
    BY <1>3, <2>1 DEF Numbers, DeepestFirst, S
  <2> QED BY <2>4, <2>5
<1>4. CASE order = Ordered(S, LAMBDA a, b : v[a] > v[b] \/ (v[a] = v[b] /\ a < b))
  <2> DEFINE R == UpOrder(S, v)
             Count(n) == Cardinality({m \in S : v[m] > v[n] \/ (v[m] = v[n] /\ m < n)})
  <2>1. StrictOrder(S, R) /\ \A m, n \in S : v[m] > v[n] => <<m, n>> \in R
    BY <1>1 DEF UpOrder, StrictOrder
  <2>2. ASSUME NEW n \in S
        PROVE  Places(S, R)[n] = Count(n)
    <3>1. Preceding(S, R, n) = {m \in S : v[m] > v[n] \/ (v[m] = v[n] /\ m < n)}
      BY DEF Preceding, UpOrder
    <3> QED BY <3>1 DEF Places
  <2>3. order = [i \in 1..Cardinality(S) |-> CHOOSE n \in S : Count(n) = i - 1]
    BY <1>4, Zenon DEF Ordered
  <2> HIDE DEF R, Count
  <2>4. ASSUME NEW j
        PROVE  (CHOOSE n \in S : Count(n) = j) = (CHOOSE n \in S : Places(S, R)[n] = j)
    BY <2>2
  <2>5. ASSUME NEW i \in 1..Cardinality(S)
        PROVE  order[i] = CHOOSE n \in S : Places(S, R)[n] = i - 1
    <3>1. order[i] = CHOOSE n \in S : Count(n) = i - 1
      BY <2>3, Zenon
    <3>2. PICK j : j = i - 1
      OBVIOUS
    <3>3. order[i] = CHOOSE n \in S : Count(n) = j
      BY <3>1, <3>2, Zenon
    <3>4. order[i] = CHOOSE n \in S : Places(S, R)[n] = j
      BY <2>4, <3>3, Zenon
    <3> QED BY <3>2, <3>4, Zenon
  <2>6. DOMAIN order = 1..Cardinality(S)
    BY <2>3
  <2> QED BY <1>3, <2>1, <2>5, <2>6
<1>5. CASE order = Ordered(S, LAMBDA a, b : v[a] > v[b] \/ (v[a] = v[b] /\ a > b))
  <2> DEFINE R == DownOrder(S, v)
             Count(n) == Cardinality({m \in S : v[m] > v[n] \/ (v[m] = v[n] /\ m > n)})
  <2>1. StrictOrder(S, R) /\ \A m, n \in S : v[m] > v[n] => <<m, n>> \in R
    BY <1>1 DEF DownOrder, StrictOrder
  <2>2. ASSUME NEW n \in S
        PROVE  Places(S, R)[n] = Count(n)
    <3>1. Preceding(S, R, n) = {m \in S : v[m] > v[n] \/ (v[m] = v[n] /\ m > n)}
      BY DEF Preceding, DownOrder
    <3> QED BY <3>1 DEF Places
  <2>3. order = [i \in 1..Cardinality(S) |-> CHOOSE n \in S : Count(n) = i - 1]
    BY <1>5, Zenon DEF Ordered
  <2> HIDE DEF R, Count
  <2>4. ASSUME NEW j
        PROVE  (CHOOSE n \in S : Count(n) = j) = (CHOOSE n \in S : Places(S, R)[n] = j)
    BY <2>2
  <2>5. ASSUME NEW i \in 1..Cardinality(S)
        PROVE  order[i] = CHOOSE n \in S : Places(S, R)[n] = i - 1
    <3>1. order[i] = CHOOSE n \in S : Count(n) = i - 1
      BY <2>3, Zenon
    <3>2. PICK j : j = i - 1
      OBVIOUS
    <3>3. order[i] = CHOOSE n \in S : Count(n) = j
      BY <3>1, <3>2, Zenon
    <3>4. order[i] = CHOOSE n \in S : Places(S, R)[n] = j
      BY <2>4, <3>3, Zenon
    <3> QED BY <3>2, <3>4, Zenon
  <2>6. DOMAIN order = 1..Cardinality(S)
    BY <2>3
  <2> QED BY <1>3, <2>1, <2>5, <2>6
<1> QED BY <1>2, <1>4, <1>5

-----------------------------------------------------------------------------
(* The walk of fillVisited, call by call.                                  *)
WalkIs(W, m, first, n) == W = [k \in 0..n |-> IF k = 0 THEN first ELSE NextCall(m, W[k - 1])]

(* The walk of fillVisited exists, and each call is the next of the one    *)
(* before.                                                                 *)
LEMMA WalkExists ==
  ASSUME NEW m, NEW first, NEW n \in Nat
  PROVE  \E W : WalkIs(W, m, first, n)
<1> DEFINE T == {k \in Nat : \E W : WalkIs(W, m, first, k)}
<1>1. 0 \in T
  <2> DEFINE W == [k \in 0..0 |-> first]
  <2>1. WalkIs(W, m, first, 0)
    BY DEF WalkIs
  <2> QED BY <2>1
<1>2. ASSUME NEW k \in Nat, k \in T PROVE k + 1 \in T
  <2>1. PICK old : WalkIs(old, m, first, k)
    BY <1>2
  <2> DEFINE W == [j \in 0..(k + 1) |-> IF j = 0 THEN first ELSE NextCall(m, old[j - 1])]
  <2>2. \A j \in 0..k : W[j] = old[j]
    <3> TAKE j \in 0..k
    <3>1. j \in 0..(k + 1)
      OBVIOUS
    <3> QED BY <2>1, <3>1 DEF WalkIs
  <2>3. \A j \in 0..(k + 1) : j # 0 => W[j - 1] = old[j - 1]
    <3> TAKE j \in 0..(k + 1)
    <3>1. j # 0 => j - 1 \in 0..k
      OBVIOUS
    <3> QED BY <2>2, <3>1
  <2>4. W = [j \in 0..(k + 1) |-> IF j = 0 THEN first ELSE NextCall(m, W[j - 1])]
    BY <2>3
  <2> HIDE DEF W
  <2>5. WalkIs(W, m, first, k + 1)
    BY <2>4 DEF WalkIs
  <2> QED BY <2>5
<1> HIDE DEF T
<1>3. n \in T
  BY <1>1, <1>2, SetInduction
<1> QED BY <1>3 DEF T

(* What fillVisited leaves is where such a walk ends. *)
LEMMA VisitedByWalk ==
  ASSUME NEW m, NEW visited, NEW node, NEW value, MostCalls(m) \in Nat
  PROVE  \E W : /\ WalkIs(W, m, [seen |-> [visited EXCEPT ![node] = value],
                                 calls |-> CallsOf(m, node, value)], MostCalls(m))
                /\ fillVisited(m, visited, node, value) = W[MostCalls(m)].seen
<1> DEFINE first == [seen |-> [visited EXCEPT ![node] = value], calls |-> CallsOf(m, node, value)]
           P(W) == W = [k \in 0..MostCalls(m) |->
                          IF k = 0 THEN [seen |-> [visited EXCEPT ![node] = value],
                                         calls |-> CallsOf(m, node, value)]
                          ELSE NextCall(m, W[k - 1])]
<1>1. fillVisited(m, visited, node, value) = (CHOOSE W : P(W))[MostCalls(m)].seen
  BY Zenon DEF fillVisited
<1>2. ASSUME NEW W PROVE P(W) <=> WalkIs(W, m, first, MostCalls(m))
  BY Zenon DEF WalkIs
<1>3. \E W : WalkIs(W, m, first, MostCalls(m))
  BY WalkExists
<1> HIDE DEF P, first
<1>4. P(CHOOSE W : P(W))
  BY <1>2, <1>3
<1>5. WalkIs(CHOOSE W : P(W), m, first, MostCalls(m))
  BY <1>2, <1>4
<1> QED BY <1>1, <1>5 DEF first

(* A function on the first naturals has a bound. *)
LEMMA BoundExists ==
  ASSUME NEW n \in Nat, NEW f, \A i \in 0..(n - 1) : f[i] \in Nat
  PROVE  \E b \in Nat : \A i \in 0..(n - 1) : f[i] <= b
<1> DEFINE T == {k \in Nat : k <= n => \E b \in Nat : \A i \in 0..(k - 1) : f[i] <= b}
<1>1. 0 \in T
  OBVIOUS
<1>2. ASSUME NEW k \in Nat, k \in T PROVE k + 1 \in T
  <2> SUFFICES ASSUME k + 1 <= n
               PROVE  \E b \in Nat : \A i \in 0..k : f[i] <= b
    OBVIOUS
  <2>1. PICK b \in Nat : \A i \in 0..(k - 1) : f[i] <= b
    BY <1>2
  <2>2. PICK x \in Nat : x = f[k]
    OBVIOUS
  <2>3. \A i \in 0..k : f[i] \in Nat /\ (i = k \/ i \in 0..(k - 1))
    OBVIOUS
  <2>4. b + x \in Nat /\ \A i \in 0..k : f[i] <= b + x
    BY <2>1, <2>2, <2>3
  <2> QED BY <2>4
<1> HIDE DEF T
<1>3. n \in T
  BY <1>1, <1>2, SetInduction
<1> QED BY <1>3 DEF T

(* The longest list of arguments bounds the others. *)
MostArgs(h) == Max({0} \cup {Len(Mapping(h)[n]) : n \in DOMAIN Mapping(h)})

LEMMA MostArgsBound ==
  ASSUME NEW h, IsGraph(h)
  PROVE  /\ MostArgs(h) \in Nat
         /\ \A n \in Ids(h) : Len(Args(h, n)) <= MostArgs(h)
         /\ MostCalls(Mapping(h)) = Size(h) * MostArgs(h)
         /\ IsFiniteSet(Ids(h)) /\ Cardinality(Ids(h)) = Size(h) /\ Size(h) \in Nat
<1> DEFINE f == [n \in Ids(h) |-> Len(Args(h, n))]
           S == {0} \cup {Len(Mapping(h)[n]) : n \in DOMAIN Mapping(h)}
<1>1. h.nodes \in Seq(AnyNode) /\ Size(h) \in Nat /\ Ids(h) = 0..(Size(h) - 1)
  <2>1. h.nodes \in Seq(AnyNode)
    BY DEF IsGraph
  <2> QED BY <2>1, SizeType DEF Ids
<1>2. \A n \in Ids(h) : Len(Args(h, n)) \in Nat
  BY NodeType
<1>3. S = {0} \cup {f[n] : n \in Ids(h)}
  BY DEF Mapping
<1>4. \A n \in 0..(Size(h) - 1) : f[n] \in Nat
  BY <1>1, <1>2
<1>5. \A n \in Ids(h) : f[n] = Len(Args(h, n))
  OBVIOUS
<1> HIDE DEF S, f
<1>6. PICK b \in Nat : \A n \in 0..(Size(h) - 1) : f[n] <= b
  BY <1>1, <1>4, BoundExists
<1>7. S \in SUBSET (0..b) /\ S # {} /\ \A n \in Ids(h) : f[n] \in S
  BY <1>1, <1>3, <1>4, <1>6
<1>8. Max(S) \in S /\ \A y \in S : y <= Max(S)
  BY <1>7, NatMax
<1>9. MostArgs(h) \in Nat /\ \A n \in Ids(h) : Len(Args(h, n)) <= MostArgs(h)
  <2>1. Max(S) \in Nat
    <3>1. \A y \in S : y \in Nat
      BY <1>7
    <3> QED BY <1>8, <3>1
  <2>2. \A n \in Ids(h) : Len(Args(h, n)) <= Max(S)
    BY <1>5, <1>7, <1>8
  <2>3. MostArgs(h) = Max(S)
    BY DEF MostArgs, S
  <2> QED BY <2>1, <2>2, <2>3
<1>10. IsFiniteSet(Ids(h)) /\ Cardinality(Ids(h)) = Size(h)
  BY <1>1, FS_Interval
<1>11. MostCalls(Mapping(h)) = Size(h) * MostArgs(h)
  <2>1. DOMAIN Mapping(h) = Ids(h)
    BY DEF Mapping
  <2> QED BY <1>10, <2>1 DEF MostCalls, MostArgs
<1> QED BY <1>1, <1>9, <1>10, <1>11

-----------------------------------------------------------------------------
(* The calls that wait are those of visited nodes: their node is below the *)
(* root and their number is one more.                                      *)
WalkType(h, w) == w \in [seen : [Ids(h) -> Nat], calls : Seq(Ids(h) \X Nat)]

CallSound(h, r, top, seen, c) ==
  /\ r[c[1]] < r[top]
  /\ \E p \in Ids(h) : seen[p] # 0 /\ c[1] \in Range(Args(h, p)) /\ c[2] = seen[p] + 1

CallsSound(h, r, top, w) == \A c \in Range(w.calls) : CallSound(h, r, top, w.seen, c)

(* No argument of a visited node is forgotten. *)
ArgsCalled(h, w) ==
  \A n \in Ids(h) : w.seen[n] # 0 =>
    \A a \in Range(Args(h, n)) : w.seen[a] # 0 \/ \E c \in Range(w.calls) : c[1] = a

(* Every visited node got its number from a node that uses it. *)
NumbersFall(h, r, top, seen) ==
  /\ seen[top] = 1
  /\ \A n \in Ids(h) : seen[n] # 0 /\ n # top =>
       /\ r[n] < r[top]
       /\ \E p \in Ids(h) : seen[p] # 0 /\ n \in Range(Args(h, p)) /\ seen[n] = seen[p] + 1

WalkInv(h, r, top, w) ==
  WalkType(h, w) /\ CallsSound(h, r, top, w) /\ ArgsCalled(h, w) /\ NumbersFall(h, r, top, w.seen)

Unseen(h, seen) == {n \in Ids(h) : seen[n] = 0}

Progress(h, w, k) ==
  w.calls = <<>> \/ Len(w.calls) + Cardinality(Unseen(h, w.seen)) * MostArgs(h) + k
                      <= Size(h) * MostArgs(h)

(* The calls that a node makes. *)
CallsTo(h, n, value, new) ==
  /\ new \in Seq(Ids(h) \X Nat) /\ Len(new) = Len(Args(h, n))
  /\ \A c \in Range(new) : c[1] \in Range(Args(h, n)) /\ c[2] = value + 1
  /\ \A a \in Range(Args(h, n)) : a \in Ids(h) /\ \E c \in Range(new) : c[1] = a

LEMMA CallsOfNode ==
  ASSUME NEW h, IsGraph(h), NEW n \in Ids(h), NEW value \in Nat,
         NEW new, new = CallsOf(Mapping(h), n, value)
  PROVE  CallsTo(h, n, value, new)
<1>1. new = [k \in DOMAIN Args(h, n) |-> <<Args(h, n)[k], value + 1>>]
  BY DEF CallsOf, Mapping
<1>2. /\ Args(h, n) \in Seq(Int) /\ DOMAIN Args(h, n) = 1..Len(Args(h, n)) /\ Len(Args(h, n)) \in Nat
      /\ \A i \in DOMAIN Args(h, n) : Args(h, n)[i] \in Ids(h)
  BY NodeType
<1>3. PICK l \in Nat : l = Len(Args(h, n))
  BY <1>2
<1>4. new \in [1..l -> Ids(h) \X Nat]
  BY <1>1, <1>2, <1>3
<1>5. new \in Seq(Ids(h) \X Nat) /\ Len(new) = l
  BY <1>4, SeqDef
<1>6. DOMAIN new = DOMAIN Args(h, n) /\ \A k \in DOMAIN Args(h, n) : new[k] = <<Args(h, n)[k], value + 1>>
  BY <1>1
<1> HIDE <1>1
<1>7. \A c \in Range(new) : c[1] \in Range(Args(h, n)) /\ c[2] = value + 1
  BY <1>6 DEF Range
<1>8. \A a \in Range(Args(h, n)) : a \in Ids(h) /\ \E c \in Range(new) : c[1] = a
  BY <1>2, <1>6 DEF Range
<1> QED BY <1>3, <1>5, <1>7, <1>8 DEF CallsTo

(* Calls with the first one replaced by others. *)
Replaced(C, s, new, t) ==
  /\ t \in Seq(C) /\ Len(t) = Len(new) + Len(s) - 1 /\ Len(s) \in Nat /\ Len(new) \in Nat
  /\ Range(t) \subseteq Range(new) \cup Range(s)
  /\ Range(new) \subseteq Range(t)
  /\ Range(s) \subseteq Range(t) \cup {Head(s)}

(* Calls without the first one. *)
Behead(C, s, t) ==
  /\ t \in Seq(C) /\ Len(t) = Len(s) - 1
  /\ Range(t) \subseteq Range(s) /\ Range(s) \subseteq Range(t) \cup {Head(s)}
  /\ Head(s) \in Range(s) /\ Range(s) \subseteq C

LEMMA RangeOfParts ==
  ASSUME NEW C, NEW s \in Seq(C), s # <<>>, NEW new \in Seq(C)
  PROVE  Replaced(C, s, new, new \o Tail(s)) /\ Behead(C, s, Tail(s))
<1> DEFINE t == new \o Tail(s)
<1>1. /\ Len(s) \in Nat /\ Len(s) > 0 /\ DOMAIN s = 1..Len(s) /\ Head(s) = s[1]
      /\ Tail(s) \in Seq(C) /\ Len(Tail(s)) = Len(s) - 1 /\ DOMAIN Tail(s) = 1..(Len(s) - 1)
      /\ \A i \in 1..(Len(s) - 1) : Tail(s)[i] = s[i + 1]
  OBVIOUS
<1>2. PICK u \in Seq(C) : u = Tail(s)
  BY <1>1
<1>3. /\ t \in Seq(C) /\ Len(t) = Len(new) + Len(u) /\ Len(new) \in Nat /\ Len(u) \in Nat
      /\ \A i \in 1..Len(new) : t[i] = new[i]
      /\ \A i \in 1..Len(u) : t[Len(new) + i] = u[i]
      /\ DOMAIN t = 1..Len(t) /\ DOMAIN new = 1..Len(new) /\ DOMAIN u = 1..Len(u)
  BY <1>2
<1> HIDE DEF t
<1>4. Range(u) \subseteq Range(s) /\ Range(s) \subseteq Range(u) \cup {Head(s)}
  <2>1. ASSUME NEW i \in 1..Len(s), i # 1 PROVE s[i] \in Range(u)
    <3>1. i - 1 \in 1..(Len(s) - 1) /\ u[i - 1] = s[i]
      BY <1>1, <1>2, <2>1
    <3> QED BY <1>1, <1>2, <3>1 DEF Range
  <2>2. ASSUME NEW i \in DOMAIN u PROVE u[i] \in Range(s)
    <3>1. i + 1 \in 1..Len(s) /\ u[i] = s[i + 1]
      BY <1>1, <1>2
    <3> QED BY <1>1, <3>1 DEF Range
  <2> QED BY <1>1, <2>1, <2>2 DEF Range
<1>5. Range(new) \subseteq Range(t) /\ Range(u) \subseteq Range(t)
  <2>1. ASSUME NEW i \in 1..Len(u) PROVE u[i] \in Range(t)
    <3>1. Len(new) + i \in 1..Len(t)
      BY <1>3
    <3> QED BY <1>3, <3>1 DEF Range
  <2>2. ASSUME NEW i \in 1..Len(new) PROVE new[i] \in Range(t)
    <3>1. i \in 1..Len(t)
      BY <1>3
    <3> QED BY <1>3, <3>1 DEF Range
  <2> QED BY <1>3, <2>1, <2>2 DEF Range
<1>6. Range(t) \subseteq Range(new) \cup Range(u)
  <2>1. ASSUME NEW i \in 1..Len(t) PROVE t[i] \in Range(new) \cup Range(u)
    <3>1. CASE i \in 1..Len(new)
      BY <1>3, <3>1 DEF Range
    <3>2. CASE i \notin 1..Len(new)
      <4>1. PICK j \in 1..Len(u) : i = Len(new) + j
        <5>1. i - Len(new) \in 1..Len(u) /\ i = Len(new) + (i - Len(new))
          BY <1>3, <3>2
        <5> QED BY <5>1
      <4> QED BY <1>3, <4>1 DEF Range
    <3> QED BY <3>1, <3>2
  <2> QED BY <1>3, <2>1 DEF Range
<1>7. Range(s) \subseteq C /\ Head(s) \in Range(s)
  <2>1. 1 \in DOMAIN s /\ \A i \in DOMAIN s : s[i] \in C
    BY <1>1
  <2> QED BY <1>1, <2>1 DEF Range
<1> QED BY <1>1, <1>2, <1>3, <1>4, <1>5, <1>6, <1>7 DEF Replaced, Behead, t

-----------------------------------------------------------------------------
(* A call changes nothing, is done with, or visits a node.                 *)
LEMMA SkippedCall ==
  ASSUME NEW h, IsGraph(h), NEW r, NEW top \in Ids(h), NEW w, WalkInv(h, r, top, w),
         w.calls # <<>>, w.seen[Head(w.calls)[1]] # 0, NEW x, x = NextCall(Mapping(h), w)
  PROVE  WalkInv(h, r, top, x) /\ x.seen = w.seen /\ Len(x.calls) = Len(w.calls) - 1
<1> DEFINE C == Ids(h) \X Nat
<1>1. x = [w EXCEPT !.calls = Tail(@)]
  BY DEF NextCall
<1>2. w.seen \in [Ids(h) -> Nat] /\ w.calls \in Seq(C)
  BY DEF WalkInv, WalkType
<1>3. /\ Tail(w.calls) \in Seq(C) /\ Len(Tail(w.calls)) = Len(w.calls) - 1
      /\ Range(Tail(w.calls)) \subseteq Range(w.calls)
      /\ Range(w.calls) \subseteq Range(Tail(w.calls)) \cup {Head(w.calls)}
  <2> HIDE DEF C
  <2>1. PICK s \in Seq(C) : s = w.calls
    BY <1>2
  <2>2. Behead(C, s, Tail(s))
    BY <2>1, RangeOfParts
  <2> QED BY <2>1, <2>2 DEF Behead
<1> HIDE DEF C
<1>4. x.seen = w.seen /\ x.calls = Tail(w.calls) /\ x = [seen |-> w.seen, calls |-> Tail(w.calls)]
  BY <1>1 DEF WalkInv, WalkType
<1> HIDE <1>1
<1>5. WalkType(h, x)
  BY <1>2, <1>3, <1>4 DEF WalkType, C
<1>6. CallsSound(h, r, top, x)
  BY <1>3, <1>4 DEF WalkInv, CallsSound
<1>7. ArgsCalled(h, x)
  BY <1>3, <1>4 DEF WalkInv, ArgsCalled
<1>8. NumbersFall(h, r, top, x.seen)
  BY <1>4 DEF WalkInv
<1> QED BY <1>3, <1>4, <1>5, <1>6, <1>7, <1>8 DEF WalkInv

OneVisited(h, seen, after) ==
  \E n \in Unseen(h, seen) : Unseen(h, after) = Unseen(h, seen) \ {n}

LEMMA VisitingCall ==
  ASSUME NEW h, IsGraph(h), NEW b \in Nat, NEW r, Ranks(h, b, r), NEW top \in Ids(h), NEW w,
         WalkInv(h, r, top, w), w.calls # <<>>, w.seen[Head(w.calls)[1]] = 0,
         NEW x, x = NextCall(Mapping(h), w)
  PROVE  /\ WalkInv(h, r, top, x)
         /\ Len(x.calls) <= Len(w.calls) - 1 + MostArgs(h)
         /\ OneVisited(h, w.seen, x.seen)
<1> DEFINE C == Ids(h) \X Nat
<1>1. w.seen \in [Ids(h) -> Nat] /\ w.calls \in Seq(C)
  BY DEF WalkInv, WalkType
<1>2. PICK n, value : n = Head(w.calls)[1] /\ value = Head(w.calls)[2]
  OBVIOUS
<1>3. PICK c \in C : c = Head(w.calls) /\ c \in Range(w.calls)
  <2> HIDE DEF C
  <2>1. PICK s \in Seq(C) : s = w.calls
    BY <1>1
  <2>2. Behead(C, s, Tail(s))
    BY <2>1, RangeOfParts
  <2> QED BY <2>1, <2>2 DEF Behead
<1>4. n \in Ids(h) /\ value \in Nat
  BY <1>2, <1>3
<1>5. /\ r[n] < r[top] /\ w.seen[n] = 0
      /\ \E p \in Ids(h) : w.seen[p] # 0 /\ n \in Range(Args(h, p)) /\ value = w.seen[p] + 1
  BY <1>2, <1>3 DEF WalkInv, CallsSound, CallSound
<1>0. PICK new : new = CallsOf(Mapping(h), n, value)
  OBVIOUS
<1> DEFINE seen == [w.seen EXCEPT ![n] = value]
           rest == new \o Tail(w.calls)
<1>6. x = [seen |-> seen, calls |-> rest]
  BY <1>0, <1>2, <1>5 DEF NextCall
<1>7. /\ new \in Seq(C) /\ Len(new) = Len(Args(h, n))
      /\ \A k \in Range(new) : k[1] \in Range(Args(h, n)) /\ k[2] = value + 1
      /\ \A a \in Range(Args(h, n)) : a \in Ids(h) /\ \E k \in Range(new) : k[1] = a
  <2>1. CallsTo(h, n, value, new)
    BY <1>0, <1>4, CallsOfNode
  <2> QED BY <2>1 DEF CallsTo
<1> HIDE DEF C
<1>8. /\ rest \in Seq(C) /\ Len(rest) = Len(new) + Len(w.calls) - 1
      /\ Range(rest) \subseteq Range(new) \cup Range(w.calls)
      /\ Range(new) \subseteq Range(rest)
      /\ Range(w.calls) \subseteq Range(rest) \cup {c}
      /\ Len(new) \in Nat /\ Len(w.calls) \in Nat
  <2>1. PICK s \in Seq(C) : s = w.calls
    BY <1>1
  <2>2. PICK e \in Seq(C) : e = new
    BY <1>7
  <2> HIDE <1>7, <1>1
  <2>3. rest = e \o Tail(s) /\ s # <<>>
    BY <2>1, <2>2
  <2>4. Replaced(C, s, e, e \o Tail(s))
    BY <2>3, RangeOfParts
  <2>5. Replaced(C, s, e, rest)
    BY <2>3, <2>4
  <2> HIDE DEF rest
  <2> QED BY <1>3, <2>1, <2>2, <2>5 DEF Replaced
<1> HIDE DEF rest
<1>9. /\ seen \in [Ids(h) -> Nat] /\ seen[n] = value /\ value # 0
      /\ \A q \in Ids(h) : q # n => seen[q] = w.seen[q]
      /\ \A q \in Ids(h) : w.seen[q] # 0 => seen[q] = w.seen[q]
  <2>1. value # 0
    BY <1>1, <1>5
  <2> QED BY <1>1, <1>4, <1>5, <2>1
<1> HIDE DEF seen
<1>10. x.seen = seen /\ x.calls = rest
  BY <1>6
<1>11. WalkType(h, x)
  BY <1>6, <1>8, <1>9 DEF WalkType, C
<1>12. CallsSound(h, r, top, x)
  <2> SUFFICES ASSUME NEW k \in Range(rest)
               PROVE  CallSound(h, r, top, seen, k)
    BY <1>10 DEF CallsSound
  <2>1. CASE k \in Range(w.calls)
    <3>1. CallSound(h, r, top, w.seen, k)
      BY <2>1 DEF WalkInv, CallsSound
    <3> QED BY <1>9, <3>1 DEF CallSound
  <2>2. CASE k \in Range(new)
    <3>1. k[1] \in Range(Args(h, n)) /\ k[2] = seen[n] + 1 /\ seen[n] # 0
      BY <1>7, <1>9, <2>2
    <3>2. k[1] \in Ids(h) /\ r[k[1]] < r[n]
      BY <1>4, <1>7, <3>1 DEF Ranks, Range
    <3>3. r[k[1]] \in Int /\ r[n] \in Int /\ r[top] \in Int
      BY <1>4, <3>2 DEF Ranks
    <3>4. r[k[1]] < r[top]
      BY <1>5, <3>2, <3>3
    <3> QED BY <1>4, <3>1, <3>4 DEF CallSound
  <2> QED BY <1>8, <2>1, <2>2
<1>13. ArgsCalled(h, x)
  <2> SUFFICES ASSUME NEW q \in Ids(h), seen[q] # 0, NEW a \in Range(Args(h, q))
               PROVE  seen[a] # 0 \/ \E k \in Range(rest) : k[1] = a
    BY <1>10 DEF ArgsCalled
  <2>1. CASE q = n
    BY <1>7, <1>8, <2>1
  <2>2. CASE q # n
    <3>1. w.seen[q] # 0
      BY <1>9, <2>2
    <3>2. w.seen[a] # 0 \/ \E k \in Range(w.calls) : k[1] = a
      BY <3>1 DEF WalkInv, ArgsCalled
    <3>3. CASE w.seen[a] # 0
      <4>1. a \in Ids(h)
        BY DEF IsGraph, Range
      <4> QED BY <1>9, <3>3, <4>1
    <3>4. ASSUME NEW k \in Range(w.calls), k[1] = a
          PROVE  seen[a] # 0 \/ k \in Range(rest)
      BY <1>2, <1>3, <1>8, <1>9, <3>4
    <3> QED BY <3>2, <3>3, <3>4
  <2> QED BY <2>1, <2>2
<1>14. NumbersFall(h, r, top, x.seen)
  <2>1. seen[top] = 1
    BY <1>9 DEF WalkInv, NumbersFall
  <2>2. ASSUME NEW q \in Ids(h), seen[q] # 0, q # top
        PROVE  /\ r[q] < r[top]
               /\ \E p \in Ids(h) : seen[p] # 0 /\ q \in Range(Args(h, p)) /\ seen[q] = seen[p] + 1
    <3>1. CASE q = n
      BY <1>5, <1>9, <3>1
    <3>2. CASE q # n
      <4>1. w.seen[q] # 0
        BY <1>9, <2>2, <3>2
      <4>2. /\ r[q] < r[top]
            /\ \E p \in Ids(h) : w.seen[p] # 0 /\ q \in Range(Args(h, p)) /\ w.seen[q] = w.seen[p] + 1
        BY <2>2, <4>1 DEF WalkInv, NumbersFall
      <4> QED BY <1>9, <3>2, <4>2
    <3> QED BY <3>1, <3>2
  <2> QED BY <1>10, <2>1, <2>2 DEF NumbersFall
<1>15. Len(rest) <= Len(w.calls) - 1 + MostArgs(h)
  <2>1. MostArgs(h) \in Nat /\ Len(Args(h, n)) <= MostArgs(h)
    BY <1>4, MostArgsBound
  <2> QED BY <1>7, <1>8, <2>1
<1>16. n \in Unseen(h, w.seen) /\ Unseen(h, seen) = Unseen(h, w.seen) \ {n}
  BY <1>4, <1>5, <1>9 DEF Unseen
<1> QED BY <1>10, <1>11, <1>12, <1>13, <1>14, <1>15, <1>16 DEF WalkInv, OneVisited

-----------------------------------------------------------------------------
(* A call keeps the invariant of the walk and makes progress. *)
LEMMA NextCallKeeps ==
  ASSUME NEW h, IsGraph(h), NEW b \in Nat, NEW r, Ranks(h, b, r), NEW top \in Ids(h),
         NEW w, WalkInv(h, r, top, w), NEW k \in Nat, Progress(h, w, k),
         NEW x, x = NextCall(Mapping(h), w)
  PROVE  WalkInv(h, r, top, x) /\ Progress(h, x, k + 1)
<1> DEFINE L == MostArgs(h)
<1>0. L \in Nat /\ Size(h) \in Nat /\ IsFiniteSet(Ids(h))
  BY MostArgsBound
<1>1. CASE w.calls = <<>>
  <2>1. x = w
    BY <1>1 DEF NextCall
  <2> QED BY <1>1, <2>1 DEF Progress
<1>2. CASE w.calls # <<>>
  <2>1. Len(w.calls) + Cardinality(Unseen(h, w.seen)) * L + k <= Size(h) * L
    BY <1>2 DEF Progress
  <2>2. IsFiniteSet(Unseen(h, w.seen))
    <3>1. Unseen(h, w.seen) \in SUBSET Ids(h)
      BY DEF Unseen
    <3> QED BY <1>0, <3>1, FS_Subset
  <2>3. PICK c \in Nat : c = Cardinality(Unseen(h, w.seen))
    BY <2>2, FS_CardinalityType
  <2>4. PICK l \in Nat : l = Len(w.calls)
    <3>1. w.calls \in Seq(Ids(h) \X Nat)
      BY DEF WalkInv, WalkType
    <3> QED BY <3>1
  <2>5. CASE w.seen[Head(w.calls)[1]] # 0
    <3>1. WalkInv(h, r, top, x) /\ x.seen = w.seen /\ Len(x.calls) = Len(w.calls) - 1
      BY <1>2, <2>5, SkippedCall
    <3>2. Len(x.calls) + c * L + (k + 1) <= Size(h) * L
      <4>1. PICK p \in Int : p = c * L
        BY <1>0
      <4>2. PICK q \in Int : q = Size(h) * L
        BY <1>0
      <4>3. l + p + k <= q /\ Len(x.calls) = l - 1
        BY <2>1, <2>3, <2>4, <3>1, <4>1, <4>2
      <4> QED BY <4>1, <4>2, <4>3
    <3> QED BY <2>3, <3>1, <3>2 DEF Progress
  <2>6. CASE w.seen[Head(w.calls)[1]] = 0
    <3>1. WalkInv(h, r, top, x) /\ Len(x.calls) <= Len(w.calls) - 1 + MostArgs(h)
      BY <1>2, <2>6, VisitingCall
    <3>2. PICK n \in Unseen(h, w.seen) : Unseen(h, x.seen) = Unseen(h, w.seen) \ {n}
      <4>1. OneVisited(h, w.seen, x.seen)
        BY <1>2, <2>6, VisitingCall
      <4> QED BY <4>1 DEF OneVisited
    <3>3. Cardinality(Unseen(h, x.seen)) = c - 1
      BY <2>2, <2>3, <3>2, FS_RemoveElement
    <3>4. PICK s \in Nat : s = Len(x.calls)
      <4>1. x.calls \in Seq(Ids(h) \X Nat)
        BY <3>1 DEF WalkInv, WalkType
      <4> QED BY <4>1
    <3>5. s + (c - 1) * L + (k + 1) <= Size(h) * L
      <4>1. PICK p \in Int : p = c * L
        BY <1>0
      <4>2. PICK q \in Int : q = Size(h) * L
        BY <1>0
      <4>3. l + p + k <= q /\ s <= l - 1 + L
        BY <2>1, <2>3, <2>4, <3>1, <3>4, <4>1, <4>2
      <4>4. (c - 1) * L = p - L
        BY <1>0, <4>1
      <4> QED BY <1>0, <4>2, <4>3, <4>4
    <3> QED BY <3>1, <3>3, <3>4, <3>5 DEF Progress
  <2> QED BY <2>5, <2>6
<1> QED BY <1>1, <1>2

(* The first node and its calls. *)
FirstCall(h, top) ==
  [seen  |-> [[n \in DOMAIN Mapping(h) |-> 0] EXCEPT ![top] = 1],
   calls |-> CallsOf(Mapping(h), top, 1)]

LEMMA FirstCallHolds ==
  ASSUME NEW h, IsGraph(h), NEW b \in Nat, NEW r, Ranks(h, b, r), NEW top \in Ids(h)
  PROVE  WalkInv(h, r, top, FirstCall(h, top)) /\ Progress(h, FirstCall(h, top), 0)
<1> DEFINE w == FirstCall(h, top)
           seen == [[n \in Ids(h) |-> 0] EXCEPT ![top] = 1]
<1>1. PICK new : new = CallsOf(Mapping(h), top, 1)
  OBVIOUS
<1>2. w.seen = seen /\ w.calls = new /\ w = [seen |-> seen, calls |-> new]
  BY <1>1 DEF FirstCall, Mapping
<1>3. CallsTo(h, top, 1, new)
  <2>1. PICK one \in Nat : one = 1
    OBVIOUS
  <2>2. CallsTo(h, top, one, new)
    BY <1>1, <2>1, CallsOfNode
  <2> QED BY <2>1, <2>2
<1>4. seen \in [Ids(h) -> Nat] /\ seen[top] = 1 /\ \A n \in Ids(h) : n # top => seen[n] = 0
  OBVIOUS
<1> HIDE DEF seen, w
<1>5. WalkType(h, w)
  BY <1>2, <1>3, <1>4 DEF WalkType, CallsTo
<1>6. CallsSound(h, r, top, w)
  <2> SUFFICES ASSUME NEW c \in Range(new)
               PROVE  CallSound(h, r, top, seen, c)
    BY <1>2 DEF CallsSound
  <2>1. c[1] \in Range(Args(h, top)) /\ c[2] = 1 + 1
    BY <1>3 DEF CallsTo
  <2>2. r[c[1]] < r[top]
    BY <2>1 DEF Ranks, Range
  <2> QED BY <1>4, <2>1, <2>2 DEF CallSound
<1>7. ArgsCalled(h, w)
  BY <1>2, <1>3, <1>4 DEF ArgsCalled, CallsTo
<1>8. NumbersFall(h, r, top, w.seen)
  BY <1>2, <1>4 DEF NumbersFall
<1>9. Progress(h, w, 0)
  <2>1. MostArgs(h) \in Nat /\ Size(h) \in Nat /\ Len(Args(h, top)) <= MostArgs(h)
        /\ IsFiniteSet(Ids(h)) /\ Cardinality(Ids(h)) = Size(h)
    BY MostArgsBound
  <2>2. Unseen(h, seen) = Ids(h) \ {top}
    BY <1>4 DEF Unseen
  <2>3. Cardinality(Unseen(h, seen)) = Size(h) - 1
    BY <2>1, <2>2, FS_RemoveElement
  <2>4. PICK l \in Nat : l = Len(new)
    <3>1. new \in Seq(Ids(h) \X Nat)
      BY <1>3 DEF CallsTo
    <3> QED BY <3>1
  <2>5. l <= MostArgs(h)
    BY <1>3, <2>1, <2>4 DEF CallsTo
  <2>6. l + (Size(h) - 1) * MostArgs(h) + 0 <= Size(h) * MostArgs(h)
    <3>1. (Size(h) - 1) * MostArgs(h) = Size(h) * MostArgs(h) - MostArgs(h)
      BY <2>1
    <3>2. PICK q \in Int : q = Size(h) * MostArgs(h)
      BY <2>1
    <3> QED BY <2>1, <2>5, <3>1, <3>2
  <2> QED BY <1>2, <2>3, <2>4, <2>6 DEF Progress
<1> QED BY <1>5, <1>6, <1>7, <1>8, <1>9 DEF WalkInv, w

(* The numbers that the walk leaves: all the nodes that the root reaches,  *)
(* with their arguments.                                                   *)
Reached(h, r, top, v) ==
  /\ v \in [Ids(h) -> Nat] /\ NumbersFall(h, r, top, v)
  /\ \A n \in Ids(h) : v[n] # 0 => \A a \in Range(Args(h, n)) : v[a] # 0

(* After MostCalls none waits: the walk numbered all the root reaches,     *)
(* each node one deeper than one that uses it.                             *)
LEMMA VisitedReaches ==
  ASSUME NEW h, IsGraph(h), NEW b \in Nat, NEW r, Ranks(h, b, r), NEW top \in Ids(h)
  PROVE  Reached(h, r, top, VisitedFrom(Mapping(h), top))
<1> DEFINE m == Mapping(h)
           M == MostCalls(m)
           first == FirstCall(h, top)
<1>0. M \in Nat /\ M = Size(h) * MostArgs(h)
  BY MostArgsBound
<1>1. PICK W : WalkIs(W, m, first, M) /\ VisitedFrom(m, top) = W[M].seen
  <2>1. PICK W : /\ WalkIs(W, m, [seen |-> [[n \in DOMAIN m |-> 0] EXCEPT ![top] = 1],
                                  calls |-> CallsOf(m, top, 1)], M)
                 /\ fillVisited(m, [n \in DOMAIN m |-> 0], top, 1) = W[M].seen
    BY <1>0, VisitedByWalk
  <2> QED BY <2>1 DEF FirstCall, VisitedFrom
<1> DEFINE T == {k \in Nat : k <= M => WalkInv(h, r, top, W[k]) /\ Progress(h, W[k], k)}
<1>2. 0 \in T
  <2>1. W[0] = first
    BY <1>0, <1>1 DEF WalkIs
  <2> QED BY <2>1, FirstCallHolds
<1>3. ASSUME NEW k \in Nat, k \in T PROVE k + 1 \in T
  <2> SUFFICES ASSUME k + 1 <= M
               PROVE  WalkInv(h, r, top, W[k + 1]) /\ Progress(h, W[k + 1], k + 1)
    OBVIOUS
  <2>1. WalkInv(h, r, top, W[k]) /\ Progress(h, W[k], k)
    BY <1>0, <1>3
  <2>2. W[k + 1] = NextCall(m, W[k])
    <3>1. k + 1 \in 0..M /\ k + 1 # 0 /\ (k + 1) - 1 = k
      BY <1>0
    <3>2. PICK j \in 0..M : j = k + 1 /\ j # 0 /\ j - 1 = k
      BY <3>1
    <3>3. W[j] = NextCall(m, W[j - 1])
      BY <1>1, <3>2 DEF WalkIs
    <3> QED BY <3>2, <3>3
  <2>3. PICK w, x : w = W[k] /\ x = W[k + 1]
    OBVIOUS
  <2>4. WalkInv(h, r, top, x) /\ Progress(h, x, k + 1)
    BY <2>1, <2>2, <2>3, NextCallKeeps
  <2> QED BY <2>3, <2>4
<1> HIDE DEF T
<1>4. M \in T
  BY <1>0, <1>2, <1>3, SetInduction
<1>5. PICK w : w = W[M]
  OBVIOUS
<1>6. WalkInv(h, r, top, w) /\ Progress(h, w, M)
  BY <1>0, <1>4, <1>5 DEF T
<1>7. w.calls = <<>>
  <2> SUFFICES ASSUME w.calls # <<>> PROVE FALSE
    OBVIOUS
  <2>1. Len(w.calls) + Cardinality(Unseen(h, w.seen)) * MostArgs(h) + M <= Size(h) * MostArgs(h)
    BY <1>6 DEF Progress
  <2>2. w.calls \in Seq(Ids(h) \X Nat)
    BY <1>6 DEF WalkInv, WalkType
  <2>3. PICK l \in Nat : l = Len(w.calls) /\ l > 0
    BY <2>2
  <2>4. MostArgs(h) \in Nat /\ Size(h) \in Nat /\ IsFiniteSet(Ids(h))
    BY MostArgsBound
  <2>5. Cardinality(Unseen(h, w.seen)) \in Nat
    <3>1. Unseen(h, w.seen) \in SUBSET Ids(h)
      BY DEF Unseen
    <3> QED BY <2>4, <3>1, FS_Subset, FS_CardinalityType
  <2>6. PICK p \in Nat : p = Cardinality(Unseen(h, w.seen)) * MostArgs(h)
    <3>1. \A x, y \in Nat : x * y \in Nat
      OBVIOUS
    <3> QED BY <2>4, <2>5, <3>1
  <2>7. l + p + M <= M
    BY <1>0, <2>1, <2>3, <2>6
  <2> QED BY <1>0, <2>3, <2>7
<1>8. w.seen \in [Ids(h) -> Nat] /\ NumbersFall(h, r, top, w.seen)
  BY <1>6 DEF WalkInv, WalkType
<1>9. \A n \in Ids(h) : w.seen[n] # 0 => \A a \in Range(Args(h, n)) : w.seen[a] # 0
  <2>1. Range(w.calls) = {}
    BY <1>7 DEF Range
  <2> QED BY <1>6, <2>1 DEF WalkInv, ArgsCalled
<1> QED BY <1>1, <1>5, <1>8, <1>9 DEF Reached

-----------------------------------------------------------------------------
(* Compaction: the visited nodes under their new names.                    *)
LEMMA OrderedPlaces ==
  ASSUME NEW l \in Nat
  PROVE  Ordered(1..l, LAMBDA j, k : j < k) = [i \in 1..l |-> i]
<1> DEFINE Count(n) == Cardinality({j \in 1..l : j < n})
<1>1. Cardinality(1..l) = l
  BY FS_Interval
<1>2. ASSUME NEW n \in 1..l PROVE Count(n) = n - 1
  <2>1. {j \in 1..l : j < n} = 1..(n - 1)
    OBVIOUS
  <2>2. Cardinality(1..(n - 1)) = n - 1
    BY FS_Interval
  <2> QED BY <2>1, <2>2
<1>3. Ordered(1..l, LAMBDA j, k : j < k) = [i \in 1..l |-> CHOOSE n \in 1..l : Count(n) = i - 1]
  BY <1>1, Zenon DEF Ordered
<1> HIDE DEF Count
<1>4. ASSUME NEW i \in 1..l PROVE (CHOOSE n \in 1..l : Count(n) = i - 1) = i
  <2>1. \A n \in 1..l : Count(n) = i - 1 => n = i
    BY <1>2
  <2>2. Count(i) = i - 1
    BY <1>2
  <2>3. \E n \in 1..l : Count(n) = i - 1
    BY <2>2
  <2>4. (CHOOSE n \in 1..l : Count(n) = i - 1) \in 1..l /\ Count(CHOOSE n \in 1..l : Count(n) = i - 1) = i - 1
    BY <2>3, Zenon
  <2> QED BY <2>1, <2>4, Zenon
<1> QED BY <1>3, <1>4, Zenon

Renaming(new, args) == [k \in DOMAIN args |-> new[args[k]]]

(* The node that gets the number i. *)
OldOf(new, i) == CHOOSE n \in DOMAIN new : new[n] = i

LEMMA MappedArgs ==
  ASSUME NEW m, NEW new, NEW i \in 0..(Cardinality(DOMAIN new) - 1), NEW l \in Nat,
         DOMAIN m[OldOf(new, i)] = 1..l,
         \A k \in 1..l : m[OldOf(new, i)][k] \in DOMAIN new
  PROVE  mapMappingGraph(m, new)[i] = Renaming(new, m[OldOf(new, i)])
<1> DEFINE args == m[OldOf(new, i)]
           kept == {k \in DOMAIN args : args[k] \in DOMAIN new}
           place == Ordered(kept, LAMBDA j, k : j < k)
<1>1. mapMappingGraph(m, new)[i] = [k \in DOMAIN place |-> new[args[place[k]]]]
  BY Zenon DEF mapMappingGraph, OldOf
<1>2. kept = 1..l
  OBVIOUS
<1>3. place = Ordered(1..l, LAMBDA j, k : j < k)
  BY <1>2
<1>4. place = [k \in 1..l |-> k]
  BY <1>3, OrderedPlaces
<1> HIDE DEF place
<1>5. DOMAIN place = 1..l /\ \A k \in 1..l : place[k] = k
  BY <1>4
<1>6. [k \in DOMAIN place |-> new[args[place[k]]]] = [k \in 1..l |-> new[args[k]]]
  BY <1>5
<1> QED BY <1>1, <1>6 DEF Renaming

(* A copy of the nodes of S of one graph in another, under new names. *)
CopyOf(h, S, new, t) ==
  /\ t.consts = h.consts
  /\ t \in [names : Seq(STRING), nodes : Seq(AnyNode), consts : [Types -> Seq(Int)]]
  /\ Ids(t) = 0..(Cardinality(S) - 1)
  /\ \A i \in Ids(t) : \E n \in S : new[n] = i
  /\ \A n \in S : /\ new[n] \in Ids(t)
                  /\ Node(t, new[n]) = [Node(h, n) EXCEPT !.args = Renaming(new, Args(h, n))]
                  /\ \A i \in DOMAIN Args(h, n) : Args(h, n)[i] \in S

(* What is needed of the nodes and of their numbers. *)
Closed(h, S) ==
  S \in SUBSET Ids(h) /\ \A n \in S : \A a \in Range(Args(h, n)) : a \in S

OneToOne(S, new) ==
  /\ new \in [S -> 0..(Cardinality(S) - 1)]
  /\ \A m, n \in S : new[m] = new[n] => m = n
  /\ \A i \in 0..(Cardinality(S) - 1) : \E n \in S : new[n] = i

LEMMA OldOfNew ==
  ASSUME NEW S, NEW new, OneToOne(S, new)
  PROVE  /\ DOMAIN new = S
         /\ \A i \in 0..(Cardinality(S) - 1) : OldOf(new, i) \in S /\ new[OldOf(new, i)] = i
         /\ \A n \in S : new[n] \in 0..(Cardinality(S) - 1) /\ OldOf(new, new[n]) = n
<1>1. DOMAIN new = S /\ \A n \in S : new[n] \in 0..(Cardinality(S) - 1)
  BY DEF OneToOne
<1>2. ASSUME NEW i \in 0..(Cardinality(S) - 1)
      PROVE  OldOf(new, i) \in S /\ new[OldOf(new, i)] = i
  <2>1. \E n \in S : new[n] = i
    BY DEF OneToOne
  <2> QED BY <1>1, <2>1, Zenon DEF OldOf
<1>3. ASSUME NEW n \in S PROVE OldOf(new, new[n]) = n
  <2>1. OldOf(new, new[n]) \in S /\ new[OldOf(new, new[n])] = new[n]
    BY <1>1, <1>2
  <2> QED BY <2>1 DEF OneToOne
<1> QED BY <1>1, <1>2, <1>3

LEMMA RenamedNode ==
  ASSUME NEW x \in AnyNode, NEW args \in Seq(Int), NEW y, y = [x EXCEPT !.args = args]
  PROVE  /\ y \in AnyNode /\ y.args = args /\ y.op = x.op /\ y.type = x.type
         /\ y.name = x.name /\ y.const = x.const /\ y.df = x.df
<1>1. y \in AnyNode
  BY Zenon DEF AnyNode
<1>2. y.args = args /\ y.op = x.op /\ y.type = x.type /\ y.name = x.name /\ y.const = x.const /\ y.df = x.df
  BY Zenon DEF AnyNode
<1> QED BY <1>1, <1>2

(* Compaction copies the visited nodes under their new names, without      *)
(* losing an argument.                                                     *)
LEMMA CompactCopies ==
  ASSUME NEW h, IsGraph(h), NEW S, Closed(h, S), NEW new, OneToOne(S, new),
         NEW t, t = compact(h, new)
  PROVE  CopyOf(h, S, new, t)
<1> DEFINE old(i) == OldOf(new, i)
           node(i) == [Node(h, old(i)) EXCEPT !.args = Renaming(new, Args(h, old(i)))]
           nodes == [i \in 1..Cardinality(S) |-> node(i - 1)]
           m == mapMappingGraph(Mapping(h), new)
           ops == mapOperations(h.nodes, new)
<1>1. DOMAIN new = S /\ Cardinality(S) \in Nat
  <2>1. IsFiniteSet(Ids(h))
    BY MostArgsBound
  <2>2. IsFiniteSet(S)
    BY <2>1, FS_Subset DEF Closed
  <2> QED BY <2>2, OldOfNew, FS_CardinalityType
<1>2. ASSUME NEW i \in 0..(Cardinality(S) - 1)
      PROVE  /\ old(i) \in S /\ old(i) \in Ids(h) /\ new[old(i)] = i
             /\ m[i] = Renaming(new, Args(h, old(i))) /\ ops[i] = Node(h, old(i))
  <2>1. old(i) \in S /\ old(i) \in Ids(h) /\ new[old(i)] = i
    BY OldOfNew DEF Closed
  <2>2. PICK n \in S : n = old(i) /\ n \in Ids(h)
    BY <2>1
  <2>3. PICK l \in Nat : l = Len(Args(h, n)) /\ DOMAIN Args(h, n) = 1..l
    <3>1. Args(h, n) \in Seq(Int)
      BY <2>2, NodeType
    <3> QED BY <3>1
  <2>4. Mapping(h)[n] = Args(h, n)
    BY <2>2 DEF Mapping
  <2>5. \A k \in 1..l : Args(h, n)[k] \in DOMAIN new
    BY <1>1, <2>2, <2>3 DEF Closed, Range
  <2>6. m[i] = Renaming(new, Args(h, n))
    <3>1. DOMAIN Mapping(h)[OldOf(new, i)] = 1..l
      BY <2>2, <2>3, <2>4
    <3>2. \A k \in 1..l : Mapping(h)[OldOf(new, i)][k] \in DOMAIN new
      BY <2>2, <2>4, <2>5
    <3>3. m[i] = Renaming(new, Mapping(h)[OldOf(new, i)])
      BY <1>1, <3>1, <3>2, MappedArgs
    <3> QED BY <2>2, <2>4, <3>3
  <2>7. ops[i] = Node(h, n)
    <3>1. ops[i] = h.nodes[OldOf(new, i) + 1]
      BY <1>1, Zenon DEF mapOperations, OldOf
    <3> QED BY <2>2, <3>1 DEF Node
  <2> QED BY <2>1, <2>2, <2>6, <2>7
<1>3. t = [h EXCEPT !.nodes = nodes]
  <2>1. t = [h EXCEPT !.nodes = [i \in 1..Cardinality(S) |-> [ops[i - 1] EXCEPT !.args = m[i - 1]]]]
    BY <1>1, Zenon DEF compact
  <2>2. ASSUME NEW i \in 1..Cardinality(S)
        PROVE  [ops[i - 1] EXCEPT !.args = m[i - 1]] = node(i - 1)
    <3>1. i - 1 \in 0..(Cardinality(S) - 1)
      BY <1>1
    <3>2. m[i - 1] = Renaming(new, Args(h, old(i - 1))) /\ ops[i - 1] = Node(h, old(i - 1))
      BY <1>2, <3>1
    <3> QED BY <3>2, Zenon
  <2>3. [i \in 1..Cardinality(S) |-> [ops[i - 1] EXCEPT !.args = m[i - 1]]] = nodes
    BY <2>2, Zenon
  <2> QED BY <2>1, <2>3, Zenon
<1>4. ASSUME NEW n \in S
      PROVE  Renaming(new, Args(h, n)) \in Seq(Int) /\ Node(h, n) \in AnyNode
  <2>1. n \in Ids(h)
    BY DEF Closed
  <2>2. Node(h, n) \in AnyNode /\ Args(h, n) \in Seq(Int)
    BY <2>1, NodeType
  <2>3. \A k \in DOMAIN Args(h, n) : new[Args(h, n)[k]] \in Int
    BY <1>1, OldOfNew DEF Closed, Range
  <2>4. PICK l \in Nat : DOMAIN Args(h, n) = 1..l
    BY <2>2
  <2>5. Renaming(new, Args(h, n)) \in [1..l -> Int]
    BY <2>3, <2>4 DEF Renaming
  <2> HIDE DEF AnyNode
  <2> QED BY <2>2, <2>5, SeqDef
<1>5. ASSUME NEW i \in 0..(Cardinality(S) - 1) PROVE node(i) \in AnyNode
  <2>1. Node(h, old(i)) \in AnyNode /\ Renaming(new, Args(h, old(i))) \in Seq(Int)
    BY <1>2, <1>4
  <2> QED BY <2>1, RenamedNode
<1> HIDE DEF node
<1>6. nodes \in Seq(AnyNode) /\ Len(nodes) = Cardinality(S)
  <2>1. \A i \in 1..Cardinality(S) : node(i - 1) \in AnyNode
    BY <1>1, <1>5
  <2>2. nodes \in [1..Cardinality(S) -> AnyNode]
    BY <2>1, Zenon
  <2>3. \A k \in Nat : [1..k -> AnyNode] \subseteq Seq(AnyNode)
    BY SeqDef
  <2>4. nodes \in Seq(AnyNode)
    BY <1>1, <2>2, <2>3
  <2>5. DOMAIN nodes = 1..Cardinality(S)
    OBVIOUS
  <2> HIDE DEF nodes
  <2> QED BY <1>1, <2>4, <2>5
<1> HIDE DEF nodes
<1>7. t.nodes = nodes /\ t.consts = h.consts
  BY <1>3, Zenon DEF IsGraph
<1>8. t \in [names : Seq(STRING), nodes : Seq(AnyNode), consts : [Types -> Seq(Int)]]
  BY <1>3, <1>6, Zenon DEF IsGraph
<1>9. Ids(t) = 0..(Cardinality(S) - 1)
  BY <1>6, <1>7 DEF Ids, Size
<1>10. ASSUME NEW i \in 0..(Cardinality(S) - 1) PROVE Node(t, i) = node(i)
  <2>1. i + 1 \in 1..Cardinality(S) /\ (i + 1) - 1 = i
    BY <1>1
  <2>2. PICK j \in 1..Cardinality(S) : j = i + 1 /\ j - 1 = i
    BY <2>1
  <2>3. nodes[j] = node(i)
    BY <2>2 DEF nodes
  <2> QED BY <1>7, <2>2, <2>3 DEF Node
<1>11. ASSUME NEW n \in S
       PROVE  /\ new[n] \in Ids(t)
              /\ Node(t, new[n]) = [Node(h, n) EXCEPT !.args = Renaming(new, Args(h, n))]
              /\ \A i \in DOMAIN Args(h, n) : Args(h, n)[i] \in S
  <2>1. new[n] \in 0..(Cardinality(S) - 1) /\ old(new[n]) = n
    BY OldOfNew
  <2>2. Node(t, new[n]) = node(new[n])
    BY <1>10, <2>1
  <2>3. node(new[n]) = [Node(h, n) EXCEPT !.args = Renaming(new, Args(h, n))]
    BY <2>1, Zenon DEF node
  <2>4. \A i \in DOMAIN Args(h, n) : Args(h, n)[i] \in S
    BY DEF Closed, Range
  <2> QED BY <1>9, <2>1, <2>2, <2>3, <2>4
<1>12. \A i \in Ids(t) : \E n \in S : new[n] = i
  BY <1>9 DEF OneToOne
<1> QED BY <1>7, <1>8, <1>9, <1>11, <1>12 DEF CopyOf

-----------------------------------------------------------------------------
LEMMA CopyArgs ==
  ASSUME NEW h, IsGraph(h), NEW S, Closed(h, S), NEW new, OneToOne(S, new),
         NEW t, CopyOf(h, S, new, t), NEW n \in S
  PROVE  /\ new[n] \in Ids(t) /\ n \in Ids(h)
         /\ Args(t, new[n]) = Renaming(new, Args(h, n))
         /\ DOMAIN Args(t, new[n]) = DOMAIN Args(h, n)
         /\ \A i \in DOMAIN Args(h, n) :
              /\ Args(t, new[n])[i] = new[Args(h, n)[i]]
              /\ Args(h, n)[i] \in S /\ new[Args(h, n)[i]] \in Ids(t)
         /\ Node(t, new[n]).op = Node(h, n).op /\ Node(t, new[n]).type = Node(h, n).type
         /\ Node(t, new[n]).const = Node(h, n).const
<1>1. /\ new[n] \in Ids(t) /\ n \in Ids(h)
      /\ Node(t, new[n]) = [Node(h, n) EXCEPT !.args = Renaming(new, Args(h, n))]
      /\ \A i \in DOMAIN Args(h, n) : Args(h, n)[i] \in S /\ new[Args(h, n)[i]] \in Ids(t)
  BY DEF CopyOf, Closed
<1>2. Node(h, n) \in AnyNode
  BY <1>1, NodeType
<1>3. /\ Node(t, new[n]).args = Renaming(new, Args(h, n)) /\ Node(t, new[n]).op = Node(h, n).op
      /\ Node(t, new[n]).type = Node(h, n).type /\ Node(t, new[n]).const = Node(h, n).const
  BY <1>1, <1>2, Zenon DEF AnyNode
<1> QED BY <1>1, <1>3 DEF Args, Renaming

(* A copy has no cycle either. *)
LEMMA CopyAcyclic ==
  ASSUME NEW h, IsGraph(h), NEW b \in Nat, NEW r, Ranks(h, b, r),
         NEW S, Closed(h, S), NEW new, OneToOne(S, new), NEW t, CopyOf(h, S, new, t)
  PROVE  Acyclic(t)
<1> DEFINE q == [i \in Ids(t) |-> r[OldOf(new, i)]]
<1>1. ASSUME NEW i \in Ids(t)
      PROVE  OldOf(new, i) \in S /\ new[OldOf(new, i)] = i
  BY OldOfNew DEF CopyOf
<1>2. ASSUME NEW i \in Ids(t), NEW k \in DOMAIN Args(t, i)
      PROVE  Args(t, i)[k] \in Ids(t) /\ q[Args(t, i)[k]] < q[i]
  <2>1. PICK n \in S : n = OldOf(new, i) /\ new[n] = i
    BY <1>1
  <2>2. /\ k \in DOMAIN Args(h, n) /\ Args(t, i)[k] = new[Args(h, n)[k]] /\ n \in Ids(h)
        /\ Args(h, n)[k] \in S /\ new[Args(h, n)[k]] \in Ids(t)
    BY <2>1, CopyArgs
  <2>3. OldOf(new, new[Args(h, n)[k]]) = Args(h, n)[k]
    BY <2>2, OldOfNew
  <2>4. q[i] = r[n] /\ q[Args(t, i)[k]] = r[Args(h, n)[k]]
    BY <2>1, <2>2, <2>3
  <2>5. r[Args(h, n)[k]] < r[n]
    BY <2>2 DEF Ranks
  <2> QED BY <2>2, <2>4, <2>5
<1>3. ASSUME NEW i \in Ids(t) PROVE Sound(t, Node(t, i))
  <2>1. PICK n \in S : n = OldOf(new, i) /\ new[n] = i
    BY <1>1
  <2>2. /\ DOMAIN Args(t, i) = DOMAIN Args(h, n) /\ n \in Ids(h)
        /\ Node(t, i).op = Node(h, n).op /\ Node(t, i).type = Node(h, n).type
        /\ Node(t, i).const = Node(h, n).const /\ Args(t, i) = Renaming(new, Args(h, n))
    BY <2>1, CopyArgs
  <2>3. Sound(h, Node(h, n)) /\ t.consts = h.consts
    BY <2>2 DEF IsGraph, CopyOf
  <2>4. Args(h, n) # <<>> => Args(t, i) # <<>>
    <3>1. Args(h, n) \in Seq(Int)
      BY <2>2, NodeType
    <3>2. Args(h, n) # <<>> => 1 \in DOMAIN Args(t, i)
      BY <2>2, <3>1
    <3> QED BY <3>2
  <2> QED BY <2>2, <2>3, <2>4 DEF Sound, Args
<1>4. IsGraph(t)
  BY <1>2, <1>3 DEF IsGraph, CopyOf
<1>5. q \in [Ids(t) -> 0..b]
  <2>1. \A i \in Ids(t) : r[OldOf(new, i)] \in 0..b
    BY <1>1 DEF Ranks, Closed
  <2> QED BY <2>1
<1> HIDE DEF q
<1>6. Ranks(t, b, q)
  BY <1>2, <1>5 DEF Ranks
<1> QED BY <1>4, <1>6 DEF Acyclic

(* A copy of a node has the term of the node. *)
LEMMA CopyTerms ==
  ASSUME NEW h, Acyclic(h), NEW S, Closed(h, S), NEW new, OneToOne(S, new),
         NEW t, CopyOf(h, S, new, t), NEW n \in S
  PROVE  TermOf(t, new[n]) = TermOf(h, n)
<1>b. PICK b \in Nat : \E r : IsGraph(h) /\ Ranks(h, b, r)
  BY DEF Acyclic
<1>1. PICK r : IsGraph(h) /\ Ranks(h, b, r)
  BY <1>b
<1>2. Acyclic(t)
  BY <1>1, CopyAcyclic
<1> DEFINE T == {k \in Nat : \A m \in S : r[m] < k => TermOf(t, new[m]) = TermOf(h, m)}
<1>3. 0 \in T
  BY <1>1 DEF Ranks, Closed
<1>4. ASSUME NEW k \in Nat, k \in T PROVE k + 1 \in T
  <2> SUFFICES ASSUME NEW m \in S, r[m] < k + 1
               PROVE  TermOf(t, new[m]) = TermOf(h, m)
    OBVIOUS
  <2>1. /\ new[m] \in Ids(t) /\ m \in Ids(h)
        /\ Args(t, new[m]) = Renaming(new, Args(h, m))
        /\ DOMAIN Args(t, new[m]) = DOMAIN Args(h, m)
        /\ \A i \in DOMAIN Args(h, m) :
             Args(t, new[m])[i] = new[Args(h, m)[i]] /\ Args(h, m)[i] \in S
    BY <1>1, CopyArgs
  <2>2. \A i \in DOMAIN Args(h, m) : TermOf(t, Args(t, new[m])[i]) = TermOf(h, Args(h, m)[i])
    <3> TAKE i \in DOMAIN Args(h, m)
    <3>1. Args(h, m)[i] \in S /\ Args(h, m)[i] \in Ids(h) /\ r[Args(h, m)[i]] < r[m]
      BY <1>1, <2>1 DEF Ranks, Closed
    <3>2. r[Args(h, m)[i]] \in Int /\ r[m] \in Int
      BY <1>1, <2>1, <3>1 DEF Ranks
    <3>3. r[Args(h, m)[i]] < k
      BY <3>1, <3>2
    <3> QED BY <1>4, <2>1, <3>1, <3>3
  <2>3. ArgTerms(t, new[m]) = ArgTerms(h, m)
    BY <2>1, <2>2, Zenon DEF ArgTerms
  <2>4. TermOf(t, new[m]) = [Node(t, new[m]) EXCEPT !.args = ArgTerms(h, m)]
    BY <1>2, <2>1, <2>3, TermUnfolds
  <2>5. TermOf(h, m) = [Node(h, m) EXCEPT !.args = ArgTerms(h, m)]
    BY <2>1, TermUnfolds
  <2>6. Node(t, new[m]) = [Node(h, m) EXCEPT !.args = Renaming(new, Args(h, m))]
    BY DEF CopyOf
  <2>7. Node(h, m) \in AnyNode
    BY <1>1, <2>1, NodeType
  <2>8. ASSUME NEW x \in AnyNode, NEW p, NEW q
        PROVE  [[x EXCEPT !.args = p] EXCEPT !.args = q] = [x EXCEPT !.args = q]
    BY <2>8 DEF AnyNode
  <2> QED BY <2>4, <2>5, <2>6, <2>7, <2>8
<1> HIDE DEF T
<1>5. b + 1 \in T
  BY <1>3, <1>4, SetInduction
<1>6. r[n] < b + 1
  BY <1>1 DEF Ranks, Closed
<1> QED BY <1>5, <1>6 DEF T

-----------------------------------------------------------------------------
(* Deepest first: an argument of a node comes before it, unless another    *)
(* node uses it as well.                                                   *)
ArgsComeFirst(t) ==
  \A n \in Ids(t) : \A c \in Range(Args(t, n)) :
    c < n \/ \E p \in Ids(t) \ {n} : c \in Range(Args(t, p))

(* A compact graph has no cycle, the term of its root, and arguments       *)
(* first.                                                                  *)
LEMMA CompactedGraph ==
  ASSUME NEW h, Acyclic(h), NEW top \in Ids(h), NEW v, v = VisitedFrom(Mapping(h), top),
         NEW order \in visitedNodesOrders(v), NEW new, new = visitedLeaveMap(order),
         NEW t, t = compact(h, new)
  PROVE  /\ Acyclic(t) /\ new[top] \in Ids(t)
         /\ TermOf(t, new[top]) = TermOf(h, top)
         /\ ArgsComeFirst(t)
<1> DEFINE S == VisitedNodes(v)
<1>b. PICK b \in Nat : \E r : IsGraph(h) /\ Ranks(h, b, r)
  BY DEF Acyclic
<1>1. PICK r : IsGraph(h) /\ Ranks(h, b, r)
  BY <1>b
<1>2. Reached(h, r, top, v)
  BY <1>1, VisitedReaches
<1>3. IsFiniteSet(Ids(h)) /\ Ids(h) \in SUBSET Nat
  BY <1>1, MostArgsBound DEF Ids
<1>4. v \in [Ids(h) -> Nat]
  BY <1>2 DEF Reached
<1>5. DeepestFirst(v, new)
  <2>1. PICK D \in SUBSET Nat : D = Ids(h)
    BY <1>3
  <2>2. v \in [D -> Nat] /\ IsFiniteSet(D)
    BY <1>3, <1>4, <2>1
  <2> QED BY <2>2, LeaveMapDeepestFirst
<1>6. OneToOne(S, new) /\ \A m, n \in S : v[m] > v[n] => new[m] < new[n]
  BY <1>5 DEF DeepestFirst, OneToOne
<1>7. \A n : n \in S <=> n \in Ids(h) /\ v[n] # 0
  BY <1>4 DEF VisitedNodes
<1> HIDE DEF S
<1>8. Closed(h, S)
  <2>1. ASSUME NEW n \in S, NEW a \in Range(Args(h, n)) PROVE a \in S
    <3>1. a \in Ids(h)
      BY <1>1, <1>7 DEF IsGraph, Range
    <3> QED BY <1>2, <1>7, <3>1 DEF Reached
  <2> QED BY <1>7, <2>1 DEF Closed
<1>9. top \in S
  BY <1>2, <1>7 DEF Reached, NumbersFall
<1>10. CopyOf(h, S, new, t)
  BY <1>1, <1>6, <1>8, CompactCopies
<1>11. Acyclic(t)
  BY <1>1, <1>6, <1>8, <1>10, CopyAcyclic
<1>12. TermOf(t, new[top]) = TermOf(h, top)
  BY <1>6, <1>8, <1>9, <1>10, CopyTerms
<1>13. ASSUME NEW i \in Ids(t), NEW c \in Range(Args(t, i))
       PROVE  c < i \/ \E p \in Ids(t) \ {i} : c \in Range(Args(t, p))
  <2>1. PICK n \in S : new[n] = i
    BY <1>10 DEF CopyOf
  <2>2. PICK k \in DOMAIN Args(h, n) : c = new[Args(h, n)[k]] /\ Args(h, n)[k] \in S
    BY <1>1, <1>6, <1>8, <1>10, <2>1, CopyArgs DEF Range
  <2>3. PICK a \in S : a = Args(h, n)[k]
    BY <2>2
  <2>4. r[a] < r[n] /\ r[a] \in Int /\ r[n] \in Int /\ r[top] \in Int
    BY <1>1, <1>7, <2>2, <2>3 DEF Ranks
  <2>5. a # top
    <3>1. n # top => r[n] < r[top]
      BY <1>2, <1>7 DEF Reached, NumbersFall
    <3> QED BY <2>4, <3>1
  <2>6. PICK p \in Ids(h) : v[p] # 0 /\ a \in Range(Args(h, p)) /\ v[a] = v[p] + 1
    BY <1>2, <1>7, <2>5 DEF Reached, NumbersFall
  <2>7. p \in S /\ v[p] \in Nat
    BY <1>4, <1>7, <2>6
  <2>8. CASE p = n
    <3>1. v[a] > v[n]
      BY <2>6, <2>7, <2>8
    <3> QED BY <1>6, <2>1, <2>2, <2>3, <3>1
  <2>9. CASE p # n
    <3>1. new[p] \in Ids(t) /\ new[p] # i
      BY <1>6, <1>10, <2>1, <2>7, <2>9 DEF OneToOne, CopyOf
    <3>2. PICK j \in DOMAIN Args(h, p) : a = Args(h, p)[j]
      BY <2>6 DEF Range
    <3>3. j \in DOMAIN Args(t, new[p]) /\ Args(t, new[p])[j] = new[a]
      BY <1>1, <1>6, <1>8, <1>10, <2>7, <3>2, CopyArgs
    <3>4. c \in Range(Args(t, new[p]))
      BY <2>2, <2>3, <3>3 DEF Range
    <3> QED BY <3>1, <3>4
  <2> QED BY <2>8, <2>9
<1>14. new[top] \in Ids(t)
  BY <1>9, <1>10 DEF CopyOf
<1> QED BY <1>11, <1>12, <1>13, <1>14 DEF ArgsComeFirst

-----------------------------------------------------------------------------
(* Compaction, as the specification takes it.                              *)
CompactInv == phase = "compact" => Acyclic(g)

LEMMA CompactStep ==
  ASSUME PhaseInv, GraphInv, Compact
  PROVE  /\ phase' = "compact" /\ Acyclic(g') /\ ArgsComeFirst(g')
         /\ TermOf(g', root') = TermOf(before', last'.node)
<1>1. PICK from \in {root, last.result} \ {NODE_NONE} :
        \E order \in visitedNodesOrders(VisitedFrom(Mapping(g), from)) :
          /\ g' = compact(g, visitedLeaveMap(order))
          /\ root' = visitedLeaveMap(order)[from]
          /\ last' = [NoRule EXCEPT !.node = from]
  BY DEF Compact
<1>2. PICK order \in visitedNodesOrders(VisitedFrom(Mapping(g), from)) :
          /\ g' = compact(g, visitedLeaveMap(order))
          /\ root' = visitedLeaveMap(order)[from]
          /\ last' = [NoRule EXCEPT !.node = from]
  BY <1>1
<1>3. phase = "numbered" /\ phase' = "compact" /\ before' = g
  BY DEF Compact
<1>4. Acyclic(g) /\ from \in Ids(g)
  BY <1>3 DEF GraphInv
<1>5. PICK new, t : new = visitedLeaveMap(order) /\ t = compact(g, new)
  OBVIOUS
<1>6. Acyclic(t) /\ TermOf(t, new[from]) = TermOf(g, from) /\ ArgsComeFirst(t)
  BY <1>4, <1>5, CompactedGraph
<1>7. g' = t /\ root' = new[from] /\ last'.node = from
  BY <1>2, <1>5 DEF NoRule
<1> QED BY <1>3, <1>6, <1>7

LEMMA CompactNext ==
  ASSUME PhaseInv, GraphInv, CompactInv, CompactionKeepsTerm, LeavesFirst, [Next]_vars
  PROVE  CompactInv' /\ CompactionKeepsTerm' /\ LeavesFirst'
<1>1. ASSUME phase' # "compact" PROVE CompactInv' /\ CompactionKeepsTerm' /\ LeavesFirst'
  BY <1>1 DEF CompactInv, CompactionKeepsTerm, LeavesFirst
<1>2. CASE Parse
  <2>1. phase' # "compact"
    BY <1>2 DEF Parse
  <2> QED BY <1>1, <2>1
<1>3. CASE NumberDataFrames
  <2>1. phase' # "compact"
    BY <1>3 DEF NumberDataFrames
  <2> QED BY <1>1, <2>1
<1>4. ASSUME NEW rule \in Rules, NEW n \in Ids(g), Rewrite(rule, n)
      PROVE  CompactInv' /\ CompactionKeepsTerm' /\ LeavesFirst'
  <2>1. phase' # "compact"
    BY <1>4 DEF Rewrite
  <2> QED BY <1>1, <2>1
<1>5. CASE Compact
  BY <1>5, CompactStep DEF CompactInv, CompactionKeepsTerm, LeavesFirst, ArgsComeFirst
<1>6. CASE UNCHANGED vars
  <2>1. phase' = phase /\ g' = g /\ root' = root /\ before' = before /\ last' = last
    BY <1>6 DEF vars
  <2> QED BY <2>1 DEF CompactInv, CompactionKeepsTerm, LeavesFirst
<1> QED BY <1>2, <1>3, <1>4, <1>5, <1>6 DEF Next

(* What compaction promises holds at every step of every run. *)
LEMMA CompactInductive ==
  Spec /\ []ParsingOrder => [](CompactInv /\ CompactionKeepsTerm /\ LeavesFirst)
<1>1. Init => PhaseInv /\ GraphInv /\ CompactInv /\ CompactionKeepsTerm /\ LeavesFirst
  BY InvInit DEF Init, CompactInv, CompactionKeepsTerm, LeavesFirst
<1>2. PhaseInv /\ GraphInv /\ CompactInv /\ CompactionKeepsTerm /\ LeavesFirst
        /\ ParsingOrder /\ [Next]_vars
        => (PhaseInv /\ GraphInv /\ CompactInv /\ CompactionKeepsTerm /\ LeavesFirst)'
  BY InvNext, CompactNext
<1> QED BY <1>1, <1>2, PTL DEF Spec

(* Compaction keeps the query (graph.h:405-439, CompactionKeepsTerm): the   *)
(* node that the compacted graph is about has the term of the node it was   *)
(* compacted to, in the graph before: operations, names, constants, types   *)
(* and arguments in their order, however nodes of one depth are sorted.     *)
THEOREM CompactionPreservesTerm == Spec /\ []ParsingOrder => []CompactionKeepsTerm
  BY CompactInductive, PTL

(* visitedLeaveMap numbers the deepest nodes first (graph.h:365-403,        *)
(* LeavesFirst): in a compact graph an argument comes before the node that  *)
(* uses it, unless another node uses it as well.                            *)
THEOREM CompactionPutsLeavesFirst == Spec /\ []ParsingOrder => []LeavesFirst
  BY CompactInductive, PTL

-----------------------------------------------------------------------------
(* Hashes.                                                                 *)
HashOf(h, n, hashes) ==
  <<hashOperationParams(Node(h, n)),
    IF Args(h, n) = <<>> THEN <<>>
    ELSE IF isCummutative(Node(h, n).op) THEN hashChildrenSet(Args(h, n))
    ELSE hashChildrenPositional(Args(h, n), hashes)>>

LEMMA HashesAgree ==
  ASSUME NEW h, NEW n, NEW V, NEW W, \A i \in DOMAIN Args(h, n) : V[Args(h, n)[i]] = W[Args(h, n)[i]]
  PROVE  HashOf(h, n, V) = HashOf(h, n, W)
<1>1. hashChildrenPositional(Args(h, n), V) = hashChildrenPositional(Args(h, n), W)
  <2>1. [i \in DOMAIN Args(h, n) |-> V[Args(h, n)[i]]] = [i \in DOMAIN Args(h, n) |-> W[Args(h, n)[i]]]
    OBVIOUS
  <2> QED BY <2>1, Zenon DEF hashChildrenPositional
<1> QED BY <1>1, Zenon DEF HashOf

(* The loop of fillNodeHashes, node by node in the order of their ids. *)
HashedIs(H, h, k) ==
  H = [j \in 0..k |-> IF j = 0 THEN [n \in Ids(h) |-> <<>>] ELSE NextHash(h, j - 1, H[j - 1])]

LEMMA HashedExists ==
  ASSUME NEW h, NEW k \in Nat
  PROVE  \E H : HashedIs(H, h, k)
<1> DEFINE T == {j \in Nat : \E H : HashedIs(H, h, j)}
<1>1. 0 \in T
  <2> DEFINE H == [j \in 0..0 |-> [n \in Ids(h) |-> <<>>]]
  <2>1. HashedIs(H, h, 0)
    BY DEF HashedIs
  <2> QED BY <2>1
<1>2. ASSUME NEW i \in Nat, i \in T PROVE i + 1 \in T
  <2>1. PICK old : HashedIs(old, h, i)
    BY <1>2
  <2> DEFINE H == [j \in 0..(i + 1) |->
                     IF j = 0 THEN [n \in Ids(h) |-> <<>>] ELSE NextHash(h, j - 1, old[j - 1])]
  <2>2. \A j \in 0..i : H[j] = old[j]
    <3> TAKE j \in 0..i
    <3>1. j \in 0..(i + 1)
      OBVIOUS
    <3> QED BY <2>1, <3>1 DEF HashedIs
  <2>3. \A j \in 0..(i + 1) : j # 0 => H[j - 1] = old[j - 1]
    <3> TAKE j \in 0..(i + 1)
    <3>1. j # 0 => j - 1 \in 0..i
      OBVIOUS
    <3> QED BY <2>2, <3>1
  <2>4. H = [j \in 0..(i + 1) |->
               IF j = 0 THEN [n \in Ids(h) |-> <<>>] ELSE NextHash(h, j - 1, H[j - 1])]
    BY <2>3
  <2> HIDE DEF H
  <2>5. HashedIs(H, h, i + 1)
    BY <2>4 DEF HashedIs
  <2> QED BY <2>5
<1> HIDE DEF T
<1>3. k \in T
  BY <1>1, <1>2, SetInduction
<1> QED BY <1>3 DEF T

(* The loop of fillNodeHashes exists as a function of the step. *)
LEMMA HashesBySteps ==
  ASSUME NEW h, Size(h) \in Nat
  PROVE  \E H : /\ HashedIs(H, h, Size(h))
                /\ fillNodeHashes(h, [i \in 1..Size(h) |-> i - 1]) = H[Size(h)]
<1> DEFINE order == [i \in 1..Size(h) |-> i - 1]
           P(H) == H = [j \in 0..Len(order) |->
                          IF j = 0 THEN [n \in Ids(h) |-> <<>>] ELSE NextHash(h, order[j], H[j - 1])]
<1>1. fillNodeHashes(h, order) = (CHOOSE H : P(H))[Len(order)]
  BY Zenon DEF fillNodeHashes
<1>2. DOMAIN order = 1..Size(h) /\ Len(order) = Size(h) /\ \A j \in 1..Size(h) : order[j] = j - 1
  OBVIOUS
<1> HIDE DEF order
<1>3. ASSUME NEW H PROVE P(H) <=> HashedIs(H, h, Size(h))
  <2>1. \A j \in 0..Size(h) : j # 0 => order[j] = j - 1
    BY <1>2
  <2>2. [j \in 0..Size(h) |-> IF j = 0 THEN [n \in Ids(h) |-> <<>>] ELSE NextHash(h, order[j], H[j - 1])]
          = [j \in 0..Size(h) |-> IF j = 0 THEN [n \in Ids(h) |-> <<>>] ELSE NextHash(h, j - 1, H[j - 1])]
    BY <2>1
  <2> QED BY <1>2, <2>2, Zenon DEF HashedIs
<1> HIDE DEF P
<1>4. \E H : P(H)
  BY <1>3, HashedExists
<1>5. P(CHOOSE H : P(H))
  BY <1>4
<1>6. HashedIs(CHOOSE H : P(H), h, Size(h))
  BY <1>3, <1>5
<1> QED BY <1>1, <1>2, <1>6 DEF order

(* Every node's hash is made from those of its arguments, where they come  *)
(* first.                                                                  *)
LEMMA HashUnfolds ==
  ASSUME NEW h, IsGraph(h), \A n \in Ids(h) : \A c \in Range(Args(h, n)) : c < n,
         NEW hashes, hashes = fillNodeHashes(h, [i \in 1..Size(h) |-> i - 1])
  PROVE  \A n \in Ids(h) : hashes[n] = HashOf(h, n, hashes)
<1> DEFINE N == Size(h)
<1>0. N \in Nat /\ Ids(h) = 0..(N - 1)
  BY MostArgsBound DEF Ids
<1>1. PICK H : HashedIs(H, h, N) /\ hashes = H[N]
  BY <1>0, HashesBySteps
<1>2. \A n \in Ids(h) : \A i \in DOMAIN Args(h, n) : Args(h, n)[i] \in Ids(h) /\ Args(h, n)[i] < n
  BY DEF IsGraph, Range
<1> DEFINE Done(k) == /\ DOMAIN H[k] = Ids(h)
                      /\ \A n \in 0..(k - 1) : H[k][n] = HashOf(h, n, H[k])
           T == {k \in Nat : k <= N => Done(k)}
<1>3. 0 \in T
  <2>1. H[0] = [n \in Ids(h) |-> <<>>]
    BY <1>0, <1>1 DEF HashedIs
  <2> QED BY <2>1
<1>4. ASSUME NEW k \in Nat, k \in T PROVE k + 1 \in T
  <2> SUFFICES ASSUME k + 1 <= N PROVE Done(k + 1)
    OBVIOUS
  <2>1. Done(k)
    BY <1>0, <1>4
  <2>2. H[k + 1] = NextHash(h, k, H[k])
    <3>1. PICK j \in 0..N : j = k + 1 /\ j # 0 /\ j - 1 = k
      BY <1>0
    <3>2. H[j] = NextHash(h, j - 1, H[j - 1])
      BY <1>1, <3>1 DEF HashedIs
    <3> QED BY <3>1, <3>2
  <2>3. PICK V, W : V = H[k] /\ W = H[k + 1]
    OBVIOUS
  <2>4. W = [V EXCEPT ![k] = HashOf(h, k, V)]
    BY <2>2, <2>3, Zenon DEF NextHash, HashOf
  <2>5. k \in Ids(h) /\ DOMAIN V = Ids(h) /\ \A n \in 0..(k - 1) : n \in Ids(h) /\ V[n] = HashOf(h, n, V)
    BY <1>0, <2>1, <2>3
  <2>6. DOMAIN W = Ids(h) /\ W[k] = HashOf(h, k, V) /\ \A n \in Ids(h) : n < k => W[n] = V[n]
    BY <1>0, <2>4, <2>5
  <2>7. ASSUME NEW n \in 0..k PROVE W[n] = HashOf(h, n, W)
    <3>1. \A i \in DOMAIN Args(h, n) : V[Args(h, n)[i]] = W[Args(h, n)[i]]
      <4> TAKE i \in DOMAIN Args(h, n)
      <4>1. n \in Ids(h) /\ Args(h, n)[i] \in Ids(h) /\ Args(h, n)[i] < k
        BY <1>0, <1>2, <2>5
      <4> QED BY <2>6, <4>1
    <3>2. HashOf(h, n, V) = HashOf(h, n, W)
      BY <3>1, HashesAgree
    <3>3. CASE n = k
      BY <2>6, <3>2, <3>3
    <3>4. CASE n # k
      <4>1. n \in 0..(k - 1) /\ n < k /\ n \in Ids(h)
        BY <2>5, <3>4
      <4> QED BY <2>5, <2>6, <3>2, <4>1
    <3> QED BY <3>3, <3>4
  <2>8. (k + 1) - 1 = k
    OBVIOUS
  <2> QED BY <2>3, <2>6, <2>7, <2>8
<1> HIDE DEF T, Done
<1>5. N \in T
  BY <1>0, <1>3, <1>4, SetInduction
<1>6. Done(N)
  BY <1>0, <1>5 DEF T
<1> QED BY <1>0, <1>1, <1>6 DEF Done

(* Nodes with the same term have the same parameters, and arguments with   *)
(* the same terms.                                                         *)
LEMMA SameTerms ==
  ASSUME NEW h, Acyclic(h), NEW m \in Ids(h), NEW n \in Ids(h), TermOf(h, m) = TermOf(h, n)
  PROVE  /\ Node(h, m).op = Node(h, n).op /\ Node(h, m).name = Node(h, n).name
         /\ Node(h, m).const = Node(h, n).const /\ Node(h, m).df = Node(h, n).df
         /\ Node(h, m).type = Node(h, n).type
         /\ Len(Args(h, m)) = Len(Args(h, n)) /\ DOMAIN Args(h, m) = DOMAIN Args(h, n)
         /\ (Args(h, m) = <<>> <=> Args(h, n) = <<>>)
         /\ \A i \in DOMAIN Args(h, m) : TermOf(h, Args(h, m)[i]) = TermOf(h, Args(h, n)[i])
<1>1. IsGraph(h)
  BY DEF Acyclic
<1>2. /\ Node(h, m) \in AnyNode /\ Node(h, n) \in AnyNode
      /\ Args(h, m) \in Seq(Int) /\ Args(h, n) \in Seq(Int)
  BY <1>1, NodeType
<1>3. [Node(h, m) EXCEPT !.args = ArgTerms(h, m)] = [Node(h, n) EXCEPT !.args = ArgTerms(h, n)]
  BY TermUnfolds
<1>5. /\ Node(h, m).op = Node(h, n).op /\ Node(h, m).name = Node(h, n).name
      /\ Node(h, m).const = Node(h, n).const /\ Node(h, m).df = Node(h, n).df
      /\ Node(h, m).type = Node(h, n).type /\ ArgTerms(h, m) = ArgTerms(h, n)
  <2>0. PICK p, q : p = ArgTerms(h, m) /\ q = ArgTerms(h, n)
    OBVIOUS
  <2>1. PICK x \in AnyNode, y \in AnyNode : x = Node(h, m) /\ y = Node(h, n)
    BY <1>2
  <2>2. [x EXCEPT !.args = p] = [y EXCEPT !.args = q]
    BY <1>3, <2>0, <2>1, Zenon
  <2>3. PICK u, w : u = [x EXCEPT !.args = p] /\ w = [y EXCEPT !.args = q] /\ u = w
    BY <2>2, Zenon
  <2>4. u.op = x.op /\ u.name = x.name /\ u.const = x.const /\ u.df = x.df /\ u.type = x.type /\ u.args = p
    BY <2>3, Zenon DEF AnyNode
  <2>5. w.op = y.op /\ w.name = y.name /\ w.const = y.const /\ w.df = y.df /\ w.type = y.type /\ w.args = q
    BY <2>3, Zenon DEF AnyNode
  <2> HIDE <2>2
  <2>6. x.op = y.op /\ x.name = y.name /\ x.const = y.const /\ x.df = y.df /\ x.type = y.type /\ p = q
    BY <2>3, <2>4, <2>5, Zenon
  <2> QED BY <2>0, <2>1, <2>6
<1>6. /\ DOMAIN Args(h, m) = DOMAIN Args(h, n)
      /\ \A i \in DOMAIN Args(h, m) : TermOf(h, Args(h, m)[i]) = TermOf(h, Args(h, n)[i])
  BY <1>5 DEF ArgTerms
<1>7. Len(Args(h, m)) = Len(Args(h, n)) /\ (Args(h, m) = <<>> <=> Args(h, n) = <<>>)
  <2>1. ASSUME NEW s \in Seq(Int), NEW t \in Seq(Int), DOMAIN s = DOMAIN t
        PROVE  Len(s) = Len(t) /\ (s = <<>> <=> t = <<>>)
    <3>1. Len(s) = Len(t)
      BY <2>1, LenProperties
    <3> QED BY <3>1
  <2> QED BY <1>2, <1>6, <2>1
<1> QED BY <1>5, <1>6, <1>7

(* Equal terms hash equally, by induction over the ids. *)
LEMMA EqualHashes ==
  ASSUME NEW h, Acyclic(h), \A n \in Ids(h) : \A c \in Range(Args(h, n)) : c < n,
         NEW hashes, hashes = fillNodeHashes(h, [i \in 1..Size(h) |-> i - 1]),
         NEW p \in Ids(h), NEW q \in Ids(h), TermOf(h, p) = TermOf(h, q)
  PROVE  hashes[p] = hashes[q]
<1>0. IsGraph(h) /\ Ids(h) \subseteq Nat
  BY DEF Acyclic, Ids
<1>1. \A n \in Ids(h) : hashes[n] = HashOf(h, n, hashes)
  BY <1>0, HashUnfolds
<1> DEFINE T == {k \in Nat : \A m, n \in Ids(h) :
                   n < k /\ TermOf(h, m) = TermOf(h, n) => hashes[m] = hashes[n]}
<1>2. 0 \in T
  BY <1>0
<1>3. ASSUME NEW k \in Nat, k \in T PROVE k + 1 \in T
  <2> SUFFICES ASSUME NEW m \in Ids(h), NEW n \in Ids(h), n < k + 1, TermOf(h, m) = TermOf(h, n)
               PROVE  hashes[m] = hashes[n]
    OBVIOUS
  <2>1. /\ Node(h, m).op = Node(h, n).op /\ Node(h, m).name = Node(h, n).name
        /\ Node(h, m).const = Node(h, n).const /\ Node(h, m).df = Node(h, n).df
        /\ Node(h, m).type = Node(h, n).type
        /\ Len(Args(h, m)) = Len(Args(h, n)) /\ DOMAIN Args(h, m) = DOMAIN Args(h, n)
        /\ (Args(h, m) = <<>> <=> Args(h, n) = <<>>)
        /\ \A i \in DOMAIN Args(h, m) : TermOf(h, Args(h, m)[i]) = TermOf(h, Args(h, n)[i])
    BY SameTerms
  <2>2. \A i \in DOMAIN Args(h, m) : hashes[Args(h, m)[i]] = hashes[Args(h, n)[i]]
    <3> TAKE i \in DOMAIN Args(h, m)
    <3>1. Args(h, m)[i] \in Ids(h) /\ Args(h, n)[i] \in Ids(h) /\ Args(h, n)[i] < n
      BY <1>0, <2>1 DEF IsGraph, Range
    <3>2. Args(h, n)[i] < k
      BY <1>0, <3>1
    <3> QED BY <1>3, <2>1, <3>1, <3>2
  <2>3. hashOperationParams(Node(h, m)) = hashOperationParams(Node(h, n))
    BY <2>1, Zenon DEF hashOperationParams
  <2>4. hashChildrenSet(Args(h, m)) = hashChildrenSet(Args(h, n))
    BY <2>1, Zenon DEF hashChildrenSet
  <2>5. hashChildrenPositional(Args(h, m), hashes) = hashChildrenPositional(Args(h, n), hashes)
    <3>1. [i \in DOMAIN Args(h, m) |-> hashes[Args(h, m)[i]]] = [i \in DOMAIN Args(h, n) |-> hashes[Args(h, n)[i]]]
      BY <2>1, <2>2
    <3> QED BY <3>1, Zenon DEF hashChildrenPositional
  <2>6. HashOf(h, m, hashes) = HashOf(h, n, hashes)
    BY <2>1, <2>3, <2>4, <2>5, Zenon DEF HashOf
  <2> QED BY <1>1, <2>6
<1> HIDE DEF T
<1>4. PICK k \in Nat : k = q + 1
  BY <1>0
<1>5. k \in T /\ q < k
  BY <1>0, <1>2, <1>3, <1>4, SetInduction
<1> QED BY <1>5 DEF T

LEMMA CompactHashes == CompactInv => EqualTermsHashEqually
<1> SUFFICES ASSUME CompactInv, phase = "compact",
                    \A n \in Ids(g) : \A c \in Range(Args(g, n)) : c < n,
                    NEW m \in Ids(g), NEW n \in Ids(g), TermOf(g, m) = TermOf(g, n)
             PROVE  fillNodeHashes(g, [i \in 1..Size(g) |-> i - 1])[m]
                      = fillNodeHashes(g, [i \in 1..Size(g) |-> i - 1])[n]
  BY Zenon DEF EqualTermsHashEqually
<1>1. Acyclic(g)
  BY DEF CompactInv
<1>2. PICK hashes : hashes = fillNodeHashes(g, [i \in 1..Size(g) |-> i - 1])
  OBVIOUS
<1>3. hashes[m] = hashes[n]
  BY <1>1, <1>2, EqualHashes
<1> QED BY <1>2, <1>3

(* fillNodeHashes finds equal subexpressions (graph.h:471-526,              *)
(* EqualTermsHashEqually): in a compact graph hashed arguments first, two   *)
(* nodes with the same term have the same hash.                             *)
THEOREM EqualTermsShareHash == Spec /\ []ParsingOrder => []EqualTermsHashEqually
  BY CompactInductive, CompactHashes, PTL

-----------------------------------------------------------------------------
(* Edge lists.                                                             *)
LEMMA SeqInduction ==
  ASSUME NEW C, NEW T, <<>> \in T, \A s \in Seq(C) : \A x \in C : s \in T => Append(s, x) \in T
  PROVE  \A s \in Seq(C) : s \in T
<1> DEFINE U == {n \in Nat : \A s \in Seq(C) : Len(s) = n => s \in T}
<1>1. 0 \in U
  <2>1. \A s \in Seq(C) : Len(s) = 0 => s = <<>>
    OBVIOUS
  <2> QED BY <2>1
<1>2. ASSUME NEW n \in Nat, n \in U PROVE n + 1 \in U
  <2> SUFFICES ASSUME NEW s \in Seq(C), Len(s) = n + 1 PROVE s \in T
    OBVIOUS
  <2>1. PICK t \in Seq(C), x \in C : s = Append(t, x) /\ Len(t) = n
    <3> DEFINE t == SubSeq(s, 1, n)
    <3>1. t \in Seq(C) /\ Len(t) = n /\ \A i \in 1..n : t[i] = s[i]
      OBVIOUS
    <3>2. s[n + 1] \in C
      OBVIOUS
    <3> HIDE DEF t
    <3>3. s = Append(t, s[n + 1])
      <4>1. Append(t, s[n + 1]) \in Seq(C) /\ Len(Append(t, s[n + 1])) = Len(s)
        BY <3>1, <3>2
      <4>2. \A i \in 1..Len(s) : Append(t, s[n + 1])[i] = s[i]
        BY <3>1, <3>2
      <4> QED BY <4>1, <4>2, SeqEqual
    <3> QED BY <3>1, <3>2, <3>3
  <2>2. t \in T
    BY <1>2, <2>1
  <2> QED BY <2>1, <2>2
<1> HIDE DEF U
<1>3. \A n \in Nat : n \in U
  BY <1>1, <1>2, SetInduction
<1> QED BY <1>3 DEF U

(* push_back, pair by pair. *)
LEMMA PushedIsFold ==
  ASSUME NEW V, NEW s
  PROVE  Pushed(V, s) = Folded(PushBack(V), [v \in V |-> <<>>], s)
  BY Zenon DEF Pushed, Folded

LEMMA PushedNothing ==
  ASSUME NEW V
  PROVE  Pushed(V, <<>>) = [v \in V |-> <<>>]
<1>1. PICK f, base : f = PushBack(V) /\ base = [v \in V |-> <<>>]
  OBVIOUS
<1>2. Folded(f, base, <<>>) = base
  BY FoldedEmpty
<1> QED BY <1>1, <1>2, PushedIsFold

PushesOne(V, s, e) ==
  Pushed(V, Append(s, e)) = [Pushed(V, s) EXCEPT ![e[1]] = Append(Pushed(V, s)[e[1]], e[2])]

(* One more pair is one more push_back. *)
LEMMA PushedAppended ==
  ASSUME NEW V, NEW s \in Seq(V \X V), NEW e \in V \X V, Pushed(V, s) \in [V -> Seq(V)]
  PROVE  PushesOne(V, s, e)
<1>0. PICK a \in V, b \in V : e = <<a, b>> /\ e[1] = a /\ e[2] = b
  OBVIOUS
<1>1. PICK f, base : f = PushBack(V) /\ base = [v \in V |-> <<>>]
  OBVIOUS
<1>2. PICK C : C = V \X V
  OBVIOUS
<1>3. PICK p \in C : p = e
  BY <1>2
<1>4. Folded(f, base, Append(s, p)) = f[<<Folded(f, base, s), p>>]
  BY <1>2, FoldedAppend
<1>5. PICK q \in [V -> Seq(V)] : q = Pushed(V, s)
  OBVIOUS
<1>6. q = Folded(f, base, s)
  BY <1>1, <1>5, PushedIsFold
<1>7. PushBack(V)[<<q, p>>] = [q EXCEPT ![a] = Append(q[a], b)]
  <2>1. <<q, p>> \in [V -> Seq(V)] \X (V \X V)
    BY <1>2
  <2>2. PushBack(V)[<<q, p>>] =
          [<<q, p>>[1] EXCEPT ![<<q, p>>[2][1]] = Append(<<q, p>>[1][<<q, p>>[2][1]], <<q, p>>[2][2])]
    BY <2>1, Zenon DEF PushBack
  <2>3. <<q, p>>[1] = q /\ <<q, p>>[2][1] = a /\ <<q, p>>[2][2] = b
    BY <1>0, <1>3
  <2> QED BY <2>2, <2>3
<1>8. Pushed(V, Append(s, p)) = Folded(f, base, Append(s, p))
  BY <1>1, PushedIsFold
<1>9. Pushed(V, Append(s, e)) = [q EXCEPT ![a] = Append(q[a], b)]
  BY <1>1, <1>3, <1>4, <1>6, <1>7, <1>8, Zenon
<1> QED BY <1>0, <1>5, <1>9, Zenon DEF PushesOne

LEMMA PushedType ==
  ASSUME NEW V, NEW s \in Seq(V \X V)
  PROVE  Pushed(V, s) \in [V -> Seq(V)]
<1> DEFINE C == V \X V
           T == {t \in Seq(C) : Pushed(V, t) \in [V -> Seq(V)]}
<1>1. <<>> \in T
  <2>1. <<>> \in Seq(C) /\ \A v \in V : <<>> \in Seq(V)
    OBVIOUS
  <2>2. [v \in V |-> <<>>] \in [V -> Seq(V)]
    BY <2>1
  <2> QED BY <2>1, <2>2, PushedNothing
<1>2. ASSUME NEW t \in Seq(C), NEW x \in C, t \in T
      PROVE  Append(t, x) \in T
  <2>1. PICK a \in V, b \in V : x = <<a, b>>
    OBVIOUS
  <2>2. PICK q \in [V -> Seq(V)] : q = Pushed(V, t)
    BY <1>2
  <2>3. Pushed(V, Append(t, x)) = [q EXCEPT ![a] = Append(q[a], b)]
    <3>1. PushesOne(V, t, x)
      BY <2>2, PushedAppended
    <3>2. x[1] = a /\ x[2] = b
      BY <2>1
    <3> QED BY <2>2, <3>1, <3>2, Zenon DEF PushesOne
  <2>4. Append(q[a], b) \in Seq(V)
    BY <2>2
  <2>5. [q EXCEPT ![a] = Append(q[a], b)] \in [V -> Seq(V)]
    BY <2>4
  <2>6. Append(t, x) \in Seq(C)
    <3> HIDE DEF C
    <3> QED OBVIOUS
  <2> QED BY <2>3, <2>5, <2>6
<1>3. s \in Seq(C)
  OBVIOUS
<1> HIDE DEF T, C
<1>4. \A t \in Seq(C) : t \in T
  BY <1>1, <1>2, SeqInduction
<1>5. s \in T
  BY <1>3, <1>4
<1> QED BY <1>5 DEF T

AppendsLast(s, t, x) == Append(s \o t, x) = s \o Append(t, x)

LEMMA ConcatAppend ==
  ASSUME NEW C, NEW s \in Seq(C), NEW t \in Seq(C), NEW x \in C
  PROVE  AppendsLast(s, t, x)
  BY DEF AppendsLast

LEMMA PairOf ==
  ASSUME NEW V, NEW a \in V, NEW b \in V
  PROVE  \E e \in V \X V : e = <<a, b>> /\ e[1] = a /\ e[2] = b
<1>1. <<a, b>> \in V \X V /\ <<a, b>>[1] = a /\ <<a, b>>[2] = b
  OBVIOUS
<1> QED BY <1>1, Zenon

(* The edges of one node. *)
RowOf(a, args) == [k \in DOMAIN args |-> <<a, args[k]>>]

PushesRow(V, s, a, args) ==
  Pushed(V, s \o RowOf(a, args)) = [Pushed(V, s) EXCEPT ![a] = Pushed(V, s)[a] \o args]

(* A node's row of edges, pushed, is appended to its list. *)
LEMMA PushedRow ==
  ASSUME NEW V, NEW s \in Seq(V \X V), NEW a \in V, NEW args \in Seq(V)
  PROVE  PushesRow(V, s, a, args)
<1> DEFINE C == V \X V
           P == Pushed(V, s)
           T == {t \in Seq(V) : /\ s \o RowOf(a, t) \in Seq(C)
                                /\ Pushed(V, s \o RowOf(a, t)) = [P EXCEPT ![a] = P[a] \o t]}
<1>1. P \in [V -> Seq(V)] /\ P[a] \in Seq(V)
  BY PushedType
<1>2. <<>> \in T
  <2>1. RowOf(a, <<>>) = <<>>
    BY DEF RowOf
  <2>2. s \o <<>> = s
    OBVIOUS
  <2>3. P[a] \o <<>> = P[a]
    BY <1>1
  <2>4. [P EXCEPT ![a] = P[a]] = P
    BY <1>1
  <2>5. s \in Seq(C) /\ <<>> \in Seq(V)
    OBVIOUS
  <2>6. Pushed(V, s \o RowOf(a, <<>>)) = [P EXCEPT ![a] = P[a] \o <<>>]
    BY <2>1, <2>2, <2>3, <2>4, Zenon
  <2>7. s \o RowOf(a, <<>>) \in Seq(C)
    BY <2>1, <2>2, <2>5, Zenon
  <2> QED BY <2>5, <2>6, <2>7, Zenon
<1>3. ASSUME NEW t \in Seq(V), NEW x \in V, t \in T
      PROVE  Append(t, x) \in T
  <2>1. PICK u \in Seq(C) : u = s \o RowOf(a, t)
    BY <1>3
  <2>2. s \o RowOf(a, Append(t, x)) = Append(u, <<a, x>>)
    <3>1. RowOf(a, t) \in Seq(C) /\ Len(RowOf(a, t)) = Len(t)
      <4>1. PICK l \in Nat : l = Len(t) /\ DOMAIN t = 1..l
        OBVIOUS
      <4>2. RowOf(a, t) \in [1..l -> C]
        BY <4>1 DEF RowOf
      <4> HIDE DEF C
      <4>3. DOMAIN RowOf(a, t) = 1..l
        BY <4>1 DEF RowOf
      <4>4. RowOf(a, t) \in Seq(C)
        BY <4>2, SeqDef
      <4> QED BY <4>1, <4>3, <4>4
    <3>2. RowOf(a, Append(t, x)) = Append(RowOf(a, t), <<a, x>>)
      <4>1. Append(t, x) \in Seq(V) /\ DOMAIN Append(t, x) = 1..(Len(t) + 1) /\ DOMAIN t = 1..Len(t)
            /\ Append(t, x)[Len(t) + 1] = x /\ \A i \in 1..Len(t) : Append(t, x)[i] = t[i]
        OBVIOUS
      <4> DEFINE y == RowOf(a, Append(t, x))
                 z == Append(RowOf(a, t), <<a, x>>)
      <4>2. DOMAIN y = 1..(Len(t) + 1) /\ y[Len(t) + 1] = <<a, x>> /\ \A i \in 1..Len(t) : y[i] = <<a, t[i]>>
        BY <4>1 DEF RowOf
      <4>3. DOMAIN z = 1..(Len(t) + 1) /\ z[Len(t) + 1] = <<a, x>> /\ \A i \in 1..Len(t) : z[i] = RowOf(a, t)[i]
        BY <3>1
      <4>4. \A i \in 1..Len(t) : RowOf(a, t)[i] = <<a, t[i]>>
        BY <4>1 DEF RowOf
      <4>5. y = [i \in DOMAIN y |-> y[i]] /\ z = [i \in DOMAIN z |-> z[i]]
        BY DEF RowOf
      <4> HIDE DEF y, z
      <4>6. \A i \in 1..(Len(t) + 1) : y[i] = z[i]
        <5> TAKE i \in 1..(Len(t) + 1)
        <5>1. i = Len(t) + 1 \/ i \in 1..Len(t)
          OBVIOUS
        <5> QED BY <4>2, <4>3, <4>4, <5>1
      <4>7. y = z
        BY <4>2, <4>3, <4>5, <4>6
      <4> QED BY <4>7 DEF y, z
    <3>3. <<a, x>> \in C
      OBVIOUS
    <3> HIDE DEF C
    <3>4. PICK r \in Seq(C), e \in C : r = RowOf(a, t) /\ e = <<a, x>>
      BY <3>1, <3>3
    <3>5. s \in Seq(C)
      BY DEF C
    <3>6. s \o Append(r, e) = Append(s \o r, e)
      BY <3>5
    <3> QED BY <2>1, <3>2, <3>4, <3>6
  <2>3. Append(u, <<a, x>>) \in Seq(C)
    BY <2>1
  <2>4. Pushed(V, u) = [P EXCEPT ![a] = P[a] \o t] /\ Pushed(V, u) \in [V -> Seq(V)]
    BY <1>3, <2>1, PushedType
  <2>5. Pushed(V, Append(u, <<a, x>>)) = [Pushed(V, u) EXCEPT ![a] = Append(@, x)]
    <3>1. PICK e \in C : e = <<a, x>> /\ e[1] = a /\ e[2] = x
      BY PairOf
    <3>2. PushesOne(V, u, e)
      BY <2>4, PushedAppended
    <3> QED BY <3>1, <3>2, Zenon DEF PushesOne
  <2>6. Append(P[a] \o t, x) = P[a] \o Append(t, x)
    <3>1. PICK p \in Seq(V) : p = P[a]
      BY <1>1
    <3>2. AppendsLast(p, t, x)
      BY ConcatAppend
    <3> QED BY <3>1, <3>2, Zenon DEF AppendsLast
  <2>7. Pushed(V, Append(u, <<a, x>>)) = [P EXCEPT ![a] = P[a] \o Append(t, x)]
    <3>1. PICK p, q : p = P[a] \o t /\ q = P[a] \o Append(t, x) /\ q = Append(p, x)
      BY <2>6
    <3> HIDE DEF P
    <3>2. [[P EXCEPT ![a] = p] EXCEPT ![a] = Append(p, x)] = [P EXCEPT ![a] = q]
      BY <1>1, <3>1
    <3>3. [P EXCEPT ![a] = p][a] = p
      BY <1>1
    <3> QED BY <2>4, <2>5, <3>1, <3>2, <3>3
  <2>8. Append(t, x) \in Seq(V)
    OBVIOUS
  <2> QED BY <2>2, <2>3, <2>7, <2>8
<1> HIDE DEF T
<1>4. \A t \in Seq(V) : t \in T
  BY <1>2, <1>3, SeqInduction
<1>5. args \in T
  BY <1>4
<1> QED BY <1>5, Zenon DEF T, PushesRow

-----------------------------------------------------------------------------
(* The sequences of `s` joined from the left, from none to all of them. *)
Stages(G, s, C) ==
  /\ G[0] = <<>> /\ G[Len(s)] = FlattenSeq(s)
  /\ \A i \in 0..Len(s) : G[i] \in Seq(C)
  /\ \A i \in 1..Len(s) : s[i] \in Seq(C) /\ G[i] = G[i - 1] \o s[i]

(* A joined sequence is made slice by slice. *)
LEMMA FlattenStages ==
  ASSUME NEW C, NEW s \in Seq(Seq(C))
  PROVE  \E G : Stages(G, s, C)
<1>0. Len(s) \in Nat /\ <<>> \in Seq(C)
  OBVIOUS
<1>1. CASE s = <<>>
  <2> DEFINE G == [i \in 0..0 |-> <<>>]
  <2>1. Len(s) = 0 /\ FlattenSeq(s) = <<>>
    BY <1>1, FlattenNothing
  <2>2. G[0] = <<>> /\ \A i \in 0..0 : G[i] = <<>>
    OBVIOUS
  <2> HIDE DEF G
  <2>3. Stages(G, s, C)
    <3>1. 1..Len(s) = {} /\ 0..Len(s) = 0..0
      BY <2>1
    <3>2. \A i \in 0..Len(s) : G[i] \in Seq(C)
      BY <1>0, <2>2, <3>1
    <3>3. G[0] = <<>> /\ G[Len(s)] = FlattenSeq(s)
      BY <2>1, <2>2
    <3> QED BY <3>1, <3>2, <3>3, Zenon DEF Stages
  <2> QED BY <2>3
<1>2. CASE s # <<>>
  <2>1. PICK f : Joined(f, s, C)
    BY <1>2, FlattenIs
  <2>2. /\ FlattenSeq(s) = f[Len(s)] /\ f[1] = s[1] /\ Len(s) \in 1..Len(s)
        /\ \A i \in 1..Len(s) : f[i] \in Seq(C) /\ s[i] \in Seq(C)
        /\ \A i \in 1..Len(s) : i # 1 => f[i] = f[i - 1] \o s[i]
    <3>1. Len(s) \in 1..Len(s)
      BY <1>2
    <3> QED BY <2>1, <3>1 DEF Joined
  <2> DEFINE G == [i \in 0..Len(s) |-> IF i = 0 THEN <<>> ELSE f[i]]
  <2>3. G[0] = <<>> /\ \A i \in 1..Len(s) : G[i] = f[i]
    BY <1>0
  <2> HIDE DEF G
  <2>4. \A i \in 0..Len(s) : G[i] \in Seq(C)
    <3> TAKE i \in 0..Len(s)
    <3>1. i = 0 \/ i \in 1..Len(s)
      BY <1>0
    <3> QED BY <1>0, <2>2, <2>3, <3>1
  <2>5. ASSUME NEW i \in 1..Len(s) PROVE G[i] = G[i - 1] \o s[i]
    <3>1. CASE i = 1
      <4>1. PICK x \in Seq(C) : x = s[1]
        BY <2>2, <3>1
      <4>2. <<>> \o x = x
        OBVIOUS
      <4>3. G[1] = x /\ G[0] = <<>>
        BY <2>2, <2>3, <3>1, <4>1
      <4>4. G[1] = G[0] \o s[1]
        BY <4>1, <4>2, <4>3, Zenon
      <4> QED BY <3>1, <4>4
    <3>2. CASE i # 1
      <4>1. i - 1 \in 1..Len(s)
        BY <1>0, <3>2
      <4> QED BY <2>2, <2>3, <3>2, <4>1
    <3> QED BY <3>1, <3>2
  <2>6. Stages(G, s, C)
    BY <2>2, <2>3, <2>4, <2>5 DEF Stages
  <2> QED BY <2>6
<1> QED BY <1>1, <1>2

LEMMA ConcatRange ==
  ASSUME NEW C, NEW s \in Seq(C), NEW t \in Seq(C)
  PROVE  Range(s) \subseteq Range(s \o t) /\ Range(t) \subseteq Range(s \o t)
<1>1. /\ s \o t \in Seq(C) /\ Len(s \o t) = Len(s) + Len(t) /\ Len(s) \in Nat /\ Len(t) \in Nat
      /\ DOMAIN s = 1..Len(s) /\ DOMAIN t = 1..Len(t) /\ DOMAIN (s \o t) = 1..Len(s \o t)
      /\ \A i \in 1..Len(s) : (s \o t)[i] = s[i]
      /\ \A i \in 1..Len(t) : (s \o t)[Len(s) + i] = t[i]
  OBVIOUS
<1>2. PICK u : u = s \o t
  OBVIOUS
<1>3. ASSUME NEW i \in 1..Len(t) PROVE t[i] \in Range(u)
  <2>1. Len(s) + i \in 1..Len(u) /\ u[Len(s) + i] = t[i]
    BY <1>1, <1>2
  <2> QED BY <1>1, <1>2, <2>1 DEF Range
<1>4. ASSUME NEW i \in 1..Len(s) PROVE s[i] \in Range(u)
  <2>1. i \in 1..Len(u) /\ u[i] = s[i]
    BY <1>1, <1>2
  <2> QED BY <1>1, <1>2, <2>1 DEF Range
<1>5. Range(s) \subseteq Range(u) /\ Range(t) \subseteq Range(u)
  BY <1>1, <1>3, <1>4 DEF Range
<1> QED BY <1>2, <1>5

(* Whatever is in one of them is in the joined sequence. *)
LEMMA FlattenContains ==
  ASSUME NEW C, NEW s \in Seq(Seq(C)), NEW j \in 1..Len(s)
  PROVE  Range(s[j]) \subseteq Range(FlattenSeq(s))
<1>0. Len(s) \in Nat /\ j \in Nat
  OBVIOUS
<1>1. PICK G : Stages(G, s, C)
  BY FlattenStages
<1> DEFINE U == {i \in Nat : i \in j..Len(s) => Range(s[j]) \subseteq Range(G[i])}
<1>2. 0 \in U
  OBVIOUS
<1>3. ASSUME NEW i \in Nat, i \in U PROVE i + 1 \in U
  <2> SUFFICES ASSUME i + 1 \in j..Len(s) PROVE Range(s[j]) \subseteq Range(G[i + 1])
    OBVIOUS
  <2>1. PICK k \in 1..Len(s) : k = i + 1 /\ k - 1 = i /\ k - 1 \in 0..Len(s)
    BY <1>0
  <2>2. G[k] = G[k - 1] \o s[k] /\ G[k - 1] \in Seq(C) /\ s[k] \in Seq(C)
    BY <1>1, <2>1 DEF Stages
  <2>3. PICK x \in Seq(C), y \in Seq(C) : x = G[k - 1] /\ y = s[k]
    BY <2>2
  <2>4. Range(x) \subseteq Range(x \o y) /\ Range(y) \subseteq Range(x \o y)
    BY ConcatRange
  <2>5. CASE k = j
    BY <2>1, <2>2, <2>3, <2>4, <2>5
  <2>6. CASE k # j
    <3>1. i \in j..Len(s)
      BY <1>0, <2>1, <2>6
    <3>2. Range(s[j]) \subseteq Range(G[i])
      BY <1>3, <3>1
    <3> QED BY <2>1, <2>2, <2>3, <2>4, <3>2
  <2> QED BY <2>5, <2>6
<1> HIDE DEF U
<1>4. Len(s) \in U
  BY <1>0, <1>2, <1>3, SetInduction
<1>5. Range(s[j]) \subseteq Range(G[Len(s)])
  BY <1>0, <1>4 DEF U
<1> QED BY <1>1, <1>5 DEF Stages

-----------------------------------------------------------------------------
(* The rows of an edge list, one for each node.                            *)
RowsOf(h) == [i \in 1..Size(h) |-> RowOf(i - 1, Args(h, i - 1))]

(* getEdgesList joins the nodes' rows. *)
LEMMA EdgesAreRows ==
  ASSUME NEW h, IsGraph(h)
  PROVE  getEdgesList(Mapping(h)) = FlattenSeq(RowsOf(h))
<1>1. Size(h) \in Nat /\ Cardinality(Ids(h)) = Size(h) /\ Ids(h) = 0..(Size(h) - 1)
  BY MostArgsBound DEF Ids
<1>2. DOMAIN Mapping(h) = Ids(h)
  BY DEF Mapping
<1>3. ASSUME NEW i \in 1..Size(h)
      PROVE  [k \in DOMAIN Mapping(h)[i - 1] |-> <<i - 1, Mapping(h)[i - 1][k]>>] = RowOf(i - 1, Args(h, i - 1))
  <2>1. i - 1 \in Ids(h)
    BY <1>1
  <2>2. Mapping(h)[i - 1] = Args(h, i - 1)
    BY <2>1 DEF Mapping
  <2> QED BY <2>2, Zenon DEF RowOf
<1>4. [i \in 1..Size(h) |-> [k \in DOMAIN Mapping(h)[i - 1] |-> <<i - 1, Mapping(h)[i - 1][k]>>]] = RowsOf(h)
  BY <1>3, Zenon DEF RowsOf
<1> QED BY <1>1, <1>2, <1>4, Zenon DEF getEdgesList

(* All edges are between nodes of V. *)
EdgesWithin(h, V) ==
  \A n \in Ids(h) : \A i \in DOMAIN Args(h, n) : n \in V /\ Args(h, n)[i] \in V

LEMMA RowsType ==
  ASSUME NEW h, IsGraph(h), NEW V, EdgesWithin(h, V)
  PROVE  RowsOf(h) \in Seq(Seq(V \X V)) /\ Len(RowsOf(h)) = Size(h)
<1>0. Size(h) \in Nat /\ Ids(h) = 0..(Size(h) - 1)
  BY MostArgsBound DEF Ids
<1>1. ASSUME NEW n \in Ids(h) PROVE RowOf(n, Args(h, n)) \in Seq(V \X V)
  <2>1. PICK l \in Nat : DOMAIN Args(h, n) = 1..l
    <3>1. Args(h, n) \in Seq(Int)
      BY NodeType
    <3> QED BY <3>1
  <2>2. RowOf(n, Args(h, n)) \in [1..l -> V \X V]
    BY <2>1 DEF RowOf, EdgesWithin
  <2>3. PICK C : C = V \X V
    OBVIOUS
  <2>4. [1..l -> C] \subseteq Seq(C)
    BY SeqDef
  <2> QED BY <2>2, <2>3, <2>4
<1>2. \A i \in 1..Size(h) : RowOf(i - 1, Args(h, i - 1)) \in Seq(V \X V)
  <2> TAKE i \in 1..Size(h)
  <2>1. PICK n \in Ids(h) : n = i - 1
    BY <1>0
  <2> QED BY <1>1, <2>1
<1>3. RowsOf(h) \in [1..Size(h) -> Seq(V \X V)]
  BY <1>2, Zenon DEF RowsOf
<1>4. PICK D : D = Seq(V \X V)
  OBVIOUS
<1>5. \A k \in Nat : [1..k -> D] \subseteq Seq(D)
  BY SeqDef
<1>6. RowsOf(h) \in Seq(D) /\ DOMAIN RowsOf(h) = 1..Size(h)
  BY <1>0, <1>3, <1>4, <1>5
<1>7. Len(RowsOf(h)) = Size(h)
  <2>1. PICK s \in Seq(D) : s = RowsOf(h)
    BY <1>6
  <2>2. Len(s) = Size(h)
    BY <1>0, <1>6, <2>1, LenProperties
  <2> QED BY <2>1, <2>2
<1> QED BY <1>4, <1>6, <1>7

-----------------------------------------------------------------------------
(* Pushed back, the edges of a graph are its lists of arguments again.     *)
ArgsOrNone(h, n) == IF n \in Ids(h) THEN Args(h, n) ELSE <<>>

LEMMA PushedEdges ==
  ASSUME NEW h, IsGraph(h), NEW V, EdgesWithin(h, V), NEW edges, edges = getEdgesList(Mapping(h))
  PROVE  edges \in Seq(V \X V) /\ \A n \in V : Pushed(V, edges)[n] = ArgsOrNone(h, n)
<1>0. Size(h) \in Nat /\ Ids(h) = 0..(Size(h) - 1)
  BY MostArgsBound DEF Ids
<1>1. PICK C : C = V \X V
  OBVIOUS
<1>2. PICK s \in Seq(Seq(C)) : s = RowsOf(h) /\ Len(s) = Size(h)
  BY <1>1, RowsType
<1>3. PICK G : Stages(G, s, C)
  BY FlattenStages
<1>4. edges = FlattenSeq(s)
  BY <1>2, EdgesAreRows
<1> HIDE <1>2
<1>5. Len(s) = Size(h) /\ \A i \in 1..Size(h) : s[i] = RowOf(i - 1, Args(h, i - 1))
  BY <1>0, <1>2 DEF RowsOf
<1> DEFINE Sofar(i) == \A n \in V :
             Pushed(V, G[i])[n] = IF n \in Ids(h) /\ n < i THEN Args(h, n) ELSE <<>>
           U == {i \in Nat : i <= Size(h) => Sofar(i)}
<1>6. 0 \in U
  <2>1. Pushed(V, G[0]) = [v \in V |-> <<>>]
    BY <1>3, PushedNothing DEF Stages
  <2>2. \A n \in Ids(h) : ~(n < 0)
    BY <1>0
  <2> QED BY <2>1, <2>2
<1>7. ASSUME NEW i \in Nat, i \in U PROVE i + 1 \in U
  <2> SUFFICES ASSUME i + 1 <= Size(h) PROVE Sofar(i + 1)
    OBVIOUS
  <2>1. Sofar(i)
    BY <1>0, <1>7
  <2>2. i \in Ids(h) /\ \A n \in Ids(h) : n < i + 1 <=> n = i \/ n < i
    BY <1>0
  <2>3. /\ G[i + 1] = G[i] \o RowOf(i, Args(h, i)) /\ G[i] \in Seq(C)
    <3>1. PICK k \in 1..Len(s) : k = i + 1 /\ k - 1 = i /\ k - 1 \in 0..Len(s)
      BY <1>0, <1>5
    <3>2. G[k] = G[k - 1] \o s[k] /\ G[k - 1] \in Seq(C) /\ s[k] = RowOf(k - 1, Args(h, k - 1))
      BY <1>3, <1>5, <3>1 DEF Stages
    <3> QED BY <3>1, <3>2
  <2>4. PICK x \in Seq(C) : x = G[i]
    BY <2>3
  <2>5. CASE Args(h, i) = <<>>
    <3>1. RowOf(i, Args(h, i)) = <<>>
      BY <2>5 DEF RowOf
    <3>2. x \o <<>> = x
      OBVIOUS
    <3>3. G[i + 1] = G[i]
      BY <2>3, <2>4, <3>1, <3>2
    <3>4. ASSUME NEW n \in V
          PROVE  Pushed(V, G[i + 1])[n] = IF n \in Ids(h) /\ n < i + 1 THEN Args(h, n) ELSE <<>>
      <4>1. Pushed(V, G[i])[n] = IF n \in Ids(h) /\ n < i THEN Args(h, n) ELSE <<>>
        BY <2>1
      <4>2. CASE n = i
        <5>1. ~(n < i)
          BY <2>2, <4>2
        <5> QED BY <2>5, <3>3, <4>1, <4>2, <5>1
      <4>3. CASE n # i
        BY <2>2, <3>3, <4>1, <4>3
      <4> QED BY <4>2, <4>3
    <3> QED BY <3>4
  <2>6. CASE Args(h, i) # <<>>
    <3>1. PICK args \in Seq(V) : args = Args(h, i) /\ i \in V
      <4>1. Args(h, i) \in Seq(Int)
        BY <2>2, NodeType
      <4>2. PICK t \in Seq(Int) : t = Args(h, i) /\ t # <<>>
        BY <2>6, <4>1
      <4>3. 1 \in DOMAIN t /\ DOMAIN t = 1..Len(t)
        BY <4>2
      <4>4. i \in V /\ \A j \in 1..Len(t) : t[j] \in V
        BY <2>2, <4>2, <4>3 DEF EdgesWithin
      <4>5. t \in Seq(V)
        BY <4>4, ElementsType
      <4> QED BY <4>2, <4>4, <4>5
    <3>2. x \in Seq(V \X V)
      BY <1>1
    <3>3. Pushed(V, x \o RowOf(i, args)) = [Pushed(V, x) EXCEPT ![i] = Pushed(V, x)[i] \o args]
      <4>1. PICK a \in V : a = i
        BY <3>1
      <4>2. PushesRow(V, x, a, args)
        BY <3>2, PushedRow
      <4> QED BY <4>1, <4>2, Zenon DEF PushesRow
    <3>4. Pushed(V, x) \in [V -> Seq(V)]
      BY <3>2, PushedType
    <3>5. Pushed(V, x)[i] = <<>>
      <4>1. ~(i < i)
        OBVIOUS
      <4> QED BY <2>1, <2>4, <3>1, <4>1
    <3>6. <<>> \o args = args
      BY ONLY args \in Seq(V)
    <3>7. Pushed(V, G[i + 1]) = [Pushed(V, G[i]) EXCEPT ![i] = args]
      BY <2>3, <2>4, <3>1, <3>3, <3>5, <3>6, Zenon
    <3>8. ASSUME NEW n \in V
          PROVE  Pushed(V, G[i + 1])[n] = IF n \in Ids(h) /\ n < i + 1 THEN Args(h, n) ELSE <<>>
      <4>1. Pushed(V, G[i])[n] = IF n \in Ids(h) /\ n < i THEN Args(h, n) ELSE <<>>
        BY <2>1
      <4>2. PICK p \in [V -> Seq(V)] : p = Pushed(V, G[i])
        BY <2>4, <3>4
      <4>3. Pushed(V, G[i + 1])[n] = IF n = i THEN args ELSE p[n]
        BY <3>1, <3>7, <4>2
      <4> QED BY <2>2, <3>1, <4>1, <4>2, <4>3
    <3> QED BY <3>8
  <2> QED BY <2>5, <2>6
<1> HIDE DEF U, Sofar
<1>8. Sofar(Size(h))
  <2>1. Size(h) \in U
    BY <1>0, <1>6, <1>7, SetInduction
  <2> QED BY <1>0, <2>1 DEF U
<1>9. G[Len(s)] = edges /\ G[Len(s)] \in Seq(C)
  <2>1. Len(s) \in 0..Len(s)
    BY <1>0, <1>5
  <2> QED BY <1>3, <1>4, <2>1 DEF Stages
<1>10. \A n \in Ids(h) : n < Size(h)
  BY <1>0
<1> QED BY <1>1, <1>5, <1>8, <1>9, <1>10 DEF Sofar, ArgsOrNone

-----------------------------------------------------------------------------
(* How often a value is in a sequence.                                     *)
Occurs(s, x) == {i \in DOMAIN s : s[i] = x}

LEMMA CountAppended ==
  ASSUME NEW C, NEW s \in Seq(C), NEW x \in C, NEW y
  PROVE  /\ IsFiniteSet(Occurs(s, y)) /\ Cardinality(Occurs(s, y)) \in Nat
         /\ x = y => Cardinality(Occurs(Append(s, x), y)) = Cardinality(Occurs(s, y)) + 1
         /\ x # y => Cardinality(Occurs(Append(s, x), y)) = Cardinality(Occurs(s, y))
<1>1. PICK n \in Nat : n = Len(s) /\ DOMAIN s = 1..n
  OBVIOUS
<1>2. IsFiniteSet(Occurs(s, y)) /\ Cardinality(Occurs(s, y)) \in Nat /\ n + 1 \notin Occurs(s, y)
  <2>1. IsFiniteSet(1..n) /\ Occurs(s, y) \in SUBSET (1..n)
    BY <1>1, FS_Interval DEF Occurs
  <2>2. IsFiniteSet(Occurs(s, y))
    BY <2>1, FS_Subset
  <2> QED BY <2>1, <2>2, FS_CardinalityType
<1>3. PICK t : t = Append(s, x)
  OBVIOUS
<1>4. DOMAIN t = 1..(n + 1) /\ t[n + 1] = x /\ \A i \in 1..n : t[i] = s[i]
  BY <1>1, <1>3
<1>5. CASE x = y
  <2>1. Occurs(t, y) = Occurs(s, y) \cup {n + 1}
    BY <1>1, <1>4, <1>5 DEF Occurs
  <2> QED BY <1>2, <1>3, <1>5, <2>1, FS_AddElement
<1>6. CASE x # y
  <2>1. Occurs(t, y) = Occurs(s, y)
    BY <1>1, <1>4, <1>6 DEF Occurs
  <2> QED BY <1>2, <1>3, <1>6, <2>1
<1> QED BY <1>5, <1>6

(* A node is in a list as often as the pair that pushes it there is in the *)
(* sequence.                                                               *)
LEMMA PushedCounts ==
  ASSUME NEW V, NEW s \in Seq(V \X V), NEW a \in V, NEW b \in V
  PROVE  Cardinality(Occurs(Pushed(V, s)[a], b)) = Cardinality(Occurs(s, <<a, b>>))
<1>1. PICK C : C = V \X V
  OBVIOUS
<1> DEFINE T == {t \in Seq(C) :
                   Cardinality(Occurs(Pushed(V, t)[a], b)) = Cardinality(Occurs(t, <<a, b>>))}
<1>2. <<>> \in T
  <2>1. Pushed(V, <<>>)[a] = <<>>
    BY PushedNothing
  <2>2. Occurs(<<>>, b) = {} /\ Occurs(<<>>, <<a, b>>) = {}
    BY DEF Occurs
  <2>3. <<>> \in Seq(C)
    OBVIOUS
  <2> QED BY <2>1, <2>2, <2>3
<1>3. ASSUME NEW t \in Seq(C), NEW e \in C, t \in T PROVE Append(t, e) \in T
  <2>1. PICK p \in [V -> Seq(V)] : p = Pushed(V, t)
    BY <1>1, PushedType
  <2>2. e[1] \in V /\ e[2] \in V /\ (e = <<a, b>> <=> e[1] = a /\ e[2] = b)
    BY <1>1
  <2>3. PICK c \in V, d \in V : c = e[1] /\ d = e[2]
    BY <2>2
  <2>4. Pushed(V, Append(t, e)) = [p EXCEPT ![c] = Append(p[c], d)]
    <3>1. PushesOne(V, t, e)
      BY <1>1, <2>1, PushedAppended
    <3> QED BY <2>1, <2>3, <3>1, Zenon DEF PushesOne
  <2>5. Cardinality(Occurs(p[a], b)) = Cardinality(Occurs(t, <<a, b>>))
    BY <1>3, <2>1
  <2>6. PICK l \in Seq(V) : l = p[a]
    BY <2>1
  <2>7. /\ e = <<a, b>> => Cardinality(Occurs(Append(t, e), <<a, b>>)) = Cardinality(Occurs(t, <<a, b>>)) + 1
        /\ e # <<a, b>> => Cardinality(Occurs(Append(t, e), <<a, b>>)) = Cardinality(Occurs(t, <<a, b>>))
    BY CountAppended
  <2>8. /\ d = b => Cardinality(Occurs(Append(l, d), b)) = Cardinality(Occurs(l, b)) + 1
        /\ d # b => Cardinality(Occurs(Append(l, d), b)) = Cardinality(Occurs(l, b))
    BY CountAppended
  <2>9. [p EXCEPT ![c] = Append(p[c], d)][a] = IF c = a THEN Append(l, d) ELSE l
    BY <2>1, <2>6
  <2>10. Cardinality(Occurs(Pushed(V, Append(t, e))[a], b)) = Cardinality(Occurs(Append(t, e), <<a, b>>))
    <3>1. CASE c = a /\ d = b
      BY <2>2, <2>3, <2>4, <2>5, <2>6, <2>7, <2>8, <2>9, <3>1
    <3>2. CASE c = a /\ d # b
      BY <2>2, <2>3, <2>4, <2>5, <2>6, <2>7, <2>8, <2>9, <3>2
    <3>3. CASE c # a
      BY <2>2, <2>3, <2>4, <2>5, <2>6, <2>7, <2>9, <3>3
    <3> QED BY <3>1, <3>2, <3>3
  <2>11. Append(t, e) \in Seq(C)
    OBVIOUS
  <2> QED BY <2>10, <2>11
<1> HIDE DEF T
<1>4. \A t \in Seq(C) : t \in T
  BY <1>2, <1>3, SeqInduction
<1>5. s \in T
  BY <1>1, <1>4
<1> QED BY <1>5 DEF T

-----------------------------------------------------------------------------
(* The nodes getGraphMapping makes: up to the largest id that an edge names. *)
NamedBy(edges) ==
  0..Max({0} \cup {e[1] : e \in Range(edges)} \cup {e[2] : e \in Range(edges)})

LEMMA NamedContains ==
  ASSUME NEW N \in Nat, NEW edges \in Seq((0..N) \X (0..N))
  PROVE  /\ NamedBy(edges) \subseteq 0..N
         /\ \A e \in Range(edges) : e[1] \in NamedBy(edges) /\ e[2] \in NamedBy(edges)
<1> DEFINE T == {0} \cup {e[1] : e \in Range(edges)} \cup {e[2] : e \in Range(edges)}
<1>1. \A e \in Range(edges) : e \in (0..N) \X (0..N)
  BY DEF Range
<1>2. T \in SUBSET (0..N)
  <2>1. \A e \in Range(edges) : e[1] \in 0..N /\ e[2] \in 0..N
    BY <1>1
  <2> QED BY <2>1
<1>3. T # {} /\ \A e \in Range(edges) : e[1] \in T /\ e[2] \in T
  OBVIOUS
<1> HIDE DEF T
<1>4. Max(T) \in T /\ \A y \in T : y <= Max(T)
  BY <1>2, <1>3, NatMax
<1>5. PICK top \in 0..N : top = Max(T)
  BY <1>2, <1>4
<1>6. NamedBy(edges) = 0..top
  BY <1>5 DEF NamedBy, T
<1>7. \A y \in T : y \in 0..top
  BY <1>2, <1>4, <1>5
<1> QED BY <1>3, <1>6, <1>7

LEMMA GraphWithin ==
  ASSUME NEW h, IsGraph(h)
  PROVE  EdgesWithin(h, Ids(h))
  BY DEF IsGraph, EdgesWithin

(* Every argument of a node is the end of one of the graph's edges. *)
LEMMA EdgeListed ==
  ASSUME NEW h, IsGraph(h), NEW edges, edges = getEdgesList(Mapping(h)),
         NEW n \in Ids(h), NEW i \in DOMAIN Args(h, n)
  PROVE  <<n, Args(h, n)[i]>> \in Range(edges)
<1>1. Size(h) \in Nat /\ Ids(h) = 0..(Size(h) - 1)
  BY MostArgsBound DEF Ids
<1>2. PICK C : C = Ids(h) \X Ids(h)
  OBVIOUS
<1>3. PICK s \in Seq(Seq(C)) : s = RowsOf(h) /\ Len(s) = Size(h)
  <2>1. PICK V : V = Ids(h)
    OBVIOUS
  <2>2. EdgesWithin(h, V) /\ C = V \X V
    BY <1>2, <2>1, GraphWithin
  <2> QED BY <2>2, RowsType
<1>4. PICK j \in 1..Len(s) : j = n + 1 /\ j - 1 = n
  <2>1. PICK k \in Nat : k = n + 1 /\ k - 1 = n /\ k >= 1 /\ k <= Size(h)
    BY ONLY <1>1, n \in Ids(h)
  <2>2. k \in 1..Len(s)
    BY <1>3, <2>1
  <2> QED BY <2>1, <2>2
<1>5. s[j] = RowOf(n, Args(h, n))
  BY <1>3, <1>4 DEF RowsOf
<1>6. <<n, Args(h, n)[i]>> \in Range(s[j])
  BY <1>5 DEF RowOf, Range
<1>7. Range(s[j]) \subseteq Range(FlattenSeq(s))
  BY FlattenContains
<1>8. edges = FlattenSeq(s)
  BY <1>3, EdgesAreRows
<1> QED BY <1>6, <1>7, <1>8

(* Read back from its edges, every node has its arguments again; a node    *)
(* that is not read back had none, and no argument is a node left out.     *)
ReadBack(h, again) ==
  /\ \A n \in Ids(h) : IF n \in DOMAIN again THEN again[n] = Args(h, n) ELSE Args(h, n) = <<>>
  /\ \A n \in DOMAIN again : Range(again[n]) \subseteq DOMAIN again

(* getGraphMapping reads back what getEdgesList wrote. *)
LEMMA EdgesReadBack ==
  ASSUME NEW h, IsGraph(h)
  PROVE  ReadBack(h, getGraphMapping(getEdgesList(Mapping(h))))
<1>1. Size(h) \in Nat /\ Ids(h) = 0..(Size(h) - 1)
  BY MostArgsBound DEF Ids
<1>2. PICK edges : edges = getEdgesList(Mapping(h))
  OBVIOUS
<1>3. PICK W : W = NamedBy(edges)
  OBVIOUS
<1>4. PICK V : V = 0..Size(h)
  OBVIOUS
<1>5. EdgesWithin(h, V)
  <2>1. EdgesWithin(h, Ids(h)) /\ Ids(h) \subseteq V
    BY <1>1, <1>4, GraphWithin
  <2> QED BY <2>1 DEF EdgesWithin
<1>6. edges \in Seq(V \X V)
  BY <1>2, <1>5, PushedEdges
<1>7. \A e \in Range(edges) : e[1] \in W /\ e[2] \in W
  BY <1>1, <1>3, <1>4, <1>6, NamedContains
<1>8. ASSUME NEW n \in Ids(h), NEW i \in DOMAIN Args(h, n)
      PROVE  n \in W /\ Args(h, n)[i] \in W
  <2>1. PICK e : e = <<n, Args(h, n)[i]>>
    OBVIOUS
  <2>2. e \in Range(edges) /\ e[1] = n /\ e[2] = Args(h, n)[i]
    BY <1>2, <2>1, EdgeListed
  <2> QED BY <1>7, <2>2
<1>9. EdgesWithin(h, W)
  BY <1>8 DEF EdgesWithin
<1>10. edges \in Seq(W \X W) /\ \A n \in W : Pushed(W, edges)[n] = ArgsOrNone(h, n)
  BY <1>2, <1>9, PushedEdges
<1>11. Pushed(W, edges) \in [W -> Seq(W)]
  BY <1>10, PushedType
<1>12. PICK again \in [W -> Seq(W)] : again = Pushed(W, edges)
  BY <1>11
<1>13. getGraphMapping(getEdgesList(Mapping(h))) = again
  BY <1>2, <1>3, <1>12, Zenon DEF getGraphMapping, NamedBy
<1>14. ASSUME NEW n \in Ids(h), n \notin W PROVE Args(h, n) = <<>>
  <2>1. Args(h, n) \in Seq(Int)
    BY NodeType
  <2>2. PICK t \in Seq(Int) : t = Args(h, n)
    BY <2>1
  <2>3. t # <<>> => 1 \in DOMAIN t
    OBVIOUS
  <2> QED BY <1>8, <1>14, <2>2, <2>3
<1>15. \A n \in W : Range(again[n]) \subseteq W
  <2> TAKE n \in W
  <2>1. PICK l \in Seq(W) : l = again[n]
    BY <1>12
  <2>2. Range(l) \subseteq W
    BY ONLY l \in Seq(W) DEF Range
  <2> QED BY <2>1, <2>2
<1>16. \A n \in W \cap Ids(h) : again[n] = Args(h, n)
  BY <1>10, <1>12 DEF ArgsOrNone
<1>17. DOMAIN again = W
  BY <1>12
<1> QED BY <1>13, <1>14, <1>15, <1>16, <1>17, Zenon DEF ReadBack

-----------------------------------------------------------------------------
(* The edges the other way round.                                          *)
Swapped(edges) == [k \in DOMAIN edges |-> <<edges[k][2], edges[k][1]>>]

AsOften(edges, a, b) == Occurs(Swapped(edges), <<b, a>>) = Occurs(edges, <<a, b>>)

LEMMA SwappedCounts ==
  ASSUME NEW V, NEW edges \in Seq(V \X V), NEW a \in V, NEW b \in V
  PROVE  /\ Swapped(edges) \in Seq(V \X V)
         /\ AsOften(edges, a, b)
<1>1. PICK n \in Nat : n = Len(edges) /\ DOMAIN edges = 1..n
  OBVIOUS
<1>2. \A k \in 1..n : edges[k] \in V \X V
  BY <1>1
<1>3. \A k \in 1..n : /\ edges[k] = <<edges[k][1], edges[k][2]>>
                      /\ edges[k][1] \in V /\ edges[k][2] \in V
  BY <1>2
<1>4. PICK sw : sw = [k \in 1..n |-> <<edges[k][2], edges[k][1]>>]
  OBVIOUS
<1>5. Swapped(edges) = sw
  BY <1>1, <1>4, Zenon DEF Swapped
<1>6. \A k \in 1..n : <<edges[k][2], edges[k][1]>> \in V \X V
  BY <1>3
<1>7. PICK C : C = V \X V
  OBVIOUS
<1>8. sw \in Seq(C)
  <2>1. sw \in [1..n -> C]
    BY <1>4, <1>6, <1>7
  <2> QED BY <2>1
<1>9. DOMAIN sw = 1..n /\ \A k \in 1..n : sw[k] = <<b, a>> <=> edges[k] = <<a, b>>
  <2>1. ASSUME NEW k \in 1..n PROVE sw[k] = <<b, a>> <=> edges[k] = <<a, b>>
    <3>1. PICK x \in V, y \in V : x = edges[k][1] /\ y = edges[k][2] /\ edges[k] = <<x, y>>
      BY <1>3
    <3>2. sw[k] = <<y, x>>
      BY <1>4, <3>1
    <3>3. (<<y, x>> = <<b, a>> <=> y = b /\ x = a) /\ (<<x, y>> = <<a, b>> <=> x = a /\ y = b)
      OBVIOUS
    <3> QED BY <3>1, <3>2, <3>3
  <2> QED BY <1>4, <2>1
<1>10. Occurs(sw, <<b, a>>) = Occurs(edges, <<a, b>>)
  BY <1>1, <1>9 DEF Occurs
<1> QED BY <1>5, <1>7, <1>8, <1>10 DEF AsOften

(* Reverted, a graph has as many edges from c to n as it had from n to c.  *)
TurnedRound(h, back) ==
  \A n, c \in Ids(h) : Cardinality(Occurs(back[c], n)) = Cardinality(Occurs(Args(h, n), c))

(* revertGraphMapping turns each edge round, as often as it is there. *)
LEMMA EdgesTurnRound ==
  ASSUME NEW h, IsGraph(h)
  PROVE  TurnedRound(h, revertGraphMapping(Mapping(h)))
<1>1. PICK edges : edges = getEdgesList(Mapping(h))
  OBVIOUS
<1>2. PICK V : V = Ids(h)
  OBVIOUS
<1>3. edges \in Seq(V \X V) /\ \A n \in V : Pushed(V, edges)[n] = Args(h, n)
  BY <1>1, <1>2, GraphWithin, PushedEdges DEF ArgsOrNone
<1>4. PICK sw : sw = Swapped(edges)
  OBVIOUS
<1>5. revertGraphMapping(Mapping(h)) = Pushed(V, sw)
  <2>1. DOMAIN Mapping(h) = V
    BY <1>2 DEF Mapping
  <2> QED BY <1>1, <1>4, <2>1, Zenon DEF revertGraphMapping, Swapped
<1>6. ASSUME NEW n \in V, NEW c \in V
      PROVE  Cardinality(Occurs(Pushed(V, sw)[c], n)) = Cardinality(Occurs(Args(h, n), c))
  <2>1. sw \in Seq(V \X V) /\ Occurs(sw, <<c, n>>) = Occurs(edges, <<n, c>>)
    <3>1. Swapped(edges) \in Seq(V \X V) /\ AsOften(edges, n, c)
      BY <1>3, SwappedCounts
    <3> QED BY <1>4, <3>1, Zenon DEF AsOften
  <2>2. Cardinality(Occurs(Pushed(V, sw)[c], n)) = Cardinality(Occurs(sw, <<c, n>>))
    BY <2>1, PushedCounts
  <2>3. Cardinality(Occurs(Pushed(V, edges)[n], c)) = Cardinality(Occurs(edges, <<n, c>>))
    BY <1>3, PushedCounts
  <2>4. Pushed(V, edges)[n] = Args(h, n)
    BY <1>3
  <2> QED BY <2>1, <2>2, <2>3, <2>4, Zenon
<1> QED BY <1>2, <1>5, <1>6, Zenon DEF TurnedRound

LEMMA NumberedEdges == GraphInv => EdgesRoundTrip
<1> SUFFICES ASSUME GraphInv, phase = "numbered" PROVE EdgesRoundTrip
  BY Zenon DEF EdgesRoundTrip
<1>1. IsGraph(g)
  BY DEF GraphInv, Acyclic
<1> DEFINE m     == Mapping(g)
           again == getGraphMapping(getEdgesList(m))
           back  == revertGraphMapping(m)
<1>2. ReadBack(g, again)
  BY <1>1, EdgesReadBack
<1>3. TurnedRound(g, back)
  BY <1>1, EdgesTurnRound
<1>4. ReadBack(g, again) /\ TurnedRound(g, back)
  BY <1>2, <1>3, Zenon
<1>5. DOMAIN m = Ids(g) /\ \A n \in Ids(g) : m[n] = Args(g, n)
  BY DEF Mapping
<1>6. \A n \in DOMAIN m : IF n \in DOMAIN again THEN again[n] = m[n] ELSE m[n] = <<>>
  BY <1>4, <1>5, Zenon DEF ReadBack
<1>7. \A n \in DOMAIN again : Range(again[n]) \subseteq DOMAIN again
  BY <1>4, Zenon DEF ReadBack
<1>8. ASSUME NEW n \in DOMAIN m, NEW c \in DOMAIN m
      PROVE  Cardinality({i \in DOMAIN back[c] : back[c][i] = n})
               = Cardinality({i \in DOMAIN m[n] : m[n][i] = c})
  <2>1. Cardinality(Occurs(back[c], n)) = Cardinality(Occurs(Args(g, n), c))
    BY <1>4, <1>5, Zenon DEF TurnedRound
  <2>2. Args(g, n) = m[n]
    BY <1>5
  <2> QED BY <2>1, <2>2, Zenon DEF Occurs
<1> QED BY <1>6, <1>7, <1>8, Zenon DEF EdgesRoundTrip

(* A graph is what its edges say (graph.h:306-350, EdgesRoundTrip): read    *)
(* back by getGraphMapping, every node has its arguments in their order, up *)
(* to nodes after the last one that an edge names, and revertGraphMapping   *)
(* has each edge the other way round, as often as it was there.             *)
THEOREM EdgesSurviveRoundTrip == Spec /\ []ParsingOrder => []EdgesRoundTrip
<1>1. Init => PhaseInv /\ GraphInv
  BY InvInit
<1>2. PhaseInv /\ GraphInv /\ ParsingOrder /\ [Next]_vars => (PhaseInv /\ GraphInv)'
  BY InvNext
<1> QED BY <1>1, <1>2, NumberedEdges, PTL DEF Spec
=============================================================================
