--------------------------- MODULE QuerySemantics ---------------------------
(***************************************************************************)
(* What the operations of a query graph mean on values: the reference      *)
(* that the SQL visitor and the rewriting rules are checked against.  It   *)
(* is not code of the planner; it is SQL's three-valued logic over         *)
(* integers and NULL.                                                      *)
(***************************************************************************)
EXTENDS Integers, Sequences, FiniteSets, SequencesExt

CONSTANTS
  NULL,              \* the missing value
  Predicate(_, _)    \* what LIKE, ILIKE, IN and IS_NULL say of their arguments

ASSUME NullAssumption == NULL \notin Int

Value == Int \cup {NULL}

TruthOf(v) == IF v = NULL THEN NULL ELSE IF v = 0 THEN 0 ELSE 1
Not3(v)    == IF v = NULL THEN NULL ELSE IF v = 0 THEN 1 ELSE 0

And3(s) == IF \E i \in DOMAIN s : s[i] = 0 THEN 0
           ELSE IF \E i \in DOMAIN s : s[i] = NULL THEN NULL ELSE 1
Or3(s)  == IF \E i \in DOMAIN s : s[i] \notin {0, NULL} THEN 1
           ELSE IF \E i \in DOMAIN s : s[i] = NULL THEN NULL ELSE 0
Xor3(s) == IF \E i \in DOMAIN s : s[i] = NULL THEN NULL
           ELSE Cardinality({i \in DOMAIN s : s[i] # 0}) % 2

(* An operand; one that is not there is missing. *)
Operand(s, i) == IF i \in DOMAIN s THEN s[i] ELSE NULL

(* A comparison of two values: unknown as soon as one of them is. *)
Known(s, holds) == IF Operand(s, 1) = NULL \/ Operand(s, 2) = NULL THEN NULL
                   ELSE IF holds THEN 1 ELSE 0

Says(op, s) == TruthOf(Predicate(op, s))

(* An operation on relations has no value. *)
Logic(op, s) ==
  CASE op = "NOP"   -> Operand(s, 1)
    [] op = "NOT"   -> Not3(Operand(s, 1))
    [] op = "TRUE"  -> 1
    [] op = "FALSE" -> 0
    [] op = "AND"   -> And3(s)
    [] op = "OR"    -> Or3(s)
    [] op = "XOR"   -> Xor3(s)
    [] op = "NAND"  -> Not3(And3(s))
    [] op = "NOR"   -> Not3(Or3(s))
    [] op = "XNOR"  -> Not3(Xor3(s))
    [] op = "EQ"    -> Known(s, s[1] = s[2])
    [] op = "NEQ"   -> Known(s, s[1] # s[2])
    [] op = "GT"    -> Known(s, s[1] > s[2])
    [] op = "LT"    -> Known(s, s[1] < s[2])
    [] op = "GTE"   -> Known(s, s[1] >= s[2])
    [] op = "LTE"   -> Known(s, s[1] <= s[2])
    [] op = "NOT_LIKE"    -> Not3(Says("LIKE", s))
    [] op = "NOT_ILIKE"   -> Not3(Says("ILIKE", s))
    [] op = "NOT_IN"      -> Not3(Says("IN", s))
    [] op = "IS_NOT_NULL" -> Not3(Says("IS_NULL", s))
    [] op \in {"LIKE", "ILIKE", "IN", "IS_NULL"} -> Says(op, s)
    [] OTHER -> NULL

Numeric == {"ADD", "SUB", "MUL", "DIV", "MIN", "MAX"}

(* Rounded down; none by zero. *)
Quotient(a, b) == IF b = 0 THEN NULL ELSE IF b > 0 THEN a \div b ELSE (-a) \div (-b)

(* Arithmetic on two values; anything with NULL is NULL. *)
Arith(op) ==
  [ab \in Value \X Value |->
     LET a == ab[1]
         b == ab[2]
     IN  IF a = NULL \/ b = NULL THEN NULL
         ELSE CASE op = "ADD" -> a + b
                [] op = "SUB" -> a - b
                [] op = "MUL" -> a * b
                [] op = "DIV" -> Quotient(a, b)
                [] op = "MIN" -> IF a < b THEN a ELSE b
                [] op = "MAX" -> IF a > b THEN a ELSE b]

(* Arithmetic goes over all arguments from the left. *)
Apply(op, s) ==
  IF op \notin Numeric THEN Logic(op, s)
  ELSE IF s = <<>> THEN NULL
  ELSE FoldLeft(LAMBDA a, b : Arith(op)[<<a, b>>], s[1], Tail(s))
=============================================================================
