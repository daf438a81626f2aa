---------------------------- MODULE MCExprParser ----------------------------
(***************************************************************************)
(* Model-checking instance of ExprParser.  Every input alternates operands *)
(* and operators, has at most MaxOperands operands, draws its operators    *)
(* from MCOps and spells each of them as the keywords the lexer returns.   *)
(* An operand right of IN is "x" or "list"; elsewhere it is "x".           *)
(***************************************************************************)
EXTENDS ExprParser

CONSTANTS MaxOperands, MCOps

ASSUME MaxOperands \in 1 .. 6 /\ MCOps \subseteq Ops

\* The operand tokens that may follow operator o.
OperandsAfter(o) == IF o \in InOps THEN {"x", "list"} ELSE {"x"}

\* Operator-level token sequences with n operands.
RECURSIVE InputsOf(_)
InputsOf(n) ==
  IF n = 1 THEN {<<"x">>}
  ELSE UNION { { s \o <<o, t>> : t \in OperandsAfter(o) } : s \in InputsOf(n - 1), o \in MCOps }

\* What the lexer hands the parser: every operator spelled as its keywords.
Lexed(s) == FlattenSeq([i \in DOMAIN s |-> IF s[i] \in Ops THEN Spelling(s[i]) ELSE <<s[i]>>])

MCInputs == { Lexed(s) : s \in UNION { InputsOf(n) : n \in 1 .. MaxOperands } }

(***************************************************************************)
(* The refinement mapping from keywords back to operators.  The keywords   *)
(* between two operands are one operator; index i of the keyword input is  *)
(* index AbsPos(i) of the operator-level input.                            *)
(***************************************************************************)
IsOperand(t) == t \in {"x", "list"}

\* The operator-level tokens of a keyword sequence s.
RECURSIVE Group(_)
Group(s) ==
  IF s = <<>> THEN <<>>
  ELSE IF IsOperand(s[1]) THEN <<s[1]>> \o Group(Tail(s))
  ELSE LET n == SelectInSeq(s, IsOperand) - 1
           run == SubSeq(s, 1, n)
       IN  <<CHOOSE o \in Ops : SpellingOf[o] = run>> \o Group(SubSeq(s, n + 1, Len(s)))
\* Both computed once per input, as constants.
AbsInputOf == [l \in MCInputs |-> Group(l)]
AbsPosOf == [l \in MCInputs |->
               [i \in DOMAIN l |-> Cardinality({ j \in 1 .. i :
                  j = 1 \/ IsOperand(l[j]) \/ IsOperand(l[j - 1]) })]]
AbsInput == AbsInputOf[input]
AbsPos(i) == AbsPosOf[input][i]

RECURSIVE AbsTree(_)
AbsTree(t) == [t EXCEPT !.pos = IF @ = 0 THEN 0 ELSE AbsPos(@),
                        !.kids = [i \in DOMAIN @ |-> AbsTree(@[i])]]
AbsResult == AbsTree(Result)

(***************************************************************************)
(* The abstract specification with the grammar's own table, and with the  *)
(* table of spec.md section 4.3 (same order of the levels the grammar     *)
(* uses, exponentiation right-associative).                               *)
(***************************************************************************)
CodeTable == INSTANCE ExprSpec WITH
  input <- AbsInput, Inputs <- Seq(Ops \cup {"x", "list"}), BinOps <- BinOps, InOps <- InOps, BetweenOps <- BetweenOps,
  AndOp <- AndOp, PrecOf <- OpPrec, AssocOf <- OpAssoc, Higher <- Higher,
  result <- AbsResult

\* spec.md 4.3, loosest first.
SpecPrecOrder ==
  << "clause_disjunctive", "clause_connective", "between", "pattern_matching",
     "binary_concat", "binary_relation", "binary_in", "binary_compare",
     "binary_plus", "binary_times", "binary_exp", "unary_not", "binary_is" >>

SpecHigher(p, q) ==
  \E i, j \in DOMAIN SpecPrecOrder : SpecPrecOrder[i] = p /\ SpecPrecOrder[j] = q /\ i > j

\* "Binary operators are left-associative except exponentiation-style
\* operators, which are right-associative".
SpecAssoc(o) == IF o = "^" THEN "right" ELSE "left"

SpecTable == INSTANCE ExprSpec WITH
  input <- AbsInput, Inputs <- Seq(Ops \cup {"x", "list"}), BinOps <- BinOps, InOps <- InOps, BetweenOps <- BetweenOps,
  AndOp <- AndOp, PrecOf <- OpPrec, AssocOf <- SpecAssoc, Higher <- SpecHigher,
  result <- AbsResult

\* Every level compares as tighter than every other: the table then admits
\* every derivation tree of the productions.
AnyOrder(p, q) == TRUE

GrammarTrees == INSTANCE ExprSpec WITH
  input <- AbsInput, Inputs <- Seq(Ops \cup {"x", "list"}), BinOps <- BinOps, InOps <- InOps,
  BetweenOps <- BetweenOps, AndOp <- AndOp, PrecOf <- OpPrec, AssocOf <- OpAssoc,
  Higher <- AnyOrder, result <- AbsResult

(***************************************************************************)
(* The parser implements the promise of sections 4.3 and 4.6 under the     *)
(* grammar's table: each accepted input yields a tree in which every      *)
(* operator conflict is resolved by precedence and associativity, tokens   *)
(* occur once and in source order, and BETWEEN keeps its own AND; an input *)
(* with no such tree is rejected.                                          *)
(***************************************************************************)
ImplementsCodeTable == CodeTable!Spec

(***************************************************************************)
(* The parser implements spec.md's table, exponentiation right-associative *)
(* included: a ^ b ^ c must group as a ^ (b ^ c).                          *)
(***************************************************************************)
ImplementsSpecTable == SpecTable!Spec

(***************************************************************************)
(* Section 4.3 says precedence is "used only to break ties between         *)
(* competing productions": an input that has an admissible tree is never   *)
(* rejected by the parser's static conflict resolution.                    *)
(***************************************************************************)
NoInputWronglyRejected ==
  status = "error" => CodeTable!Admissible(AbsInput) = {}

(***************************************************************************)
(* With operators spelled as several keywords (NOT LIKE, NOT IN, NOT       *)
(* BETWEEN, IS NOT DISTINCT FROM, ...) and whatever tree the GLR runtime   *)
(* keeps where a declared conflict forks the parse: every accepted input   *)
(* yields a derivation tree of the expression productions over the        *)
(* operators its keywords spell, each token once and in source order, and  *)
(* the AND of a BETWEEN never read as part of its low bound.              *)
(***************************************************************************)
ImplementsGrammar == GrammarTrees!Spec

(***************************************************************************)
(* Section 4.6: the between_expression/binary_expression conflict is       *)
(* "disambiguated purely by precedence level": the precedences leave no    *)
(* state with a reduction beside another action, so the runtime never has  *)
(* to fork and pick a tree.                                                *)
(***************************************************************************)
PrecedenceDecides == status = "parsing" => ~IsConflict
=============================================================================
