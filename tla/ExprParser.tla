----------------------------- MODULE ExprParser -----------------------------
(***************************************************************************)
(* The expression grammar of grammar.js as the parser tree-sitter builds   *)
(* from it: an LR shift/reduce machine over the keyword tokens the lexer   *)
(* produces, whose shift/reduce and reduce/reduce conflicts are settled    *)
(* statically by the named precedences and associativities the grammar     *)
(* declares; what they leave unresolved is a GLR fork, modelled as a       *)
(* nondeterministic choice between the actions left.                      *)
(*                                                                         *)
(* Tokens: an operand "x" stands for any closed operand of `expression`    *)
(* (literal, parameter, qualified_field, parenthesised expression); "list" *)
(* is a parenthesised list or subquery, legal only right of IN; every     *)
(* other token is one keyword or symbol.  An operator of several keywords *)
(* (NOT LIKE, IS NOT DISTINCT FROM, ...) arrives one keyword at a time:   *)
(* the rules is_not, not_like, ... are reduced from their keywords, and   *)
(* NOT BETWEEN is written inline in between_expression.                   *)
(*                                                                         *)
(* The stack holds [sym, pos, tree, tok] entries: sym "E" a reduced        *)
(* expression, "L" a shifted list, "kw" a shifted keyword or symbol, "op"  *)
(* a reduced multi-keyword operator rule; pos is the input index of the    *)
(* entry's first token and tok the keyword, or the operator's name.       *)
(***************************************************************************)
EXTENDS Naturals, Sequences, SequencesExt, FiniteSets

CONSTANTS
  Inputs         \* the token sequences parsed, one per behaviour

VARIABLES
  input,         \* the token sequence being parsed
  pos,           \* index of the lookahead token
  stack,         \* the parse stack
  status         \* "parsing" | "accepted" | "error"

vars == <<input, pos, stack, status>>

(***************************************************************************)
(* The grammar's declarations.                                             *)
(***************************************************************************)

\* Variant: `between` listed below `clause_connective`.
PrecOrderBetweenBelowAnd ==
  << "binary_is", "unary_not", "binary_exp", "binary_times", "binary_plus",
     "binary_in", "binary_compare", "binary_relation", "binary_concat",
     "pattern_matching", "clause_connective", "between", "clause_disjunctive" >>

\* precedences: the one list of named levels, tightest binding first.
PrecOrder ==
  << "binary_is", "unary_not", "binary_exp", "binary_times", "binary_plus",
     "binary_in", "binary_compare", "binary_relation", "binary_concat",
     "pattern_matching", "between", "clause_connective", "clause_disjunctive" >>

\* Level p binds tighter than level q: p comes first in PrecOrder.  Names
\* outside the list are incomparable.
Higher(p, q) ==
  \E i, j \in DOMAIN PrecOrder : PrecOrder[i] = p /\ PrecOrder[j] = q /\ i < j

\* How tree-sitter compares two precedences: a name outside the list, or
\* none, compares equal to everything.
PrecCmp(p, q) ==
  IF Higher(p, q) THEN "gt" ELSE IF Higher(q, p) THEN "lt" ELSE "eq"

\* Variant: the between/binary conflict left out of `conflicts`.
DeclaredConflictsNoBetween ==
  { {"object_reference", "qualified_field"},
    {"object_reference"} }

\* conflicts: the sets of rules allowed to stay in conflict (GLR forks).
DeclaredConflicts ==
  { {"object_reference", "qualified_field"},
    {"object_reference"},
    {"between_expression", "binary_expression"} }

AndOp == "AND"
BinOps ==
  { "+", "-", "*", "/", "%", "^", "||", "=", "<", "<=", "!=", ">=", ">", "<>",
    "->", "->>", "#>", "#>>", "IS", "IS NOT", "LIKE", "NOT LIKE", "SIMILAR TO",
    "NOT SIMILAR TO", "IS DISTINCT FROM", "IS NOT DISTINCT FROM", "AND", "OR" }
InOps == {"IN", "NOT IN"}
BetweenOps == {"BETWEEN", "NOT BETWEEN"}
Ops == BinOps \cup InOps \cup BetweenOps

\* The keywords of each operator: the rules is_not ... not_distinct_from,
\* not_in, and the inline seq(keyword_not, keyword_between).
Spelling(o) ==
  CASE o = "IS NOT"               -> <<"IS", "NOT">>
    [] o = "NOT LIKE"             -> <<"NOT", "LIKE">>
    [] o = "SIMILAR TO"           -> <<"SIMILAR", "TO">>
    [] o = "NOT SIMILAR TO"       -> <<"NOT", "SIMILAR", "TO">>
    [] o = "IS DISTINCT FROM"     -> <<"IS", "DISTINCT", "FROM">>
    [] o = "IS NOT DISTINCT FROM" -> <<"IS", "NOT", "DISTINCT", "FROM">>
    [] o = "NOT IN"               -> <<"NOT", "IN">>
    [] o = "NOT BETWEEN"          -> <<"NOT", "BETWEEN">>
    [] OTHER                      -> <<o>>

\* The operator rules reduced from their keywords, and their names.
MultiOps == { o \in Ops : Len(Spelling(o)) > 1 } \ {"NOT BETWEEN"}
OperatorRule(o) ==
  CASE o = "IS NOT"               -> "is_not"
    [] o = "NOT LIKE"             -> "not_like"
    [] o = "SIMILAR TO"           -> "similar_to"
    [] o = "NOT SIMILAR TO"       -> "not_similar_to"
    [] o = "IS DISTINCT FROM"     -> "distinct_from"
    [] o = "IS NOT DISTINCT FROM" -> "not_distinct_from"
    [] o = "NOT IN"               -> "not_in"

\* Operators whose keywords stand directly in the expression production.
InlineOps == Ops \ MultiOps

Keywords == UNION { ToSet(Spelling(o)) : o \in Ops }
Terminals == Keywords \cup {"x", "list"}

\* Constant tables: each operator's keywords, the operators a keyword
\* starts, and the operators a run of keywords is a proper prefix of.
SpellingOf == [o \in Ops |-> Spelling(o)]
Starting == [t \in Terminals |-> { o \in Ops : SpellingOf[o][1] = t }]
KwPrefixes == UNION { { SubSeq(SpellingOf[o], 1, k) : k \in 1 .. Len(SpellingOf[o]) - 1 } : o \in Ops }
Extending == [p \in KwPrefixes |-> { o \in Ops : Len(SpellingOf[o]) > Len(p)
                                         /\ SubSeq(SpellingOf[o], 1, Len(p)) = p }]

\* The operand that follows an operator: IN takes a list or subquery.
OperandFor(o) == IF o \in InOps THEN "list" ELSE "x"

\* The precedence name each operator production is declared with.
OpPrec(o) ==
  CASE o \in {"+", "-"}                         -> "binary_plus"
    [] o \in {"*", "/", "%"}                    -> "binary_times"
    [] o = "^"                                  -> "binary_exp"
    [] o = "||"                                 -> "binary_concat"
    [] o \in {"=", "<", "<=", "!=", ">=", ">", "<>", "->", "->>", "#>", "#>>"}
                                                -> "binary_relation"
    [] o \in {"IS", "IS NOT", "IS DISTINCT FROM", "IS NOT DISTINCT FROM"}
                                                -> "binary_is"
    [] o \in {"LIKE", "NOT LIKE", "SIMILAR TO", "NOT SIMILAR TO"}
                                                -> "pattern_matching"
    [] o = "AND"                                -> "clause_connective"
    [] o = "OR"                                 -> "clause_disjunctive"
    [] o \in InOps                              -> "binary_in"
    [] o \in BetweenOps                         -> "between"

\* Variant: `^` declared with prec(...) instead of prec.left(...).
OpAssocExpNone(o) == IF o = "^" THEN "none" ELSE "left"

\* Every operator production is wrapped in prec.left.
OpAssoc(o) == "left"

\* The rule an operator's production belongs to.
RuleOf(o) == IF o \in BetweenOps THEN "between_expression" ELSE "binary_expression"

(***************************************************************************)
(* Trees and stack entries.                                                *)
(***************************************************************************)
Leaf(i) == [kind |-> "leaf", pos |-> i, kids |-> <<>>]
Node(k, i, kids) == [kind |-> k, pos |-> i, kids |-> kids]
NoTree == [kind |-> "none", pos |-> 0, kids |-> <<>>]
Entry(s, i, t, k) == [sym |-> s, pos |-> i, tree |-> t, tok |-> k]

La == IF pos <= Len(input) THEN input[pos] ELSE "end"

\* The n-th stack entry from the top, and its symbol ("bottom" below it).
Top(n) == stack[Len(stack) - n + 1]
SymAt(n) == IF Len(stack) >= n THEN Top(n).sym ELSE "bottom"

\* The n-th entry is a complete operator in S: a reduced operator rule, or
\* a keyword that is an operator by itself.
OpIn(n, S) == SymAt(n) \in {"op", "kw"} /\ Top(n).tok \in S
IsKw(n, k) == SymAt(n) = "kw" /\ Top(n).tok = k

\* The keywords shifted since the last expression: an operator under way.
RunLen == LET below == { i \in DOMAIN stack : stack[i].sym # "kw" }
          IN  Len(stack) - (IF below = {} THEN 0 ELSE Max(below))
TopRun == [i \in 1 .. RunLen |-> stack[Len(stack) - RunLen + i].tok]

\* The complete operator on top of the stack, if any, waiting for its right
\* operand: a reduced rule, or an inline operator's keywords.
PendingOps ==
  IF SymAt(1) = "op" THEN {Top(1).tok}
  ELSE IF SymAt(1) = "kw" THEN { o \in InlineOps : SpellingOf[o] = TopRun }
  ELSE {}

(***************************************************************************)
(* The LR(1) actions the automaton has for the lookahead, before conflict  *)
(* resolution.  An action is [act, kind, n, prec, assoc, rule]: n entries  *)
(* are popped by a reduction.  A shift action stands for one item of the   *)
(* state that can shift the lookahead, with that item's precedence.       *)
(***************************************************************************)
Act(a, k, n, o) ==
  [act |-> a, kind |-> k, n |-> n, prec |-> OpPrec(o), assoc |-> OpAssoc(o), rule |-> RuleOf(o)]
Plain(a, k, n, r) ==
  [act |-> a, kind |-> k, n |-> n, prec |-> "none", assoc |-> "none", rule |-> r]

\* The end of input may follow an expression pushed on prefix unless it
\* sits inside the low bound of a BETWEEN still waiting for its AND.
EndCanFollow(prefix) ==
  \A i \in DOMAIN prefix :
    (prefix[i].sym = "kw" /\ prefix[i].tok = "BETWEEN")
      => (i + 2 <= Len(prefix) /\ prefix[i + 2].sym = "kw" /\ prefix[i + 2].tok = AndOp)

\* The lookahead of a reduction that leaves its expression on prefix: the
\* first keyword of an operator, or the end of input.
Follows(n) ==
  LET prefix == SubSeq(stack, 1, Len(stack) - n)
  IN  \/ La \in Terminals /\ Starting[La] # {}
      \/ La = "end" /\ EndCanFollow(prefix)

\* Variant: an operator shift guarded by "not an operand" instead of "the
\* first keyword of an operator", so the end of input is shifted too.
ShiftCandsAtEnd ==
  (IF \/ SymAt(1) = "bottom" /\ La = "x"
      \/ \E o \in PendingOps : La = OperandFor(o)
   THEN {Plain("shift", "operand", 0, "expression")} ELSE {})
  \cup
  { Plain("shift", "keyword", 0, IF o \in MultiOps THEN OperatorRule(o) ELSE RuleOf(o)) :
      o \in IF RunLen > 0 /\ TopRun \in KwPrefixes
             THEN { o \in Extending[TopRun] : SpellingOf[o][RunLen + 1] = La } ELSE {} }
  \cup
  (IF SymAt(1) = "E" /\ La \notin {"x", "list"}
   THEN { Act("shift", "operator", 0, o) : o \in (IF La \in Terminals THEN Starting[La] ELSE {}) \cup {AndOp} }
   ELSE {})

\* Shifts: the operand an operator (or the start of input) expects; the
\* next keyword of an operator under way; and, after an expression, the
\* first keyword of every operator production, each with its precedence,
\* plus the AND of a BETWEEN whose low bound is on top.
ShiftCands ==
  (IF \/ SymAt(1) = "bottom" /\ La = "x"
      \/ \E o \in PendingOps : La = OperandFor(o)
   THEN {Plain("shift", "operand", 0, "expression")} ELSE {})
  \cup
  { Plain("shift", "keyword", 0, IF o \in MultiOps THEN OperatorRule(o) ELSE RuleOf(o)) :
      o \in IF RunLen > 0 /\ TopRun \in KwPrefixes
             THEN { o \in Extending[TopRun] : SpellingOf[o][RunLen + 1] = La } ELSE {} }
  \cup
  (IF SymAt(1) = "E"
   THEN { Act("shift", "operator", 0, o) : o \in IF La \in Terminals THEN Starting[La] ELSE {} }
        \cup (IF La = AndOp /\ IsKw(2, "BETWEEN") THEN {Act("shift", "operator", 0, "BETWEEN")} ELSE {})
   ELSE {})

\* Reductions of an operator rule from its keywords, on its operand.
ReduceOpCands ==
  { Plain("reduce", "operator", RunLen, OperatorRule(o)) :
      o \in { o \in MultiOps : SpellingOf[o] = TopRun /\ La = OperandFor(o) } }

\* Reductions of the expression productions.
ReduceCands ==
  ReduceOpCands
  \cup
  (IF SymAt(1) = "L" /\ OpIn(2, InOps) /\ SymAt(3) = "E" /\ Follows(3)
   THEN {Act("reduce", "in", 3, Top(2).tok)} ELSE {})
  \cup
  (IF SymAt(1) = "E" /\ OpIn(2, BinOps) /\ SymAt(3) = "E" /\ Follows(3)
   THEN {Act("reduce", "binary", 3, Top(2).tok)} ELSE {})
  \cup
  (IF /\ SymAt(1) = "E" /\ IsKw(2, AndOp) /\ SymAt(3) = "E" /\ IsKw(4, "BETWEEN")
      /\ ~IsKw(5, "NOT") /\ SymAt(5) = "E" /\ Follows(5)
   THEN {Act("reduce", "between", 5, "BETWEEN")} ELSE {})
  \cup
  (IF /\ SymAt(1) = "E" /\ IsKw(2, AndOp) /\ SymAt(3) = "E" /\ IsKw(4, "BETWEEN")
      /\ IsKw(5, "NOT") /\ SymAt(6) = "E" /\ Follows(6)
   THEN {Act("reduce", "between", 6, "NOT BETWEEN")} ELSE {})

(***************************************************************************)
(* tree-sitter's static resolution.  A reduction of lower precedence than  *)
(* another reduction on the same lookahead is dropped.  The shift items    *)
(* are then compared with the reductions' precedence: shift when some item *)
(* binds tighter and none looser, reduce when some binds looser and none   *)
(* tighter; when all are equal the reductions' associativity decides (all  *)
(* left: reduce, all right: shift).  Anything else stays: a conflict.     *)
(***************************************************************************)
\* Variant: reductions competing on one lookahead are not filtered by
\* precedence.
ResolveNoReduceFilter(S, R) ==
  LET rp == (CHOOSE r \in R : TRUE).prec
      more == \E s \in S : PrecCmp(s.prec, rp) = "gt"
      less == \E s \in S : PrecCmp(s.prec, rp) = "lt"
      assocs == { r.assoc : r \in R }
  IN  IF S = {} \/ R = {} THEN S \cup R
      ELSE CASE more /\ ~less                      -> S
             [] less /\ ~more                      -> R
             [] ~more /\ ~less /\ assocs = {"left"}  -> R
             [] ~more /\ ~less /\ assocs = {"right"} -> S
             [] OTHER                              -> S \cup R

Resolve(S, R) ==
  LET R1 == { r \in R : \A r2 \in R : PrecCmp(r2.prec, r.prec) # "gt" }
      rp == (CHOOSE r \in R1 : TRUE).prec
      more == \E s \in S : PrecCmp(s.prec, rp) = "gt"
      less == \E s \in S : PrecCmp(s.prec, rp) = "lt"
      assocs == { r.assoc : r \in R1 }
  IN  IF S = {} \/ R1 = {} THEN S \cup R1
      ELSE CASE more /\ ~less                      -> S
             [] less /\ ~more                      -> R1
             [] ~more /\ ~less /\ assocs = {"left"}  -> R1
             [] ~more /\ ~less /\ assocs = {"right"} -> S
             [] OTHER                              -> S \cup R1

Actions == Resolve(ShiftCands, ReduceCands)

\* A state where resolution leaves a reduction beside another action.
IsConflict == \E a, b \in Actions : a # b /\ a.act = "reduce"

(***************************************************************************)
(* Steps.                                                                  *)
(***************************************************************************)
Shift ==
  /\ status = "parsing"
  /\ \E a \in Actions : a.act = "shift"
  /\ stack' = Append(stack,
                CASE La = "x"    -> Entry("E", pos, Leaf(pos), La)
                  [] La = "list" -> Entry("L", pos, Leaf(pos), La)
                  [] OTHER       -> Entry("kw", pos, NoTree, La))
  /\ pos' = pos + 1
  /\ UNCHANGED <<input, status>>

\* is_not, not_like, similar_to, not_similar_to, distinct_from,
\* not_distinct_from, not_in: pop the keywords, push the operator.
ReduceOperator ==
  /\ status = "parsing"
  /\ \E a \in Actions : a.act = "reduce" /\ a.kind = "operator"
  /\ \E o \in MultiOps :
       /\ SpellingOf[o] = TopRun
       /\ stack' = Append(SubSeq(stack, 1, Len(stack) - RunLen),
                          Entry("op", Top(RunLen).pos, NoTree, o))
  /\ UNCHANGED <<input, pos, status>>

\* Pop the n entries of an expression production and push its node; the
\* node's pos is that of the operator's first keyword.
ReduceBy(k, n) ==
  LET kids == [i \in 1 .. n |-> stack[Len(stack) - n + i]]
      operands == SelectSeq(kids, LAMBDA e : e.sym \in {"E", "L"})
  IN  /\ status = "parsing"
      /\ \E a \in Actions : a.act = "reduce" /\ a.kind = k /\ a.n = n
      /\ stack' = Append(SubSeq(stack, 1, Len(stack) - n),
                         Entry("E", kids[1].pos,
                               Node(k, kids[2].pos, [i \in DOMAIN operands |-> operands[i].tree]),
                               "x"))
      /\ UNCHANGED <<input, pos, status>>

\* binary_expression:  expression operator expression
ReduceBinary == ReduceBy("binary", 3)

\* binary_expression:  expression (IN | not_in) (list | subquery)
ReduceIn == ReduceBy("in", 3)

\* between_expression:  expression BETWEEN expression AND expression
ReduceBetween == ReduceBy("between", 5)

\* between_expression:  expression NOT BETWEEN expression AND expression
ReduceNotBetween == ReduceBy("between", 6)

\* The whole input is one expression.
Accept ==
  /\ status = "parsing"
  /\ La = "end" /\ Len(stack) = 1 /\ SymAt(1) = "E"
  /\ status' = "accepted"
  /\ UNCHANGED <<input, pos, stack>>

\* No action for the lookahead: a syntax error.
Reject ==
  /\ status = "parsing"
  /\ Actions = {}
  /\ ~(La = "end" /\ Len(stack) = 1 /\ SymAt(1) = "E")
  /\ status' = "error"
  /\ UNCHANGED <<input, pos, stack>>

\* A finished parse stays finished.
Finished ==
  /\ status # "parsing"
  /\ UNCHANGED vars

Init ==
  /\ input \in Inputs
  /\ pos = 1
  /\ stack = <<>>
  /\ status = "parsing"

Next ==
  \/ Shift
  \/ ReduceOperator
  \/ ReduceBinary
  \/ ReduceIn
  \/ ReduceBetween
  \/ ReduceNotBetween
  \/ Accept
  \/ Reject
  \/ Finished

Spec == Init /\ [][Next]_vars

(***************************************************************************)
(* Properties.                                                             *)
(***************************************************************************)
TypeOK ==
  /\ input \in Seq(Terminals)
  /\ pos \in 1 .. Len(input) + 1
  /\ \A i \in DOMAIN stack : /\ stack[i].sym \in {"E", "L", "kw", "op"}
                             /\ stack[i].tok \in Terminals \cup Ops
  /\ status \in {"parsing", "accepted", "error"}

\* The rules whose items take part in the actions left after resolution.
ConflictRules == { a.rule : a \in Actions }

\* Section 4.6: every conflict the precedences and associativities leave
\* unresolved is between rules the grammar declares in `conflicts`;
\* tree-sitter refuses to generate the parser otherwise.
NoUndeclaredConflict ==
  status = "parsing" /\ IsConflict => ConflictRules \in DeclaredConflicts

\* The parse result.
Result ==
  CASE status = "accepted" -> stack[1].tree
    [] status = "error"    -> [kind |-> "error", pos |-> 0, kids |-> <<>>]
    [] OTHER               -> [kind |-> "pending", pos |-> 0, kids |-> <<>>]
=============================================================================
