----------------------------- MODULE References -----------------------------
(***************************************************************************)
(* The rules of a SELECT that name objects and fields, as the parser       *)
(* tree-sitter builds from them: the canonical LR(1) item sets of the     *)
(* productions below, the static resolution of their conflicts by         *)
(* precedence and associativity, and a GLR parse that runs every action   *)
(* the resolution leaves.  grammar.js declares two of the conflicts this  *)
(* table has (lines 12-13):                                                *)
(*     [$.object_reference, $.qualified_field],  [$.object_reference]      *)
(*                                                                         *)
(* Productions are tree-sitter's flattening of the rules: an optional     *)
(* becomes two productions, repeat a hidden left-recursive helper rule.   *)
(* Two statements start the grammar: a SELECT, of which only the parts    *)
(* that reach a name are kept (DISTINCT, ONLY, WHERE and the non-name     *)
(* alternatives of expression start with tokens no name shares), and a    *)
(* column's DEFAULT with a literal or an invocation, whose argument list  *)
(* brings order_by, limit and the aggregate separator, the places where   *)
(* literal's prec and order_by's prec.right decide the parse.             *)
(*                                                                         *)
(* Tokens: "id" an identifier, "str" a quoted string, "int" any other    *)
(* literal; every other token is one keyword or symbol; "$" is the end.   *)
(***************************************************************************)
EXTENDS Naturals, Sequences, FiniteSets, TLC

LOCAL INSTANCE FiniteSetsExt

CONSTANTS
  Inputs         \* the token sequences parsed, one per behaviour

VARIABLES
  input,         \* the token sequence being parsed
  pos,           \* index of the lookahead token
  heads,         \* the GLR stacks alive, each a sequence of [s, t] entries
  status,        \* "parsing" | "accepted" | "error"
  result,        \* the trees of the accepting stacks
  table          \* the parse table the generator emitted: set by Init, never changed

vars == <<input, pos, heads, status, result, table>>

\* A production: its rule, its symbols, the precedence of its steps, and
\* the steps that prec.right wraps.
P(l, r, pr, rt) == [lhs |-> l, rhs |-> r, prec |-> pr, right |-> rt]

\* select_statement, select, select_expression and term (700-728), under
\* the start rule; DISTINCT is left out.
SelectProds ==
  << P("_start", <<"select_statement">>, 0, {}),
     P("select_statement", <<"select", "from">>, 0, {}),
     P("select", <<"SELECT", "select_expression">>, 0, {}),
     P("select_expression", <<"term">>, 0, {}),
     P("select_expression", <<"term", "_select_expression_repeat1">>, 0, {}),
     P("_select_expression_repeat1", <<",", "term">>, 0, {}),
     P("_select_expression_repeat1", <<"_select_expression_repeat1", ",", "term">>, 0, {}),
     P("term", <<"all_fields">>, 0, {}),
     P("term", <<"expression">>, 0, {}),
     P("term", <<"expression", "alias_name">>, 0, {}) >>

\* all_fields: [object_reference .] *
AllFieldsProds ==
  << P("all_fields", <<"*">>, 0, {}),
     P("all_fields", <<"object_reference", ".", "*">>, 0, {}) >>

\* Of expression (prec 1) only the literal, qualified_field and
\* parenthesised alternatives; the operator, list, subquery and other
\* alternatives are left out.
ExpressionProds ==
  << P("expression", <<"literal">>, 1, {}),
     P("expression", <<"qualified_field">>, 1, {}),
     P("expression", <<"(", "expression", ")">>, 1, {}) >>

\* Variant: qualified_field without the parenthesised object.
QualifiedFieldProdsNoParen ==
  << P("qualified_field", <<"id">>, 0, {}),
     P("qualified_field", <<"object_reference", ".", "id">>, 0, {1}) >>

\* qualified_field: [optional_parenthesis(object_reference) .] id, where
\* optional_parenthesis is prec.right over its alternatives' steps.
QualifiedFieldProds ==
  << P("qualified_field", <<"id">>, 0, {}),
     P("qualified_field", <<"object_reference", ".", "id">>, 0, {1}),
     P("qualified_field", <<"(", "object_reference", ")", ".", "id">>, 0, {1, 2, 3}) >>

\* object_reference: [identifier .] identifier
ObjectReferenceProds ==
  << P("object_reference", <<"id">>, 0, {}),
     P("object_reference", <<"id", ".", "id">>, 0, {}) >>

\* alias_name, from and relation; ONLY and WHERE are left out.
FromProds ==
  << P("alias_name", <<"id">>, 0, {}),
     P("alias_name", <<"AS", "id">>, 0, {}),
     P("from", <<"FROM", "relation">>, 0, {}),
     P("relation", <<"object_reference">>, 0, {}) >>

\* Variant: literal without its precedence.
LiteralProdsNoPrec ==
  << P("literal", <<"int">>, 0, {}),
     P("literal", <<"literal_string">>, 0, {}),
     P("literal_string", <<"str">>, 1, {}) >>

\* literal, prec 2, and literal_string, prec 1: "int" stands for the
\* number and keyword alternatives, "str" for a quoted string.
LiteralProds ==
  << P("literal", <<"int">>, 2, {}),
     P("literal", <<"literal_string">>, 2, {}),
     P("literal_string", <<"str">>, 1, {}) >>

\* invocation, prec 1 over both argument forms; the repeat of paren_list
\* is the hidden rule invocation_repeat1, outside the prec.  A production
\* both forms spell (f(x), f(x ORDER BY y)) is one production.  DISTINCT
\* and FILTER are left out: they only add a prefix and a suffix.
InvocationProds ==
  << P("invocation", <<"object_reference", "(", ")">>, 1, {}),
     P("invocation", <<"object_reference", "(", "term", ")">>, 1, {}),
     P("invocation", <<"object_reference", "(", "term", "order_by", ")">>, 1, {}),
     P("invocation", <<"object_reference", "(", "term", "invocation_repeat1", ")">>, 1, {}),
     P("invocation", <<"object_reference", "(", "term", "order_by", "invocation_repeat1", ")">>, 1, {}),
     P("invocation_repeat1", <<",", "term">>, 0, {}),
     P("invocation_repeat1", <<",", "term", "order_by">>, 0, {}),
     P("invocation_repeat1", <<"invocation_repeat1", ",", "term">>, 0, {}),
     P("invocation_repeat1", <<"invocation_repeat1", ",", "term", "order_by">>, 0, {}),
     P("invocation", <<"object_reference", "(", "term", "limit", ")">>, 1, {}),
     P("invocation", <<"object_reference", "(", "term", "order_by", "limit", ")">>, 1, {}),
     P("invocation", <<"object_reference", "(", "term", "SEPARATOR", "literal_string", ")">>, 1, {}),
     P("invocation", <<"object_reference", "(", "term", ",", "literal_string", ")">>, 1, {}),
     P("invocation", <<"object_reference", "(", "term", "order_by", "SEPARATOR", "literal_string", ")">>, 1, {}),
     P("invocation", <<"object_reference", "(", "term", "order_by", ",", "literal_string", ")">>, 1, {}),
     P("invocation", <<"object_reference", "(", "term", "SEPARATOR", "literal_string", "limit", ")">>, 1, {}),
     P("invocation", <<"object_reference", "(", "term", ",", "literal_string", "limit", ")">>, 1, {}),
     P("invocation", <<"object_reference", "(", "term", "order_by", "SEPARATOR", "literal_string", "limit", ")">>, 1, {}),
     P("invocation", <<"object_reference", "(", "term", "order_by", ",", "literal_string", "limit", ")">>, 1, {}) >>

\* Variant: order_by without prec.right.
OrderByProdsNoRight ==
  << P("order_by", <<"ORDER", "BY", "order_target">>, 0, {}),
     P("order_by", <<"ORDER", "BY", "order_target", "order_by_repeat1">>, 0, {}),
     P("order_by_repeat1", <<",", "order_target">>, 0, {}),
     P("order_by_repeat1", <<"order_by_repeat1", ",", "order_target">>, 0, {}),
     P("order_target", <<"expression">>, 0, {}),
     P("order_target", <<"expression", "direction">>, 0, {}),
     P("direction", <<"ASC">>, 0, {}) >>

\* order_by, prec.right over every step; order_target with direction
\* (ASC stands for ASC and DESC; USING and NULLS are left out).
OrderByProds ==
  << P("order_by", <<"ORDER", "BY", "order_target">>, 0, {1, 2, 3}),
     P("order_by", <<"ORDER", "BY", "order_target", "order_by_repeat1">>, 0, {1, 2, 3, 4}),
     P("order_by_repeat1", <<",", "order_target">>, 0, {}),
     P("order_by_repeat1", <<"order_by_repeat1", ",", "order_target">>, 0, {}),
     P("order_target", <<"expression">>, 0, {}),
     P("order_target", <<"expression", "direction">>, 0, {}),
     P("direction", <<"ASC">>, 0, {}) >>

\* limit and offset.
LimitProds ==
  << P("limit", <<"LIMIT", "literal">>, 0, {}),
     P("limit", <<"LIMIT", "literal", "offset">>, 0, {}),
     P("offset", <<"OFFSET", "literal">>, 0, {}) >>

\* A column's DEFAULT, the rule that reaches invocation, as a second
\* statement; optional_parenthesis is prec.right over its steps.  Of
\* _inner_default_expression the literal and invocation alternatives.
DefaultProds ==
  << P("_start", <<"_default_expression">>, 0, {}),
     P("_default_expression", <<"DEFAULT", "_inner_default_expression">>, 0, {2}),
     P("_default_expression", <<"DEFAULT", "(", "_inner_default_expression", ")">>, 0, {2, 3, 4}),
     P("_inner_default_expression", <<"literal">>, 0, {}),
     P("_inner_default_expression", <<"invocation">>, 0, {}) >>

Prods ==
  SelectProds \o AllFieldsProds \o ExpressionProds \o QualifiedFieldProds
    \o ObjectReferenceProds \o FromProds \o LiteralProds \o InvocationProds
    \o OrderByProds \o LimitProds \o DefaultProds

Rule(p) == Prods[p].lhs
Rhs(p) == Prods[p].rhs
NonTerminals == { Rule(p) : p \in DOMAIN Prods }
Terminals == { "id", ".", "*", "(", ")", ",", "AS", "SELECT", "FROM", "str", "int",
               "ORDER", "BY", "ASC", "SEPARATOR", "LIMIT", "OFFSET", "DEFAULT", "$" }
\* The productions of the start rule, one per statement kind.
StartProds == { p \in DOMAIN Prods : Rule(p) = "_start" }
Symbols == NonTerminals \cup Terminals

\* Variant: the object_reference shift/reduce conflict left out of conflicts.
DeclaredConflictsNoObjectReference ==
  { {"object_reference", "qualified_field"}, {"between_expression", "binary_expression"} }

\* conflicts (11-15): the sets of rules allowed to stay in conflict.
DeclaredConflicts ==
  { {"object_reference", "qualified_field"}, {"object_reference"},
    {"between_expression", "binary_expression"} }

(***************************************************************************)
(* FIRST sets.  No production is empty, so FIRST of a sequence is FIRST   *)
(* of its first symbol.                                                    *)
(***************************************************************************)
RECURSIVE FirstFix(_)
FirstFix(f) ==
  LET g == [x \in NonTerminals |->
              f[x] \cup UNION { IF Rhs(p)[1] \in Terminals THEN {Rhs(p)[1]}
                                ELSE f[Rhs(p)[1]] : p \in { q \in DOMAIN Prods : Rule(q) = x } }] @@ <<>>
  IN  IF g = f THEN f ELSE FirstFix(g)

FirstNT == FirstFix([x \in NonTerminals |-> {}])

First(x) == IF x \in Terminals THEN {x} ELSE FirstNT[x]

(***************************************************************************)
(* LR(1) items [p, d, la]: production p with its dot after d symbols,     *)
(* lookahead la.                                                           *)
(***************************************************************************)
Item(p, d, la) == [p |-> p, d |-> d, la |-> la]
Done(it) == it.d = Len(Rhs(it.p))
NextSym(it) == Rhs(it.p)[it.d + 1]

\* The lookaheads of the items a closure adds for the symbol after the dot.
Follow(it) == IF it.d + 2 <= Len(Rhs(it.p)) THEN First(Rhs(it.p)[it.d + 2]) ELSE {it.la}

RECURSIVE Closure(_)
Closure(I) ==
  LET J == I \cup { Item(q, 0, b) :
                    <<q, b>> \in UNION { { q \in DOMAIN Prods : Rule(q) = NextSym(it) } \X Follow(it) :
                                         it \in { it \in I : ~Done(it) /\ NextSym(it) \in NonTerminals } } }
  IN  IF J = I THEN I ELSE Closure(J)

Goto(I, x) ==
  Closure({ [it EXCEPT !.d = @ + 1] : it \in { it \in I : ~Done(it) /\ NextSym(it) = x } })

StartState == Closure({ Item(p, 0, "$") : p \in StartProds })

(***************************************************************************)
(* The precedence and associativity of an item are those of the step     *)
(* before its dot; a reduction's are those of its production's last step. *)
(***************************************************************************)
ItemPrec(it) == Prods[it.p].prec
ItemAssoc(it) == IF it.d \in Prods[it.p].right THEN "right" ELSE "none"

\* The items that lookahead a extends: past their first step, with a in
\* FIRST of the symbol after the dot.
ShiftItems(I, a) == { it \in I : it.d > 0 /\ ~Done(it) /\ a \in First(NextSym(it)) }

ReduceItems(I, a) == { it \in I : Done(it) /\ it.la = a /\ it.p \notin StartProds }

CanShift(I, a) == \E it \in I : ~Done(it) /\ NextSym(it) = a

(***************************************************************************)
(* tree-sitter's static resolution: reductions of lower precedence than  *)
(* another on the same lookahead are dropped; the shift items are then    *)
(* compared with the reductions' precedence, and on a tie the reductions' *)
(* associativity decides.  What is left is the set of actions.           *)
(***************************************************************************)
\* The reductions of highest precedence among the reductions R.
Survivors(R) == { r \in R : \A r2 \in R : ItemPrec(r2) <= ItemPrec(r) }

\* Which actions stay, from the precedence rp of the surviving
\* reductions, their associativities, and the precedences of the shift
\* items.
KeepBy(rp, assocs, sps) ==
  LET more == \E sp \in sps : sp > rp
      less == \E sp \in sps : sp < rp
  IN  CASE more /\ ~less                       -> "shift"
        [] less /\ ~more                       -> "reduce"
        [] ~more /\ ~less /\ assocs = {"left"}  -> "reduce"
        [] ~more /\ ~less /\ assocs = {"right"} -> "shift"
        [] OTHER                               -> "both"

Keep(R1, S, canShift) ==
  IF ~canShift \/ R1 = {} THEN "both"
  ELSE KeepBy(ItemPrec(CHOOSE r \in R1 : TRUE), { ItemAssoc(r) : r \in R1 }, { ItemPrec(s) : s \in S })

ResolvedBy(R1, S, canShift, keep) ==
  [shift      |-> canShift /\ keep # "reduce",
   reduce     |-> IF keep = "shift" THEN {} ELSE R1,
   shiftItems |-> S]

Resolved(I, a) ==
  LET R1 == Survivors(ReduceItems(I, a))
      S  == ShiftItems(I, a)
  IN  ResolvedBy(R1, S, CanShift(I, a), Keep(R1, S, CanShift(I, a)))

Accepting(I) == \E p \in StartProds : Item(p, 1, "$") \in I

\* Whether resolution r leaves a reduction beside another action.
IsConflict(r) == r.reduce # {} /\ (r.shift \/ Cardinality(r.reduce) > 1)

\* The rules whose items take part in that conflict.
ConflictRules(r) == { Rule(it.p) : it \in r.reduce \cup (IF r.shift THEN r.shiftItems ELSE {}) }

(***************************************************************************)
(* The parse table: the item sets reachable from the start state, found   *)
(* breadth first.  A state is numbered after the states of earlier levels *)
(* by the first edge that finds it: the number of its source and the code *)
(* of the symbol, a symbol's code being its first place in the            *)
(* productions.  The goto and the actions of every state and symbol are   *)
(* then computed once.                                                    *)
(***************************************************************************)
GotoSymbols == Symbols \ {"$"}

SymCode(x) ==
  Min({ 100 * p + j : <<p, j>> \in { e \in (DOMAIN Prods) \X (0..8) :
          IF e[2] = 0 THEN Rule(e[1]) = x ELSE e[2] <= Len(Rhs(e[1])) /\ Rhs(e[1])[e[2]] = x } })

\* The gotos of the last level's states: edge <<i, x>> to an item set.
LevelEdges(r) == [e \in r.front \X GotoSymbols |-> Goto(r.st[e[1]], e[2])] @@ <<>>

\* The key of an item set found by edges E: its first edge's source and
\* symbol.
EdgeKey(E, J) == Min({ 10000 * e[1] + SymCode(e[2]) : e \in { e \in DOMAIN E : E[e] = J } })

\* The new item sets, numbered after the n states so far in key order.
Numbered(new, key, n) ==
  [J \in new |-> n + 1 + Cardinality({ J2 \in new : key[J2] < key[J] })] @@ <<>>

\* The states numbered so far (st), their numbers (id) and the numbers of
\* the last level (front), extended by the new states num numbers.
AddLevel(r, num) ==
  [st    |-> r.st \o [k \in 1..Cardinality(DOMAIN num) |-> CHOOSE J \in DOMAIN num : num[J] = Len(r.st) + k],
   id    |-> r.id @@ num,
   front |-> { num[J] : J \in DOMAIN num }]

\* One level: the item sets the last level's gotos find, numbered.
NextLevelOf(r, E) ==
  LET new == { E[e] : e \in DOMAIN E } \ ({{}} \cup DOMAIN r.id)
  IN  AddLevel(r, Numbered(new, [J \in new |-> EdgeKey(E, J)] @@ <<>>, Len(r.st)))

NextLevel(r) == NextLevelOf(r, LevelEdges(r))

\* Levels until one finds no new state.
RECURSIVE Levels(_)
Levels(r) == IF r.front = {} THEN r ELSE Levels(NextLevel(r))

\* The item sets found, and the number of each, from an item set to it.
Found == Levels([st |-> <<StartState>>, id |-> StartState :> 1, front |-> {1}])

States == Found.st

StateIds == DOMAIN States

\* The goto of state i on symbol x: 0 where it has none.
GotoId(i, x) == LET J == Goto(States[i], x) IN IF J = {} THEN 0 ELSE Found.id[J]

\* Whether a lookahead is shifted, the productions it reduces by, and the
\* rules of the conflict resolution r leaves there, if any.
ActFrom(r) == [shift    |-> r.shift,
               reduce   |-> { it.p : it \in r.reduce },
               conflict |-> IF IsConflict(r) THEN ConflictRules(r) ELSE {}]

\* The actions of lookahead a in state i.
ActOf(i, a) == ActFrom(Resolved(States[i], a))

\* The table as one explicit function, state by state and symbol by symbol.
Table ==
  [i \in StateIds |-> [goto      |-> [x \in Symbols |-> IF x = "$" THEN 0 ELSE GotoId(i, x)] @@ <<>>,
                       act       |-> [a \in Terminals |-> ActOf(i, a)] @@ <<>>,
                       accepting |-> Accepting(States[i])]] @@ <<>>

(***************************************************************************)
(* The GLR parse.  Each step reduces every head by every reduction the    *)
(* table leaves on the lookahead, until no new stack appears, then shifts *)
(* the lookahead on every stack that can; a stack that cannot dies.       *)
(* The steps read the table from the state, as the runtime reads the     *)
(* generated one.                                                          *)
(***************************************************************************)
La == IF pos <= Len(input) THEN input[pos] ELSE "$"

Top(h) == h[Len(h)].s

Leaf(tok) == [r |-> tok, k |-> <<>>]

\* Pop the production's symbols, push its rule with their trees as children.
ReduceBy(h, p) ==
  LET n     == Len(Rhs(p))
      below == SubSeq(h, 1, Len(h) - n)
  IN  Append(below, [s |-> table[Top(below)].goto[Rule(p)],
                     t |-> [r |-> Rule(p), k |-> [i \in 1..n |-> h[Len(h) - n + i].t]]])

RECURSIVE ReduceAll(_)
ReduceAll(H) ==
  LET G == H \cup { ReduceBy(h, p) : <<h, p>> \in
                      UNION { {h} \X table[Top(h)].act[La].reduce : h \in H } }
  IN  IF G = H THEN H ELSE ReduceAll(G)

Shifted(H) ==
  { Append(h, [s |-> table[Top(h)].goto[La], t |-> Leaf(La)]) :
      h \in { h \in H : table[Top(h)].act[La].shift } }

\* The stacks that accept at the end of the input.
AcceptedStacks(H) == { h \in H : Len(h) = 2 /\ table[Top(h)].accepting }

Init ==
  /\ input \in Inputs
  /\ pos = 1
  /\ heads = { << [s |-> 1, t |-> Leaf("$")] >> }
  /\ status = "parsing"
  /\ result = {}
  /\ table = Table

\* Reduce on the lookahead and shift it.
Advance ==
  /\ status = "parsing"
  /\ La # "$"
  /\ LET H == Shifted(ReduceAll(heads))
     IN  H # {} /\ heads' = H
  /\ pos' = pos + 1
  /\ UNCHANGED <<input, status, result, table>>

\* At the end of the input, the trees of every accepting stack.
Accept ==
  /\ status = "parsing"
  /\ La = "$"
  /\ LET A == AcceptedStacks(ReduceAll(heads))
     IN  A # {} /\ result' = { h[2].t : h \in A }
  /\ status' = "accepted"
  /\ UNCHANGED <<input, pos, heads, table>>

\* No stack survives the lookahead.
Reject ==
  /\ status = "parsing"
  /\ IF La = "$" THEN AcceptedStacks(ReduceAll(heads)) = {}
                  ELSE Shifted(ReduceAll(heads)) = {}
  /\ status' = "error"
  /\ UNCHANGED <<input, pos, heads, result, table>>

Finished ==
  /\ status # "parsing"
  /\ UNCHANGED vars

Next == Advance \/ Accept \/ Reject \/ Finished

Spec == Init /\ [][Next]_vars /\ WF_vars(Advance \/ Accept \/ Reject)
=============================================================================
