--------------------------- MODULE StatementGrammar ---------------------------
(***************************************************************************)
(* The top level of grammar.js,                                            *)
(*     program: repeat(seq(statement_transaction, ';'))                    *)
(* run by tree-sitter's GLR parser over the rule table of StatementRules.  *)
(*                                                                         *)
(* A term's meaning is the set of positions where a match of it that       *)
(* starts at position i can end (Ends).  The parser keeps every position   *)
(* where one of its stacks may start the next unit (heads): a unit is a    *)
(* statement_transaction followed by ';', and where the rules allow a      *)
(* unit to end at several ';' the parser keeps a stack for each.  This is  *)
(* the language of the productions: tree-sitter's static precedence        *)
(* resolution can only drop parses from it, never add one.                 *)
(***************************************************************************)
EXTENDS StatementRules, FiniteSetsExt

CONSTANTS Programs   \* the token sequences handed to the parser

VARIABLES
  input,    \* the tokens
  heads,    \* positions where a live stack starts its next unit
  units,    \* spans <<first token, index of its ';'>> of the units parsed
  status    \* "parsing", "accepted" or "error"

vars == <<input, heads, units, status>>

(***************************************************************************)
(* A chart for input inp maps each rule r and position i to the pairs      *)
(* <<j, n>> such that r has n > 0 parse trees over tokens i .. j-1.        *)
(* tree-sitter flattens a rule's choices, optionals and repeats into       *)
(* productions, dropping a production equal to one it already has, so a   *)
(* node is told apart from another by its children only: Derivs(inp, C,    *)
(* t, i) is the set of pairs <<j, kids>>, kids the sequence of named       *)
(* children <<rule, first, next>> of a match of term t from i to j.  The   *)
(* tokens between them are fixed by their positions.                       *)
(***************************************************************************)
RECURSIVE Derivs(_, _, _, _), SeqDerivs(_, _, _, _, _), RepDerivs(_, _, _, _)
Derivs(inp, C, t, i) ==
  CASE t.k = "tok" -> IF i <= Len(inp) /\ inp[i] = t.a THEN {<<i + 1, <<>>>>} ELSE {}
    [] t.k = "nt"  -> { <<q[1], <<<<t.a, i, q[1]>>>>>> : q \in C[t.a][i] }
    [] t.k = "seq" -> SeqDerivs(inp, C, t.a, 1, i)
    [] t.k = "alt" -> UNION { Derivs(inp, C, t.a[x], i) : x \in DOMAIN t.a }
    [] t.k = "opt" -> {<<i, <<>>>>} \cup Derivs(inp, C, t.a, i)
    [] t.k = "rep" -> RepDerivs(inp, C, t.a, i)
\* The matches of s[k], ..., s[Len(s)] from i.
SeqDerivs(inp, C, s, k, i) ==
  IF k > Len(s) THEN {<<i, <<>>>>}
  ELSE UNION { { <<r[1], q[2] \o r[2]>> : r \in SeqDerivs(inp, C, s, k + 1, q[1]) } :
               q \in Derivs(inp, C, s[k], i) }
\* The matches of zero or more nonempty iterations of t from i.
RepDerivs(inp, C, t, i) ==
  {<<i, <<>>>>} \cup
  UNION { { <<r[1], q[2] \o r[2]>> : r \in RepDerivs(inp, C, t, q[1]) } :
          q \in { q \in Derivs(inp, C, t, i) : q[1] > i } }

\* The number of trees of the children kids[k], ..., kids[Len(kids)] in C.
RECURSIVE KidTrees(_, _, _)
KidTrees(C, kids, k) ==
  IF k > Len(kids) THEN 1
  ELSE LET c == kids[k]
           n == CHOOSE p \in C[c[1]][c[2]] : p[1] = c[3]
       IN  n[2] * KidTrees(C, kids, k + 1)

\* The pairs <<j, trees>> of a set d of matches <<j, kids>>.
Group(C, d) ==
  { <<j, MapThenSumSet(LAMBDA x : KidTrees(C, x[2], 1), { x \in d : x[1] = j })>> :
    j \in { x[1] : x \in d } }

\* One round: every rule's derivations from those of the rules it names.
ChartStep(inp, C) ==
  [r \in DOMAIN Rules |-> [i \in 1 .. Len(inp) + 1 |-> Group(C, Derivs(inp, C, Rules[r], i))]]

\* The least fixpoint from the empty chart: the rules have no derivation
\* cycle, so it is reached after as many rounds as trees are deep.
RECURSIVE Saturate(_, _)
Saturate(inp, C) == LET C2 == ChartStep(inp, C) IN IF C2 = C THEN C ELSE Saturate(inp, C2)

ChartOf == [inp \in Programs |->
              Saturate(inp, [r \in DOMAIN Rules |-> [i \in 1 .. Len(inp) + 1 |-> {}]])]

\* The number of parse trees of rule r over tokens i .. j-1 of input.
Count(r, i, j) ==
  LET d == { p \in ChartOf[input][r][i] : p[1] = j }
  IN  IF d = {} THEN 0 ELSE (CHOOSE p \in d : TRUE)[2]

Unit == "statement_transaction"

\* The ';' that can end a unit starting at i.
UnitEnds(i) == { e \in { q[1] : q \in ChartOf[input][Unit][i] } :
                 e <= Len(input) /\ input[e] = ";" }

\* Variant: the next unit taken to start one token past the token after ';'.
AdvanceTwo(hs) == { e + 2 : e \in UNION { UnitEnds(h) : h \in hs } }

\* Variant: a stack that has read a unit is kept beside the stacks it forks.
AdvanceKeepStacks(hs) == hs \cup { e + 1 : e \in UNION { UnitEnds(h) : h \in hs } }

\* Where the stacks at hs start their next unit.
Advance(hs) == { e + 1 : e \in UNION { UnitEnds(h) : h \in hs } }

AtEnd == Len(input) + 1

Init ==
  /\ input \in Programs
  /\ heads = {1}
  /\ units = {}
  /\ status = "parsing"

\* Every live stack parses one statement_transaction and its ';'.
ParseUnit ==
  /\ status = "parsing"
  /\ AtEnd \notin heads
  /\ Advance(heads) # {}
  /\ heads' = Advance(heads)
  /\ units' = units \cup UNION { { <<h, e>> : e \in UnitEnds(h) } : h \in heads }
  /\ UNCHANGED <<input, status>>

\* A stack has consumed the whole input: repeat(...) accepts here.
Accept ==
  /\ status = "parsing"
  /\ AtEnd \in heads
  /\ status' = "accepted"
  /\ UNCHANGED <<input, heads, units>>

\* No stack can parse another unit: a syntax error.
Reject ==
  /\ status = "parsing"
  /\ AtEnd \notin heads
  /\ Advance(heads) = {}
  /\ status' = "error"
  /\ UNCHANGED <<input, heads, units>>

\* A finished parse stutters.
Finished ==
  /\ status # "parsing"
  /\ UNCHANGED vars

Next == ParseUnit \/ Accept \/ Reject \/ Finished

Spec == Init /\ [][Next]_vars

(* Each variable holds a value of its kind.                                *)
TypeOK ==
  /\ input \in Programs
  /\ heads \subseteq 1 .. AtEnd
  /\ units \subseteq (1 .. Len(input)) \X (1 .. Len(input))
  /\ status \in {"parsing", "accepted", "error"}

(***************************************************************************)
(* Section 4.6: a production not listed in conflicts is unambiguous by     *)
(* construction, so each unit the parser has read has exactly one          *)
(* derivation tree of statement_transaction.                               *)
(***************************************************************************)
UnitsUnambiguous == \A u \in units : Count(Unit, u[1], u[2]) = 1
=============================================================================
