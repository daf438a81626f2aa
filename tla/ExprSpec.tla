------------------------------ MODULE ExprSpec ------------------------------
(***************************************************************************)
(* What the expression grammar promises (spec.md sections 4.3 and 4.6).    *)
(*                                                                         *)
(* A token sequence is parsed in one step into a derivation tree of the    *)
(* ambiguous expression productions                                        *)
(*     expression -> operand                                               *)
(*                 | expression BINOP expression                           *)
(*                 | expression IN list                                    *)
(*                 | expression BETWEEN expression AND expression          *)
(* in which every pair of operators that compete for the same operand is   *)
(* resolved by the precedence table, and in which the AND of a BETWEEN is  *)
(* never read as the logical connective.  The table is a parameter, so the *)
(* same specification is instantiated with the table the grammar declares  *)
(* and with the one spec.md states.                                        *)
(*                                                                         *)
(* A tree is a record [kind, pos, kids]: pos is the index of its operator  *)
(* token (of the token itself for a leaf), so the operator of a node is    *)
(* input[pos] and two trees over one input are equal iff they group the    *)
(* tokens the same way.                                                    *)
(***************************************************************************)
EXTENDS Naturals, Sequences

CONSTANTS
  Inputs,        \* the token sequences that may be parsed
  BinOps,        \* operators whose right operand is an expression
  InOps,         \* operators whose right operand is a parenthesised list
  BetweenOps,    \* ternary operators  e BETWEEN lo AND hi
  AndOp,         \* the token AND
  PrecOf(_),     \* operator -> name of its precedence level
  AssocOf(_),    \* operator -> "left" | "right" | "none"
  Higher(_, _)   \* Higher(p, q): level p binds tighter than level q

VARIABLES input, result

Leaf(i) == [kind |-> "leaf", pos |-> i, kids |-> <<>>]
Node(k, i, kids) == [kind |-> k, pos |-> i, kids |-> kids]
Pending == [kind |-> "pending", pos |-> 0, kids |-> <<>>]
Error == [kind |-> "error", pos |-> 0, kids |-> <<>>]

(* The right end of a binary or BETWEEN node is an open operand that an    *)
(* operator to its right competes for; IN ends with a closed list.         *)
RightOpen(t) == t.kind \in {"binary", "between"}
LeftOpen(t) == t.kind \in {"binary", "between", "in"}

(* Child c may be the left operand of parent p.                            *)
LeftOK(inp, p, c) ==
  LET pc == PrecOf(inp[c.pos])
      pp == PrecOf(inp[p.pos])
  IN  RightOpen(c) => (Higher(pc, pp) \/ (pc = pp /\ AssocOf(inp[p.pos]) = "left"))

(* Child c may be the last (right or high) operand of parent p.           *)
RightOK(inp, p, c) ==
  LET pc == PrecOf(inp[c.pos])
      pp == PrecOf(inp[p.pos])
  IN  LeftOpen(c) => (Higher(pc, pp) \/ (pc = pp /\ AssocOf(inp[p.pos]) = "right"))

(* The tie-break of section 4.3: the low bound of a BETWEEN is never a     *)
(* logical AND, so  x BETWEEN 1 AND 2 AND y  is (x BETWEEN 1 AND 2) AND y. *)
LowOK(inp, c) == ~(c.kind = "binary" /\ inp[c.pos] = AndOp)

(* All admissible trees spanning tokens i..j of inp.                       *)
RECURSIVE Trees(_, _, _)
Trees(inp, i, j) ==
  IF i > j THEN {} ELSE
  LET leaves == IF i = j /\ inp[i] = "x" THEN {Leaf(i)} ELSE {}
      bins == UNION { { n \in { Node("binary", k, <<l, r>>) :
                                  l \in Trees(inp, i, k - 1),
                                  r \in Trees(inp, k + 1, j) } :
                          LeftOK(inp, n, n.kids[1]) /\ RightOK(inp, n, n.kids[2]) } :
                      k \in { k \in i + 1 .. j - 1 : inp[k] \in BinOps } }
      ins == IF j - i >= 2 /\ inp[j] = "list" /\ inp[j - 1] \in InOps
             THEN { n \in { Node("in", j - 1, <<l, Leaf(j)>>) : l \in Trees(inp, i, j - 2) } :
                      LeftOK(inp, n, n.kids[1]) }
             ELSE {}
      betweens ==
        UNION { UNION { { n \in { Node("between", k, <<l, lo, hi>>) :
                                    l \in Trees(inp, i, k - 1),
                                    lo \in Trees(inp, k + 1, m - 1),
                                    hi \in Trees(inp, m + 1, j) } :
                            /\ LeftOK(inp, n, n.kids[1])
                            /\ LowOK(inp, n.kids[2])
                            /\ RightOK(inp, n, n.kids[3]) } :
                        m \in { m \in k + 2 .. j - 1 : inp[m] = AndOp } } :
                k \in { k \in i + 1 .. j - 3 : inp[k] \in BetweenOps } }
  IN  leaves \cup bins \cup ins \cup betweens

Admissible(inp) == Trees(inp, 1, Len(inp))

(* A parse yields an admissible tree, or an error; it must be an error     *)
(* when there is no admissible tree.                                       *)
Outcomes(inp) ==
  IF Admissible(inp) = {} THEN {Error} ELSE Admissible(inp) \cup {Error}

Init == input \in Inputs /\ result = Pending

Parse ==
  /\ result = Pending
  /\ result' \in Outcomes(input)
  /\ UNCHANGED input

Spec == Init /\ [][Parse]_<<input, result>>
=============================================================================
