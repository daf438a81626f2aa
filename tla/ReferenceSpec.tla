---------------------------- MODULE ReferenceSpec ----------------------------
(***************************************************************************)
(* What the name rules of a SELECT promise, read off the shapes they      *)
(* accept rather than parsed: every term of the select list has exactly   *)
(* one reading, and the relation of FROM is an object name; a column's    *)
(* DEFAULT is a literal or one reading of an invocation.  An input of no  *)
(* reading is an error.  The parse happens in one step.                   *)
(***************************************************************************)
EXTENDS Naturals, Sequences, Readings

LOCAL INSTANCE SequencesExt

CONSTANTS Inputs

VARIABLES input, result

\* object_reference: [schema .] name.
ObjectNames == { <<"id">>, <<"id", ".", "id">> }

ObjLen(s) == (Len(s) + 1) \div 2

\* The tokens of s from i to j.
Part(s, i, j) == SubSeq(s, i, j)

FieldReading(s) ==
  LET n == Len(s)
      p == Part(s, 1, n - 2)
  IN  CASE s = <<"id">> -> Rd("field", 0, FALSE, <<>>)
        [] n >= 3 /\ s[n] = "id" /\ s[n - 1] = "." /\ p \in ObjectNames
             -> Rd("field", ObjLen(p), FALSE, <<>>)
        [] n >= 5 /\ s[n] = "id" /\ s[n - 1] = "." /\ s[1] = "(" /\ s[n - 2] = ")"
             /\ Part(p, 2, Len(p) - 1) \in ObjectNames
             -> Rd("field", ObjLen(Part(p, 2, Len(p) - 1)), TRUE, <<>>)
        [] OTHER -> None

\* A literal: a number or keyword ("int") or a quoted string ("str").
Lit == Rd("literal", 0, FALSE, <<>>)

RECURSIVE ExprReading(_)
ExprReading(s) ==
  LET f     == FieldReading(s)
      inner == ExprReading(Part(s, 2, Len(s) - 1))
  IN  CASE s \in { <<"int">>, <<"str">> } -> Lit
        [] f # None -> f
        [] Len(s) >= 3 /\ s[1] = "(" /\ s[Len(s)] = ")" /\ inner # None
             -> Rd("paren", 0, FALSE, << inner >>)
        [] OTHER -> None

\* The expression before an alias of k tokens, if it reads.
AliasOf(s, k) ==
  IF Len(s) > k THEN ExprReading(Part(s, 1, Len(s) - k)) ELSE None

TermReading(s) ==
  LET n  == Len(s)
      e  == ExprReading(s)
      a1 == AliasOf(s, 1)
      a2 == AliasOf(s, 2)
  IN  CASE s = <<"*">> -> Rd("all", 0, FALSE, <<>>)
        [] n >= 3 /\ s[n] = "*" /\ s[n - 1] = "." /\ Part(s, 1, n - 2) \in ObjectNames
             -> Rd("all", ObjLen(Part(s, 1, n - 2)), FALSE, <<>>)
        [] e # None -> e
        [] n >= 1 /\ s[n] = "id" /\ a1 # None -> Rd("alias", 0, FALSE, << a1 >>)
        [] n >= 2 /\ s[n] = "id" /\ s[n - 1] = "AS" /\ a2 # None -> Rd("alias", 0, FALSE, << a2 >>)
        [] OTHER -> None

\* The select list cut at its commas.
RECURSIVE Terms(_)
Terms(s) ==
  IF \A i \in DOMAIN s : s[i] # "," THEN << s >>
  ELSE LET c == CHOOSE i \in DOMAIN s : s[i] = "," /\ \A j \in 1..(i - 1) : s[j] # ","
       IN  << Part(s, 1, c - 1) >> \o Terms(Part(s, c + 1, Len(s)))

(***************************************************************************)
(* A column's DEFAULT: a literal or an invocation, bare or in parentheses. *)
(* An invocation is name ( arguments ), each argument a term, the last one *)
(* with an ORDER BY list; or the aggregate form, one term, an ORDER BY     *)
(* list, a separator string after SEPARATOR or ',', and LIMIT [OFFSET].   *)
(* Where both forms, or an ORDER BY and the next argument, claim the same  *)
(* ',' the precedences of the rules decide: order_by is prec.right, so    *)
(* its list takes every ',' after it; literal (prec 2) is above the        *)
(* invocation (prec 1), so a string after ',' is the next argument, and    *)
(* is the separator only where LIMIT follows it.                           *)
(***************************************************************************)
\* The index of the first token t of s, 0 if there is none.
IndexOf(s, t) == SelectInSeq(s, LAMBDA x : x = t)

\* Whether every piece of s between commas has a reading R, and those.
ListOK(s, R(_)) == \A i \in DOMAIN Terms(s) : R(Terms(s)[i]) # None
ListOf(s, R(_)) == [i \in DOMAIN Terms(s) |-> R(Terms(s)[i])]

\* order_target: an expression and an optional direction.
TargetReading(s) ==
  LET e == ExprReading(s)
      d == ExprReading(Part(s, 1, Len(s) - 1))
  IN  CASE e # None -> Rd("target", 0, FALSE, <<e>>)
        [] Len(s) >= 2 /\ s[Len(s)] = "ASC" /\ d # None -> Rd("target", 0, TRUE, <<d>>)
        [] OTHER -> None

\* A term and the ORDER BY list after it, if any: the list runs to the end.
ArgReading(s) ==
  LET o  == IndexOf(s, "ORDER")
      t  == TermReading(IF o = 0 THEN s ELSE Part(s, 1, o - 1))
      ts == Part(s, o + 2, Len(s))
  IN  CASE o = 0 /\ t # None -> Rd("arg", 0, FALSE, <<t>>)
        [] o > 0 /\ o < Len(s) /\ s[o + 1] = "BY" /\ t # None /\ ListOK(ts, TargetReading)
             -> Rd("arg", 0, TRUE, <<t>> \o ListOf(ts, TargetReading))
        [] OTHER -> None

\* The default form: arguments cut at the commas before the first ORDER,
\* whose list goes to the last argument.
CallArgs(b) ==
  LET o  == IndexOf(b, "ORDER")
      ps == Terms(IF o = 0 THEN b ELSE Part(b, 1, o - 1))
  IN  IF o = 0 THEN ps ELSE [ps EXCEPT ![Len(ps)] = @ \o Part(b, o, Len(b))]

\* LIMIT literal [OFFSET literal].
LimitTail(s) ==
  s \in { <<"LIMIT", x>> : x \in {"int", "str"} } \cup
        { <<"LIMIT", x, "OFFSET", y>> : x, y \in {"int", "str"} }

\* The reading of the argument list b of the object named by n tokens.
CallReading(n, b) ==
  LET l     == IndexOf(b, "LIMIT")
      core0 == IF l = 0 THEN b ELSE Part(b, 1, l - 1)
      m     == Len(core0)
      q     == IndexOf(core0, "SEPARATOR")
      bySep == q > 0 /\ q = m - 1 /\ core0[m] = "str"
      byComma == /\ q = 0 /\ l > 0 /\ IndexOf(core0, "ORDER") = 0
                 /\ m >= 2 /\ core0[m - 1] = "," /\ core0[m] = "str"
      arg   == ArgReading(IF bySep \/ byComma THEN Part(core0, 1, m - 2) ELSE core0)
      as    == CallArgs(b)
  IN  CASE b = <<>> -> Rd("call", n, FALSE, <<>>)
        [] l = 0 /\ IndexOf(b, "SEPARATOR") = 0 /\ \A i \in DOMAIN as : ArgReading(as[i]) # None
             -> Rd("call", n, FALSE, [i \in DOMAIN as |-> ArgReading(as[i])])
        [] (l > 0 \/ q > 0) /\ (l = 0 \/ LimitTail(Part(b, l, Len(b)))) /\ (q = 0 \/ bySep)
             /\ arg # None
             -> Rd("aggregate", n, l > 0,
                   <<arg>> \o (IF bySep \/ byComma THEN <<Rd("separator", 0, FALSE, <<>>)>> ELSE <<>>))
        [] OTHER -> None

\* _inner_default_expression: a literal, or name ( arguments ).
InnerReading(r) ==
  LET k  == IF Len(r) >= 2 /\ r[2] = "(" THEN 1 ELSE 3
      nm == Part(r, 1, k)
  IN  CASE r \in { <<"int">>, <<"str">> } -> Lit
        [] Len(r) >= k + 2 /\ nm \in ObjectNames /\ r[k + 1] = "(" /\ r[Len(r)] = ")"
             -> CallReading(ObjLen(nm), Part(r, k + 2, Len(r) - 1))
        [] OTHER -> None

\* DEFAULT inner, or DEFAULT ( inner ).
DefaultReading(s) ==
  LET r    == Part(s, 2, Len(s))
      bare == InnerReading(r)
      par  == InnerReading(Part(r, 2, Len(r) - 1))
  IN  CASE bare # None -> Res("default", <<bare>>, 0)
        [] Len(r) >= 3 /\ r[1] = "(" /\ r[Len(r)] = ")" /\ par # None
             -> Res("default", << Rd("paren", 0, FALSE, <<par>>) >>, 0)
        [] OTHER -> Error

\* SELECT list FROM object_reference, each term with its reading.
SelectReading(s) ==
  LET f   == IF \E i \in DOMAIN s : s[i] = "FROM"
             THEN CHOOSE i \in DOMAIN s : s[i] = "FROM" ELSE 0
      ts  == Terms(Part(s, 2, f - 1))
      rel == Part(s, f + 1, Len(s))
      rds == [i \in DOMAIN ts |-> TermReading(ts[i])]
  IN  IF /\ Len(s) >= 1 /\ s[1] = "SELECT" /\ f > 2
         /\ \A i \in DOMAIN rds : rds[i] # None
         /\ rel \in ObjectNames
      THEN Res("ok", rds, ObjLen(rel))
      ELSE Error

Reading(s) == IF Len(s) >= 1 /\ s[1] = "DEFAULT" THEN DefaultReading(s) ELSE SelectReading(s)

Init == input \in Inputs /\ result = Pending

\* Reading never is Pending: the second conjunct only spares evaluating it
\* on a step that leaves the result pending.
Parse ==
  /\ result = Pending
  /\ result' # Pending
  /\ result' = Reading(input)
  /\ UNCHANGED input

\* Parse is enabled exactly while the result is pending and every Parse
\* step sets one, so weak fairness of Parse is the promise that a result
\* comes; it is stated as that.
Spec == Init /\ [][Parse]_<<input, result>> /\ <>(result # Pending)
=============================================================================
