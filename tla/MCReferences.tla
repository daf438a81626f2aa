---------------------------- MODULE MCReferences ----------------------------
(***************************************************************************)
(* Model-checking instance of References.  The inputs are every select    *)
(* list of at most MaxList tokens drawn from the tokens of names, with    *)
(* FROM schema.table after it, and a few longer lists and other FROM      *)
(* clauses written out.                                                   *)
(***************************************************************************)
EXTENDS References, Readings

SE == INSTANCE SequencesExt

CONSTANTS MaxList, MaxArgs

ListTokens == { "id", ".", "*", "(", ")", ",", "AS" }

Lists == UNION { [1..n -> ListTokens] : n \in 1..MaxList }

Written ==
  { <<"(", "id", ".", "id", ")", ".", "id">>,
    <<"(", "(", "id", ")", ")", "AS", "id">>,
    <<"id", ".", "id", ".", "*", ",", "(", "id", ")", ".", "id", "id">>,
    <<"(", "id", ")", ".", "id", ",", "id", ".", "id", ".", "id">>,
    <<"(", "(", "id", ")", ")", ".", "id">> }

\* Argument lists of an invocation: at most MaxArgs pieces, each a token
\* or the keywords that only come together.
ArgPieces == { <<"id">>, <<"str">>, <<",">>, <<"ORDER", "BY">>, <<"SEPARATOR">>, <<"LIMIT", "int">> }

ArgLists == { SE!FlattenSeq(ps) : ps \in UNION { [1..n -> ArgPieces] : n \in 0..MaxArgs } }

WrittenArgs ==
  { <<"id", "ORDER", "BY", "id", ",", "id">>,
    <<"id", "ORDER", "BY", "id", ",", "id", "ORDER", "BY", "id">>,
    <<"id", "ORDER", "BY", "id", "ASC", ",", "str", "LIMIT", "int">>,
    <<"id", "ORDER", "BY", "id", "SEPARATOR", "str", "LIMIT", "int", "OFFSET", "int">>,
    <<"id", "AS", "id", ",", "(", "id", ")", ".", "id", ",", "*">>,
    <<"id", ",", "str", "SEPARATOR", "str">> }

MCInputs ==
  { <<"SELECT">> \o l \o <<"FROM", "id", ".", "id">> : l \in Lists \cup Written }
  \cup { <<"SELECT", "id", "FROM", "id">>, <<"SELECT", "id", "FROM", "(", "id", ")">>,
         <<"SELECT", "id", ".", "id">> }
  \cup { <<"DEFAULT", "id", "(">> \o a \o <<")">> : a \in ArgLists \cup WrittenArgs }
  \cup { <<"DEFAULT", "str">>, <<"DEFAULT", "(", "int", ")">>, <<"DEFAULT", "(", "id", "(", ")", ")">>,
         <<"DEFAULT", "id", ".", "id", "(", "id", ")">>, <<"DEFAULT", "id">> }

\* tree-sitter refuses to generate a parser when precedence and
\* associativity leave a conflict between rules that `conflicts` does not
\* list: every conflict of the parse table of these rules is declared.
NoUndeclaredConflict ==
  \A i \in DOMAIN table, a \in Terminals :
    table[i].act[a].conflict # {} => table[i].act[a].conflict \in DeclaredConflicts

(***************************************************************************)
(* The refinement mapping: a tree to the readings of its terms.           *)
(***************************************************************************)

ObjLenOf(o) == (Len(o.k) + 1) \div 2

FieldOf(q) ==
  CASE Len(q.k) = 1 -> Rd("field", 0, FALSE, <<>>)
    [] Len(q.k) = 3 -> Rd("field", ObjLenOf(q.k[1]), FALSE, <<>>)
    [] OTHER        -> Rd("field", ObjLenOf(q.k[2]), TRUE, <<>>)

Lit == Rd("literal", 0, FALSE, <<>>)

RECURSIVE ExprOf(_)
ExprOf(e) ==
  CASE e.k[1].r = "qualified_field" -> FieldOf(e.k[1])
    [] e.k[1].r = "literal"         -> Lit
    [] OTHER                        -> Rd("paren", 0, FALSE, << ExprOf(e.k[2]) >>)

TermOf(t) ==
  CASE t.k[1].r = "all_fields" ->
         Rd("all", IF Len(t.k[1].k) = 1 THEN 0 ELSE ObjLenOf(t.k[1].k[1]), FALSE, <<>>)
    [] Len(t.k) = 2 -> Rd("alias", 0, FALSE, << ExprOf(t.k[1]) >>)
    [] OTHER        -> ExprOf(t.k[1])

\* The terms under the hidden repeat rule, leftmost first.
RECURSIVE RepeatTerms(_)
RepeatTerms(r) ==
  IF Len(r.k) = 2 THEN << TermOf(r.k[2]) >> ELSE RepeatTerms(r.k[1]) \o << TermOf(r.k[3]) >>

ReadingOf(stmt) ==
  LET se == stmt.k[1].k[2]
  IN  Res("ok", << TermOf(se.k[1]) >> \o (IF Len(se.k) = 2 THEN RepeatTerms(se.k[2]) ELSE <<>>),
              ObjLenOf(stmt.k[2].k[2].k[1]))

\* The readings of the targets of an order_by, leftmost first.
TargetOf(t) == Rd("target", 0, Len(t.k) = 2, << ExprOf(t.k[1]) >>)

RECURSIVE RepeatTargets(_)
RepeatTargets(r) ==
  IF Len(r.k) = 2 THEN << TargetOf(r.k[2]) >> ELSE RepeatTargets(r.k[1]) \o << TargetOf(r.k[3]) >>

TargetsOf(ob) == << TargetOf(ob.k[3]) >> \o (IF Len(ob.k) = 4 THEN RepeatTargets(ob.k[4]) ELSE <<>>)

\* A term, and the order_by at index i of kids ks if there is one.
ArgOf(ks, i) ==
  IF i <= Len(ks) /\ ks[i].r = "order_by"
  THEN Rd("arg", 0, TRUE, << TermOf(ks[i - 1]) >> \o TargetsOf(ks[i]))
  ELSE Rd("arg", 0, FALSE, << TermOf(ks[i - 1]) >>)

\* The arguments under invocation_repeat1, leftmost first.
RECURSIVE RepeatArgs(_)
RepeatArgs(r) ==
  IF r.k[1].r = "," THEN << ArgOf(r.k, 3) >> ELSE RepeatArgs(r.k[1]) \o << ArgOf(r.k, 4) >>

\* An invocation: the kids between its parentheses say which form it is.
CallOf(c) ==
  LET m   == SubSeq(c.k, 3, Len(c.k) - 1)
      rs  == { m[i].r : i \in DOMAIN m }
      n   == ObjLenOf(c.k[1])
  IN  CASE m = <<>> -> Rd("call", n, FALSE, <<>>)
        [] rs \cap { "SEPARATOR", ",", "limit" } # {} ->
             Rd("aggregate", n, "limit" \in rs,
                << ArgOf(m, 2) >> \o (IF "literal_string" \in rs THEN <<Rd("separator", 0, FALSE, <<>>)>> ELSE <<>>))
        [] OTHER ->
             Rd("call", n, FALSE,
                << ArgOf(m, 2) >> \o (IF m[Len(m)].r = "invocation_repeat1" THEN RepeatArgs(m[Len(m)]) ELSE <<>>))

InnerOf(i) == IF i.k[1].r = "literal" THEN Lit ELSE CallOf(i.k[1])

DefaultOf(d) ==
  IF Len(d.k) = 2 THEN Res("default", << InnerOf(d.k[2]) >>, 0)
  ELSE Res("default", << Rd("paren", 0, FALSE, << InnerOf(d.k[3]) >>) >>, 0)

AbsResult ==
  CASE status = "parsing"     -> Pending
    [] status = "error"       -> Error
    [] Cardinality(result) = 1 ->
         LET t == CHOOSE t \in result : TRUE
         IN  IF t.r = "_default_expression" THEN DefaultOf(t) ELSE ReadingOf(t)
    [] OTHER                  -> Res("ambiguous", <<>>, 0)

Abs == INSTANCE ReferenceSpec WITH Inputs <- MCInputs, result <- AbsResult

\* The parser tree-sitter generates from these rules, with the conflicts
\* grammar.js declares forked by GLR, gives every SELECT exactly the one
\* reading of its terms and relation that the rules promise, and an error
\* exactly when there is none; every parse ends.
ImplementsReferenceSpec == Abs!Spec
=============================================================================
