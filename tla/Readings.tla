------------------------------ MODULE Readings ------------------------------
(***************************************************************************)
(* The values of ReferenceSpec.  A reading Rd(k, n, b, of) has kind k:  *)
(*   "all"    all_fields: *, or obj.*                                      *)
(*   "field"  qualified_field: id, obj.id, or (obj).id when b              *)
(*   "paren"  ( expression ), the expression's reading in of               *)
(*   "alias"  expression [AS] id, the expression's reading in of           *)
(* where n is the number of identifiers of the object name (0 for none).   *)
(***************************************************************************)

Rd(k, n, b, of) == [k |-> k, obj |-> n, paren |-> b, of |-> of]

None == Rd("none", 0, FALSE, <<>>)

\* The results: pending, an error, or the readings of the terms and the
\* identifier count of the relation.
Res(tag, ts, n) == [tag |-> tag, terms |-> ts, rel |-> n]
Pending == Res("pending", <<>>, 0)
Error == Res("error", <<>>, 0)
=============================================================================
