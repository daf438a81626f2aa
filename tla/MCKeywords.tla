----------------------------- MODULE MCKeywords -----------------------------
(***************************************************************************)
(* Model-checking instance of Keywords.  The texts are every casing of the *)
(* keyword words and of near misses (a prefix, a word with one character  *)
(* more), each followed by nothing, a letter, a digit or '('.  The parse   *)
(* states are the ones that expect the modelled keywords.                  *)
(***************************************************************************)
EXTENDS Keywords

\* Every casing of a lower-case word.
CaseVariants(w) == { [i \in DOMAIN w |-> <<w[i], u[i] /\ w[i] \in Letters>>] : u \in [DOMAIN w -> BOOLEAN] }

BaseWords ==
  UNION { Words[k] : k \in KeywordRules } \cup
  { <<"i", "n", "d">>, <<"i", "n", "t", "x">>, <<"g", "i", "n", "4">>, <<"b", "i", "g">> }

Suffixes == { <<>>, <<<<"x", FALSE>>>>, <<<<"4", FALSE>>>>, <<<<"(", FALSE>>>> }

MCTexts == { v \o f : v \in UNION { CaseVariants(w) : w \in BaseWords }, f \in Suffixes }
           \cup { <<<<"4", FALSE>>, <<"i", FALSE>>>>, <<<<"_", FALSE>>, <<"i", TRUE>>>> }

\* After an expression (binary_in), and in a data type (int, bigint).
ExprOrTypeStates == { {"keyword_in"}, {"keyword_int", "keyword_bigint"} }

\* After CREATE [UNIQUE] (create_index, 1048-1050), after USING (1064-1072),
\* and at the start of a data type, where char and varchar both begin.
SharedWordStates ==
  { {"keyword_index"}, {"keyword_btree", "keyword_gin", "keyword_brin"},
    {"keyword_char", "character", "keyword_int", "keyword_bigint"} }

KeywordStates == ExprOrTypeStates \cup SharedWordStates
=============================================================================
