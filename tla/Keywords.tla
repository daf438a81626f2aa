------------------------------ MODULE Keywords ------------------------------
(***************************************************************************)
(* The lexical side of grammar.js's keywords: make_keyword (2857-2863),    *)
(* which compiles a word into one bracket class per character, and the     *)
(* keyword table for the words the statement model uses, run by            *)
(* tree-sitter's keyword extraction.  grammar.js declares                  *)
(*     word: $ => $._identifier        _identifier: /[a-zA-Z_][0-9a-zA-Z_]*/ *)
(* so the lexer first reads the longest identifier, then runs the keyword  *)
(* patterns over that whole lexeme; a keyword the parse state does not     *)
(* expect leaves the lexeme an identifier.                                 *)
(*                                                                         *)
(* A character is a pair <<c, upper>>: a one-character string c written in *)
(* lower case, and whether it is upper case.  Only letters have an upper  *)
(* case.  A word of make_keyword is a sequence of lower-case characters.   *)
(***************************************************************************)
EXTENDS Sequences, FiniteSets, Naturals, TLC

CONSTANTS
  Letters,     \* the one-character strings that are letters
  Digits,      \* the one-character strings that are digits
  Texts,       \* the character sequences handed to the lexer
  ValidSets    \* for each parse state modelled, the keyword rules it expects

Chars == (Letters \X BOOLEAN) \cup ((Digits \cup {"_", "("}) \X {FALSE})

VARIABLES
  text,    \* the characters from the token's start
  valid,   \* the keyword rules the parse state expects
  pos,     \* the next character the identifier lexer reads
  token    \* the names the parser may read the token as: {} while lexing

vars == <<text, valid, pos, token>>

toLowerCase(c) == <<c[1], FALSE>>
toUpperCase(c) == <<c[1], c[1] \in Letters>>

\* Variant: every class holds the lower-case character only.
MakeKeywordLowerOnly(word) == [i \in DOMAIN word |-> {toLowerCase(<<word[i], FALSE>>)}]

\* make_keyword: the pattern of a word, one class [lU] per character.
make_keyword(word) ==
  [i \in DOMAIN word |-> {toLowerCase(<<word[i], FALSE>>), toUpperCase(<<word[i], FALSE>>)}]

\* A pattern of classes matches exactly the sequences of its length whose
\* every character is in its class.
PatternMatches(p, s) == Len(s) = Len(p) /\ \A i \in DOMAIN s : s[i] \in p[i]

\* _identifier: a letter or '_' first, then letters, digits or '_'.
IdentChar(c, i) == c[1] \in Letters \cup {"_"} \cup (IF i = 1 THEN {} ELSE Digits)

\* The identifier can take character i of s.
IdentAt(s, i) == i <= Len(s) /\ IdentChar(s[i], i)

(***************************************************************************)
(* The keyword rules, each with the words of its make_keyword calls.       *)
(***************************************************************************)
\* keyword_in (121) and keyword_index (130).
PlainWords ==
  [keyword_in |-> {<<"i", "n">>}, keyword_index |-> {<<"i", "n", "d", "e", "x">>}]

\* The index methods of create_index (201-206): keyword_btree spells "index".
IndexMethodWords ==
  [keyword_btree |-> {<<"i", "n", "d", "e", "x">>}, keyword_gin |-> {<<"g", "i", "n">>},
   keyword_brin |-> {<<"b", "r", "i", "n">>}]

\* keyword_int and keyword_bigint (336-337): choices of several words.
TypeWords ==
  [keyword_int |-> {<<"i", "n", "t">>, <<"i", "n", "t", "e", "g", "e", "r">>, <<"i", "n", "t", "4">>},
   keyword_bigint |-> {<<"b", "i", "g", "i", "n", "t">>, <<"i", "n", "t", "8">>}]

\* keyword_char (350), and the anonymous token of make_keyword("character")
\* that keyword_varchar (352-358) puts before keyword_varying.
CharacterWords ==
  [keyword_char |-> {<<"c", "h", "a", "r">>, <<"c", "h", "a", "r", "a", "c", "t", "e", "r">>},
   character |-> {<<"c", "h", "a", "r", "a", "c", "t", "e", "r">>}]

Words == PlainWords @@ IndexMethodWords @@ TypeWords @@ CharacterWords

KeywordRules == DOMAIN Words

\* The keyword rules whose pattern matches the whole lexeme l.
Spelling(l) == { k \in KeywordRules : \E w \in Words[k] : PatternMatches(make_keyword(w), l) }

(***************************************************************************)
(* tree-sitter's token extraction gives rules of identical pattern one     *)
(* terminal (index of keyword_index and keyword_btree, character of        *)
(* keyword_char and of keyword_varchar).  The keyword lexer reports the    *)
(* terminal of the lexeme, and the parse state takes it, as the rules of   *)
(* it the state expects, if it expects any; otherwise the lexeme stays an  *)
(* identifier.  A keyword token is therefore the set of its expected rules.*)
(***************************************************************************)
Extract(l) == IF Spelling(l) \cap valid = {} THEN {"identifier"} ELSE Spelling(l) \cap valid

\* Variant: the lexer also stops as soon as its lexeme spells an expected keyword.
FinishAtKeyword ==
  /\ token = {}
  /\ pos > 1
  /\ ~IdentAt(text, pos) \/ Spelling(SubSeq(text, 1, pos - 1)) \cap valid # {}
  /\ token' = Extract(SubSeq(text, 1, pos - 1))
  /\ UNCHANGED <<text, valid, pos>>

\* Variant: the lexer reads one character past the end of the text.
ScanPastEnd ==
  /\ token = {}
  /\ pos <= Len(text) + 1
  /\ pos <= Len(text) => IdentAt(text, pos)
  /\ pos' = pos + 1
  /\ UNCHANGED <<text, valid, token>>

Init ==
  /\ text \in Texts
  /\ valid \in ValidSets
  /\ pos = 1
  /\ token = {}

\* The identifier lexer reads one more character of the identifier.
Scan ==
  /\ token = {}
  /\ IdentAt(text, pos)
  /\ pos' = pos + 1
  /\ UNCHANGED <<text, valid, token>>

\* The identifier is complete: keyword extraction decides the token.
Finish ==
  /\ token = {}
  /\ pos > 1
  /\ ~IdentAt(text, pos)
  /\ token' = Extract(SubSeq(text, 1, pos - 1))
  /\ UNCHANGED <<text, valid, pos>>

\* No identifier starts here: the word lexer reports an error.
NoWord ==
  /\ token = {}
  /\ pos = 1
  /\ ~IdentAt(text, 1)
  /\ token' = {"error"}
  /\ UNCHANGED <<text, valid, pos>>

\* A lexed token stays.
Lexed ==
  /\ token # {}
  /\ UNCHANGED vars

Next == Scan \/ Finish \/ NoWord \/ Lexed

Spec == Init /\ [][Next]_vars

(* Each variable holds a value of its kind.                                *)
TypeOK ==
  /\ text \in Seq(Chars)
  /\ valid \in ValidSets
  /\ pos \in 1 .. Len(text) + 1
  /\ token \in SUBSET KeywordRules \cup {{"identifier"}, {"error"}}

(***************************************************************************)
(* The reference lexer of spec.md section 4.1: the token is the longest   *)
(* identifier at the start of the text; it is a keyword the parse state   *)
(* expects exactly when its characters, folded to lower case, are one of  *)
(* that keyword's words, and then it stands for every expected keyword    *)
(* that has the word; otherwise it is an identifier.                      *)
(***************************************************************************)
Fold(s) == [i \in DOMAIN s |-> s[i][1]]

IdentLen(s) ==
  CHOOSE n \in 0 .. Len(s) : (\A i \in 1 .. n : IdentAt(s, i)) /\ ~IdentAt(s, n + 1)

RefToken(s, v) ==
  LET l == Fold(SubSeq(s, 1, IdentLen(s)))
      e == { k \in v : l \in Words[k] }
  IN  CASE IdentLen(s) = 0 -> {"error"}
        [] e = {}          -> {"identifier"}
        [] OTHER           -> e

(***************************************************************************)
(* Spec.md 4.1 and 8: keywords match in any casing, and a word is never    *)
(* split (int4x, intx, index are one identifier where only INT or IN is    *)
(* expected).  Where two expected rules spell the same word (index after   *)
(* USING, character at the start of a data type) the lexer hands over the  *)
(* one terminal the parser reads as either.  The token the lexer hands the *)
(* parser is always the reference lexer's.                                 *)
(***************************************************************************)
LexedAsReference == token # {} => token = RefToken(text, valid)
=============================================================================
