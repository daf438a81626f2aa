# TLA+ models of the mududb SQL grammar

The repository's source is one file, `src/tree-sitter-sql/grammar.js`. It is a
tree-sitter grammar. tree-sitter compiles it into an LR(1) parse table, and a
GLR runtime runs that table. The grammar declares three things:

- its productions (`rules`);
- a total order of named precedence levels (`precedences`, lines 17-33);
- the rule sets that may stay in conflict and fork the GLR parser
  (`conflicts`, lines 11-15).

The program's behaviour is the behaviour of the parser tree-sitter builds from
these declarations. That is what the modules model. They use tree-sitter's
documented resolution policy: precedence first, then associativity, then a
declared conflict. The generated `parser.c` and the tree-sitter runtime are
not in the repository, so no run compares the model with them.

## 1. Inventory

| Component (spec.md) | Where in grammar.js | State / data | Operations |
|---|---|---|---|
| Lexical layer (4.1) | `make_keyword` 2857-2863; keyword table 50-317; `word` 35; `extras` 3-9; `comment`/`marginalia` 567-569; strings, numbers, identifiers 2756-2790 | Position in the character stream | Lex one token: an identifier, checked against the keyword table; a literal; a comment; an error character |
| Rule combinators (4.2) | `seq/choice/optional/repeat/field/alias`; helpers `comma_list`, `paren_list`, `wrapped_in_parenthesis`, `optional_parenthesis`, `parametric_type`, `unsigned_type` 2795-2855 | none (grammar construction) | Build productions |
| Precedence and associativity (4.3) | `precedences` 17-33; `prec.left(...)` on every operator production | A fixed order of 13 levels | Compare two levels; settle shift/reduce and reduce/reduce conflicts |
| Expression grammar (4.4) | `expression` 2645-2654, `binary_expression` 2656-2713, `between_expression` 2730-2743, `unary_expression` 2715-2728, `list`/`subquery` 2750-2754, literals 2756-2790, `qualified_field` 2230-2238, `case`/`cast`/`invocation`/`interval` 2184-2345 | The LR stack and the lookahead | Shift a token; reduce a binary, IN or BETWEEN production; accept; reject |
| Statement grammar (4.5) | `program` 38-45, `statement_transaction`/`statement` 571-611, `ddl_stmt`/`dml_*` 634-663, SELECT 700-728 and 2453-2463, INSERT/UPDATE/DELETE/MERGE 738-749 and 1740-1812, CREATE 750-1223, ALTER 1225-1620, DROP 1621-1711, maintenance 1814-1912 | Same LR machine | Same |
| Conflict policy (4.6) | `conflicts` 11-15 | A set of rule sets | A GLR fork is allowed only for a declared set |
| Data types | `data_type`, `data_type_kind` ... 415-550 | none | Part of the statement grammar |

How the parts interact. The lexer runs on demand. The parse state decides
which tokens are valid: tree-sitter's keyword extraction (`word`) lexes an
identifier and returns a keyword only if the keyword matches the whole text.
The LR machine shifts tokens and reduces productions. When an operator is the
lookahead, the precedence table decides between reducing the expression on
the stack and shifting the operator. The `conflicts` list decides which
unresolved decisions become GLR forks. Everything else is a generation-time
error.

Nothing runs concurrently. A parse is a pure, single-threaded function of its
input, and nothing is persisted or retried. The hard behaviours are therefore
about order and sequence:

- which of two operators gets an operand;
- BETWEEN's AND against the logical AND;
- multi-keyword operators that share a prefix (`NOT LIKE`, `NOT IN`,
  `NOT BETWEEN`; `IS NOT`, `IS NOT DISTINCT FROM`);
- the lookahead that decides between `object_reference` and `qualified_field`;
- keyword spellings;
- which productions can be reached from `program`.

Properties that make each part correct:

- Precedence and expressions: every accepted input gets a tree in which each
  operator conflict is settled by the declared order and associativity. Each
  token appears exactly once and in source order. BETWEEN keeps its own AND.
  No conflict is left unresolved unless it is declared. Whether every input
  that has such a tree is accepted is asked too; it is not, for one shape
  (`between_bound`).
- Lexical layer: keyword recognition ignores case and keeps the raw text.
  Every keyword rule matches the word it is named for. Where two rules
  spell the same word, token extraction makes them one terminal, and the
  parse state reads it as whichever rule it expects.
- Statements: every statement kind in spec.md can be reached from `program`.
  The statement productions are unambiguous except where `conflicts` says
  otherwise. The UPDATE shapes in spec.md section 8 are accepted.

## 2. Plan

Modules, in order of importance. All six exist now.

1. **ExprParser** (done). The expression LR machine over keyword tokens,
   with the grammar's precedence table and tree-sitter's static conflict
   resolution. What resolution leaves open is a GLR fork, modelled as a
   nondeterministic choice.
2. **ExprSpec** (done). The abstract promise of spec.md sections 4.3 and
   4.6, parameterised by the precedence table. ExprParser is checked to
   implement it through a refinement mapping under three tables: the
   grammar's table, spec.md's table, and a table that admits every
   derivation of the productions.
3. **StatementRules / StatementGrammar** (done). Every rule reachable from
   `program`, as a table of combinator terms, and `program` as a GLR parse
   over units. Derivation counts check the ambiguity policy.
4. **References / ReferenceSpec** (done). `object_reference` and
   `qualified_field` (1730-1738, 2230-2238) with `all_fields` (2169-2177),
   the SELECT list and FROM: the canonical LR(1) table tree-sitter builds
   from them, its conflicts against lines 12-13, and a GLR parse over it,
   checked against the readings ReferenceSpec promises by refinement.
5. **Keywords** (done). `make_keyword` and tree-sitter's keyword
   extraction over the `word` token, checked against a case-folding
   reference lexer, for the keywords that share prefixes or a spelling.
6. **CREATE rules** (done, inside StatementRules). The `_create_statement`
   family (750-1223). It is unreachable from `program` today (see the
   finding below), so it is checked as a rule table in its own right: each
   CREATE form must derive from `_create_statement` in exactly one way.

## 3. Modules and correspondence

### ExprParser.tla

The expression productions as tree-sitter's LR(1) machine.

- **Tokens.** `"x"` is any closed operand of `expression`: a literal, a
  parameter, a `qualified_field` or a parenthesised expression. `"list"` is
  a parenthesised list or subquery, which the grammar allows only right of
  IN. Every other token is one keyword or symbol. An operator of several
  keywords (`NOT LIKE`, `IS NOT DISTINCT FROM`, ...) arrives one keyword at a
  time. `Spelling` gives the keywords of each operator. The rules `is_not`,
  `not_like`, ... are reduced from their keywords (`ReduceOperator`).
  `NOT BETWEEN` is written inline in `between_expression`
  (`ReduceNotBetween`).
- **Variables.**
  - `input`: the tokens.
  - `pos`: the lookahead index.
  - `stack`: the LR stack. `"E"` is a reduced expression, `"kw"` a shifted
    keyword or symbol, `"op"` a reduced operator rule, `"L"` a shifted list.
  - `status`: parsing, accepted or error.
- **Tables, from the source.**
  - `PrecOrder` is the `precedences` list. `Higher` and `PrecCmp` compare two
    levels. As in tree-sitter, a name outside the list compares equal.
  - `OpPrec` and `OpAssoc` are the `[operator, precedence]` tables of
    `binary_expression` and `between_expression`. Every entry is `prec.left`.
  - `DeclaredConflicts` is `conflicts`.
- **Candidate actions.**
  - `ShiftCands` and `ReduceCands` are the actions the LR(1) automaton has
    for the lookahead, before resolution.
  - A reduction's lookahead set comes from `Follows`/`EndCanFollow`: the end
    of input cannot follow the low bound of a BETWEEN.
- **Resolution.** `Resolve` is tree-sitter's static policy:
  - A reduction with lower precedence than another reduction on the same
    lookahead is dropped.
  - A shift then wins over the reductions if its precedence is greater, and
    loses if it is less.
  - At equal precedence, the reductions' associativity decides.
  - Whatever remains is a conflict. If the rules involved are declared in
    `conflicts`, the parse forks: `Next` may take any remaining action.
- **Actions.**
  - `Shift`.
  - `ReduceOperator`: a multi-keyword operator rule.
  - `ReduceBinary`, `ReduceIn`, `ReduceBetween`, `ReduceNotBetween`: one per
    production shape.
  - `Accept`.
  - `Reject`: no action for the lookahead.
  - `Finished`: a finished parse stutters, so a stuck parse would still be
    reported as a deadlock.

### ExprSpec.tla

The promise, in one step from `Pending` to a result.

- `Trees(inp, i, j)` enumerates the derivation trees of the ambiguous
  expression productions over a span. It is `RECURSIVE`.
- It keeps only trees where each parent/child operator pair that competes
  for an operand respects the table:
  - `LeftOK` and `RightOK` check the left and right operand.
  - Only an open end competes. The list closes the right end of IN.
  - `LowOK` says a BETWEEN's low bound is never a logical AND. This is the
    tie-break of spec.md section 4.3.
- The result is an admissible tree or an error, and an error is always
  allowed. So the refinements check soundness only: every tree the parser
  accepts is admissible. Completeness is a separate property,
  `NoInputWronglyRejected` (every input with an admissible tree is
  accepted). It is checked only in the `between_bound` run, where TLC
  finds it violated.

### MCExprParser.tla

- `MCInputs` holds every operand/operator alternation with at most
  `MaxOperands` operands. The operators come from `MCOps`. An operand after
  IN is `"x"` or `"list"`, so both the accepted and the rejected IN shapes
  occur.
- The refinement mapping first groups the keywords between two operands
  back into one operator (`Group`, `AbsPos`), then maps the result.
- `CodeTable` instantiates ExprSpec WITH the grammar's table, `SpecTable`
  WITH spec.md's table, and `GrammarTrees` WITH a table under which every
  level is tighter than every other, so that every derivation tree of the
  productions is admissible. The result maps as `result <- AbsResult`:
  - pending while parsing;
  - the tree on the stack once the parse is accepted;
  - Error once it is rejected.

### StatementRules.tla

The statement productions as data: one combinator term per rule, in a
record keyed by the rule's name.

- `Tok`, `N`, `Sq`, `Alt`, `Opt`, `Rep`, `Rep1` are tree-sitter's token,
  `$.rule`, `seq`, `choice`, `optional`, `repeat` and `repeat1`.
- `WrappedInParenthesis`, `OptionalParenthesis`, `CommaList` and
  `ParenList` translate the helper functions at lines 2806-2855, the
  `requireFirst` flag of `comma_list` included.
- Each `...Rules` table translates one contiguous block of grammar.js (the
  map in PROJECT.json gives the lines); `Rules` joins them.
- `field(...)` and `alias(...)` only label nodes and are left out. `prec`
  does not change the language and is left out as well.
- **Tokens.** A keyword rule `keyword_w` is the token `"W"`. `"id"` is an
  identifier, `"num"` a natural number, integer or decimal, `"str"` a string
  literal. `binary_expression` and `between_expression`, whose inside
  ExprParser models, are one token `"binary"`. The 25 unit words of
  `_interval_definition` are one token `"unit"`.
- **Expression forms.** `UnaryRules`, `ArrayRules`, `Case` (with `WhenThen`),
  `CallRules` (`implicit_cast` ... `invocation`, both argument forms of
  invocation), `WindowRules` (`exists` ... `window_function`, with
  `FrameStart` for a frame bound and the `_current_row`/`_exclude_*`
  helpers written out) and `OrderLimitRules` (`order_by` ... `offset`).
  `expression` lists none of them. `_inner_default_expression` reaches the
  unary, array, cast and call forms, and through invocation `order_by` and
  `limit`. No rule reaches `case`, `exists`, `interval`, `window_function`
  or `window_clause`.
- **Data types.** `DataTypeRules` has every alternative of `data_type_kind`
  (415-549), with `unsigned_type` and `parametric_type` as `UnsignedType`
  and `ParametricType`. `keyword_varchar`, `keyword_timestamp` and
  `keyword_timestamptz` name other rules, so they are rules here too. Their
  words `character`, `without`, `zone` and `timestamp` are anonymous tokens.
- The table holds the rules reachable from `program`, plus the
  `_create_statement` family (`CreateViewRules`, `FunctionRules`,
  `CreateObjectRules`), which no reachable rule names. Other unreachable
  rules (`join`, `_cte`, ...) are left out. That they cannot
  be reached is itself a finding.
- `_table_settings` (768-783) is named by no rule and is left out.

### Keywords.tla and MCKeywords.tla

The lexer for the keywords, over characters `<<c, upper>>`.

- `make_keyword` translates lines 2857-2863. The string it builds,
  `[lU]` per character, is modelled by what it does: a sequence of
  two-character classes. `PatternMatches` is the RegExp it returns.
- `PlainWords`, `IndexMethodWords`, `TypeWords` and `CharacterWords` are
  the keyword rules at lines 121-130, 201-206, 336-337 and 350-358. Each
  comes with the words of its `make_keyword` calls. `CharacterWords` also
  has `character`, the anonymous token that `keyword_varchar` starts with.
- **Actions.** `Scan` reads one character of `_identifier` (line 2790).
  `Finish` ends the identifier and runs keyword extraction (`word`, line
  35): the keyword patterns are matched against the whole lexeme, and a
  keyword the parse state does not expect leaves an identifier. tree-sitter's
  token extraction turns rules with identical patterns into one terminal:
  `index` of `keyword_index` and `keyword_btree`, and `character` of
  `keyword_char` and of `keyword_varchar`'s first token. So `Extract`
  gives the token as the set of expected rules its terminal stands for. The
  parse state then decides: `keyword_index` and `keyword_btree` are never
  expected in one state, and `CHARACTER` against `CHARACTER VARYING` is
  decided by the next token. `token` is `{}` while lexing, `{"identifier"}`,
  `{"error"}`, or that set. `NoWord` is a text that starts with no
  identifier.
- **Reference.** `RefToken` is spec.md 4.1's contract: the longest
  identifier, folded to lower case, is an expected keyword's word, and then
  the token stands for every expected keyword with that word; otherwise the
  token is an identifier.
- `MCKeywords` gives every casing of every word and of near misses,
  followed by nothing, a letter, a digit or `(`. It also gives the parse
  states that expect the modelled keywords: after an expression (IN), in a
  data type (INT, BIGINT), after CREATE (INDEX), and after USING.

### StatementGrammar.tla

`program: repeat(seq(statement_transaction, ';'))` run as a GLR parse.

- **Trees.** tree-sitter flattens each rule's choices, optionals and
  repeats into productions, and drops a production equal to one it already
  has. So two parses of a rule over a span are one tree when they have the
  same named children over the same spans.
  - `Derivs(inp, C, t, i)` is the set of pairs `<<j, kids>>`: a match of
    term `t` from `i` to `j`, with named children `kids`, each a triple
    `<<rule, first, next>>`.
  - The chart `C` maps each rule and position to pairs `<<j, n>>`: the rule
    has `n > 0` trees over tokens `i .. j-1`. `Group` sums, over the
    distinct children sequences, the product of the children's counts
    (`KidTrees`).
  - `ChartStep` recomputes every rule from the chart, and `Saturate`
    iterates from the empty chart to the least fixpoint. The rules have no
    derivation cycle, so the fixpoint counts every tree. `ChartOf` holds the
    chart of each program, computed once.
  - Counting children sequences rather than paths through the choices
    matters for the data types. A bare `DECIMAL` matches both
    `parametric_type` alternatives of `decimal`, and `numeric` is listed
    twice in `data_type_kind`. Each of these is still one production, so
    still one tree.
- This is the language of the productions. tree-sitter's static precedence
  resolution can only remove parses from it, never add one. So a program the
  model rejects is rejected by the real parser too.
- **Variables.** `input` (the tokens), `heads` (the positions where a live
  stack starts its next unit), `units` (the spans `<<first token, index of
  its ';'>>` read so far), `status`.
- **Actions.** `ParseUnit` moves every stack over one `statement_transaction`
  and its `';'`. `Accept` fires when a stack has consumed the whole input.
  `Reject` fires when no stack can read another unit. `Finished` stutters.

### References.tla, ReferenceSpec.tla and MCReferences.tla

References models the parser tree-sitter generates for two slices of the
grammar. The first is the rules that name objects and fields in a SELECT.
The second is a column's `DEFAULT` with a literal or an invocation. That
includes the invocation's `ORDER BY`, `LIMIT` and aggregate separator.
Unlike ExprParser, References builds the parse table itself, the way the
generator does.

- **Productions.** Each rule is written out as tree-sitter flattens it:
  - An `optional` becomes two productions.
  - A `repeat` becomes a hidden left-recursive rule without the outer
    `prec`, for example `_select_expression_repeat1` and
    `invocation_repeat1`.
  - Identical productions are one production. So `f(x)` and
    `f(x ORDER BY y)` are shared by both argument forms of invocation.
- **The production tables.**

  | Table | grammar.js lines | Notes |
  |---|---|---|
  | `SelectProds` | 700-728 | |
  | `AllFieldsProds` | 2169-2177 | |
  | `ExpressionProds` | 2645-2654 | `prec(1)`; literal, name and parenthesised alternatives |
  | `QualifiedFieldProds` | 2230-2238 | `optional_parenthesis` is `prec.right` over its steps |
  | `ObjectReferenceProds` | 1730-1738 | |
  | `FromProds` | 2448-2463 | |
  | `LiteralProds` | 2756-2775 | literal `prec(2)`, literal_string `prec(1)` |
  | `InvocationProds` | 2310-2343 | `prec(1)`; the paren_list form and the aggregate form |
  | `OrderByProds` | 2599-2629 | `prec.right` over every step; `direction` is line 317 |
  | `LimitProds` | 2631-2640 | |
  | `DefaultProds` | 2094-2108 | a second start production |

- **What the tables leave out.**
  - DISTINCT, FILTER, ONLY and WHERE.
  - `USING`/`NULLS` of order_target.
  - The list, cast, unary, array and binary alternatives of
    `_inner_default_expression`.
  - The non-name alternatives of `expression`.

  Each of these starts with a token no kept production shares. `int`
  stands for every number and keyword literal, and `str` for a quoted
  string.
- **Table construction.**
  - `FirstNT` holds the FIRST sets. No production is empty.
  - `Closure` and `Goto` work on LR(1) items `[p, d, la]`.
  - `Levels` numbers the item sets reachable from `StartState` level by
    level. There are 264.
  - `Resolved` is tree-sitter's static resolution:
    - `Survivors` drops the reductions of lower precedence.
    - `Keep` compares the shift items past their first step with the
      surviving reductions.
    - On a tie, their associativity decides.
  - `Table` holds, for each state and symbol:
    - the goto;
    - whether to shift;
    - the productions to reduce by;
    - the rules of any conflict left open (`ActFrom`).

  These operators, and the GLR actions below, model tree-sitter's
  generator and runtime, which have no source in this repository. So
  PROJECT.json's map names only the production tables and `conflicts`.
  Each intermediate value is passed as an operator argument rather than
  named twice in a LET. TLC's coverage report would otherwise expand the
  construction once per use.
- **State.** `table` is the emitted table: `Init` sets it to `Table`, and
  no action changes it. The other variables are:
  - `input`;
  - `pos`;
  - `heads`, the GLR stacks of `[s, t]` entries (a state number and a
    tree);
  - `status`;
  - `result`.
- **Actions.**
  - `Advance` reduces every stack by every reduction the table leaves on
    the lookahead, until no new stack appears. It then shifts the
    lookahead on every stack that can. Stacks that cannot die.
  - `Accept` keeps the tree of every stack that accepts at the end of the
    input.
  - `Reject` fires when no stack survives.
- **The abstract spec.** ReferenceSpec reads each input off its shape,
  without parsing.
  - **A SELECT term** is one of:
    - `*` or `obj.*` (all fields);
    - `id`, `obj.id` or `(obj).id` (a field);
    - `( e )`;
    - `e [AS] id` (an alias).

    The relation of FROM is an object name.
  - **A DEFAULT** is a literal, or `name ( args )`, each optionally in
    parentheses.
  - **How the arguments are read** (`CallReading`):
    - They split at the commas before the first `ORDER BY`.
    - Everything after `ORDER BY` belongs to the ORDER BY list of the last
      argument, because `order_by` is `prec.right`.
    - The aggregate form is the reading only when `SEPARATOR`, or `LIMIT`,
      follows. A `, 'str'` is a separator only when LIMIT follows it.
      Otherwise it is a second argument, because literal `prec(2)` beats
      invocation `prec(1)` on `)`.

  The parse happens in one step. The result is the reading, or an error
  exactly when there is none. The values are built by `Readings.tla`.
- **The mapping.** MCReferences maps a single accepted tree to its
  reading. For an invocation, `CallOf` uses the children between the
  parentheses. It maps an error to an error, and more than one tree to
  `ambiguous`, a value ReferenceSpec never takes.

### MCStatementGrammar.tla

Programs as token sequences, in sets:

- `SupportedShapes`: at least one program for every statement kind that
  `program` reaches, with the optional parts of each.
- `Malformed`: inputs that are not SQL. They include spec.md section 8's
  `SELECT FROM;`, a missing `';'`, a missing name, an empty unit, a repeated
  keyword, and an empty SET list.
- `UpdateShapes`, `CreateShapes`, `QueryShapes`, `MergeUpdateShapes`: shapes
  spec.md section 4.5 or 8 promises.
- `ParenthesisedShapes`: a parenthesised predicate or default.
- `TypeShapes`: CREATE TABLE programs with a column of every data type
  kind, including each form of the overlapping numeric kinds. They are
  part of `Promised`, and a `DECIMAL` with three numbers is in `Malformed`.
- `CreateRuleShapes`: 19 CREATE forms, no `';'`, checked from
  `_create_statement` by `CreateRulesDerive`. `NestedSchemaShapes` and
  `IndexMethodShapes` are the two CREATE forms that fail it.
- `DefaultShapes`: column defaults with a CAST, a unary NOT, both ARRAY
  forms, `x::INT`, and calls with no argument, two arguments, or DISTINCT,
  ORDER BY, SEPARATOR, LIMIT/OFFSET and FILTER. They are part of `Promised`.
- `ExpressionShapes`: queries with CASE, NOT, CAST, a call, `x::INT` and
  EXISTS, which spec.md 4.4 promises. They are part of `UnreachedShapes`.
- `OrphanForms`: pairs of a rule that no rule references and a form of it
  (both CASE forms, EXISTS, a two-unit INTERVAL, window functions over a
  named and an inline window with every part, a WINDOW clause).
  `ExpressionFormsDerive` checks each from its own rule.

## 4. Runs

| Run | cfg | Expect | What it shows |
|---|---|---|---|
| expr_precedence | MCExprParser.cfg | pass | The parser implements ExprSpec under the grammar's table, and no conflict is left undeclared. All inputs of up to 4 operands over one operator of every level (12 operators) are checked, 26,430 states. |
| keyword_operators | MCKeywordOps.cfg | pass | With NOT IN, NOT LIKE, NOT BETWEEN and IS NOT read keyword by keyword, every conflict left open is a declared one. Whichever way each fork goes, the accepted tree is a derivation of the productions (`ImplementsGrammar`). 8,078 states. |
| expr_spec_table | MCExprSpecTable.cfg | violation | Under spec.md's table the parser is wrong on `x ^ x ^ x`: it groups `(x ^ x) ^ x`, while spec.md says exponentiation is right-associative. It is also wrong on `x BETWEEN a AND b NOT BETWEEN c AND d`, which groups to the right, while with BETWEEN in the second place the input groups to the left, as the one left-associative between level says. Each input was also checked on its own. |
| between_bound | MCBetweenBound.cfg | violation | `x BETWEEN x OR x AND x` has exactly one derivation, `x BETWEEN (x OR x) AND x`, but the parser rejects it. |
| not_prefix_fork | MCNotFork.cfg | violation | After `a = b`, a NOT lookahead leaves a conflict that precedence cannot settle, so the parse forks (`PrecedenceDecides`). |
| statements | MCStatementGrammar.cfg | pass | Every supported shape is accepted, every malformed program is rejected, and every unit has exactly one tree. Every CREATE form derives from `_create_statement` in exactly one way. Dotted chains (`a.b.c`, `a.b.*`, `(a.b).c`) have one tree each, although conflicts lists object_reference and qualified_field. So does every data type kind, and every DEFAULT form (CAST, unary, ARRAY, calls, `::`). Each expression form no rule references derives from its own rule in exactly one way (`ExpressionFormsDerive`). 68 programs, 188 states. |
| create_forms | MCCreateForms.cfg | violation | `CREATE SCHEMA a CREATE SCHEMA b CREATE TABLE t (...)` has two derivations (`t` in `b`, or in `a` after `b`), and `CREATE INDEX i ON t USING btree (c)` has none, because `keyword_btree` spells `index`. |
| keywords | MCKeywords.cfg | pass | Where IN, INT and BIGINT, CREATE's INDEX, an index method, or a data type start (CHAR and CHARACTER) are expected, every casing of every keyword word and of near misses (`ind`, `intx`, `int4x`, `gin4`, a leading digit or `_`) lexes as the reference lexer says. `index` after USING is the btree terminal, and `character` at a data type start is one terminal read as `keyword_char` or as the start of `keyword_varchar`. 170,310 states. |
| promised_shapes | MCStatementPromised.cfg | violation | Shapes spec.md promises are rejected: `UPDATE t SET x = 1 FROM u`, `UPDATE a, b SET ...`, MERGE's `WHEN MATCHED THEN UPDATE SET x = 1`, CREATE VIEW/INDEX/SCHEMA, SELECT with JOIN, GROUP BY, ORDER BY, LIMIT, UNION or WITH, and queries with CASE, NOT, CAST, a call, `x::INT` or EXISTS. Each shape was also checked on its own. |
| name_references | MCReferences.cfg | pass | The LR(1) table of the SELECT name rules and of a DEFAULT's literal and invocation has 264 states. Its only open conflicts are the declared ones (`NoUndeclaredConflict`): `object_reference`/`qualified_field` on `)`, and `object_reference` on `.`. Literal `prec(2)` and order_by's `prec.right` settle every other clash. The inputs are every select list of up to three tokens from `id . * ( ) , AS`, and every argument list of up to four pieces from `id`, `'s'`, `,`, `ORDER BY`, `SEPARATOR` and `LIMIT n` inside `DEFAULT f( )`, plus written longer ones. On every one, the GLR parse gives exactly the one reading ReferenceSpec gives, or an error exactly when it has none (`ImplementsReferenceSpec`). So `f(x, 's')` has two arguments, `f(x ORDER BY y, z)` has one argument with two order targets, and `f(a ORDER BY b, c ORDER BY d)` is an error. 10,822 states. |
| parenthesised_ambiguity | MCStatementAmbiguity.cfg | violation | `DEFAULT ( 1 )`, `ON ( p )` and `AND ( p )` each have two derivation trees, and no declared conflict covers them. |

**Findings.** PROJECT.json records each one with its source line.

- Exponentiation is left-associative (line 2687), while spec.md 4.3 says it
  is right-associative.
- BETWEEN's AND is lost after an OR in the low bound (lines 30-31, 2739).
- NOT BETWEEN groups differently from BETWEEN, because it is written inline
  (line 2733).
- The NOT prefix of four operators forks the parse. spec.md 4.6 says this
  conflict is settled purely by precedence (line 2745).
- `ddl_stmt` omits `_create_statement` (line 635).
- The dialect UPDATE rules are unreferenced (1918-1933).
- The SELECT clause rules are unreachable (700).
- MERGE's UPDATE action has no SET (1803).
- `expression` lists none of the unary, CASE, CAST, call, `::` and EXISTS
  forms (2645). Some are reachable only from a column DEFAULT, and CASE,
  EXISTS, INTERVAL and the window rules from no rule at all.
- `optional_parenthesis` around a rule that already has a parenthesised form
  is ambiguous (2096, 1785, 1796).
- `keyword_btree` is `make_keyword("index")` (line 201), so `USING btree`
  never matches and `USING index` is read as btree.
- A schema nested in a schema makes the owner of later elements ambiguous
  (761). Only `prec.left` picks a tree, and the conflict is not declared.

**Bounds.** For expressions, four operands allow three operators. That is
enough for:

- any two operators competing for one operand, in both orders;
- `a BETWEEN b AND c AND d` (the tie-break);
- IN with a list or with a wrong operand.

For the name rules, three tokens are enough for a fork at each of the two
conflicts (`a.b`, `(a)`). Every shorter list that should fail also gets
checked (`a..`, `(a`, `a ,`). The written inputs add the combinations that
need more tokens: a parenthesised object followed by a field, double
parentheses, and several terms. For the invocation, `MaxArgs = 4` pieces
are enough for every clash the two precedence decisions settle:

- a term, a comma and a string (`f(x, 's')`);
- an ORDER BY followed by a comma and a term;
- SEPARATOR or a comma before LIMIT.

It also covers the lists that must fail, such as a trailing comma or two
separators. The written argument lists add the cases that need five or
more pieces: two ORDER BYs, ASC before a comma, LIMIT with OFFSET, and
aliased or parenthesised arguments.

Five operands add only longer chains of the same conflicts (used only in
`expr_spec_table`, which needs two BETWEENs). For statements, the input
of a run is a fixed set of programs rather than every sequence up to a
length. Token sequences of the length of one statement are far too many to
enumerate. The sets are chosen so that every rule of the table matches a
nonempty span of some supported or CREATE program. Every Malformed
program fails at a different rule.

**Fairness.** Only `name_references` assumes fairness: weak fairness of
the GLR parse steps. tree-sitter's parse loop takes the next shift or
reduce as soon as one is possible. The refinement includes ReferenceSpec's
promise that a result comes. That promise holds for the generated table,
not for the grammar's text. A termination property of the statement parse
was dropped: each step consumes a token of a finite input, so it held by
construction and said nothing about grammar.js. The
other runs check safety properties or refinements of safety
specifications. `Finished` and `Lexed` stutter, so a deadlock would still
reveal a state with no action.

**Why these properties.**

- The expression refinement compares every tree the machine builds with the
  declarative meaning of the table. That meaning depends on several steps of
  the stack: how the precedences of the two operators compare, the
  associativity, whether BETWEEN's AND is pending, and whether the lookahead
  is the end of input.
- `NoUndeclaredConflict` is what tree-sitter checks at generation time.
  In References it is checked over the whole LR(1) table of the name rules
  rather than the states that some input reaches.
- `ImplementsReferenceSpec` relates the trees of every surviving GLR stack
  to a reading of the input. A declared conflict makes the parser fork, and
  a wrong production or resolution shows up either as a second surviving
  tree or as a fork that dies on a valid input (for example, `(a).b` with
  no parenthesised object). Neither is visible from one stack.
- `UnitsUnambiguous` counts derivation trees across every rule a unit
  touches. A second tree shows up only when two rules far apart in the file
  both admit the same parentheses.
- `PromisedAccepted` and `MalformedRejected` follow a program through
  `program`, `statement` and the rule of its kind, down to the helpers. A
  wrong `requireFirst` or a missing `optional` in a shared rule breaks them
  for statements that are defined far away.
- `ExpressionFormsDerive` checks rules that no parse can reach today. A
  missing repeat of the WHEN arms or two overlapping frame bounds would
  only surface once the rules are wired into `expression`.
- `LexedAsReference` relates the token after several `Scan` steps to the
  whole text and the parser's state. A lexer that stops at the first
  keyword it can match, or a pattern that misses one casing, breaks it.
  So does a pattern shared by two keyword rules, which only shows up when
  one of them is expected.

## 5. Not modelled (yet), and why

- **Rules unreachable from `program`.** `_create_statement` and every
  CREATE other than CREATE TABLE, `join`, `group_by`, `set_operation`,
  `_cte`, and the dialect UPDATE rules. The runs above show that they
  cannot be reached. The CREATE rules and the expression forms are checked
  as rules in their own right.
- **`unary_expression`.** It is not an alternative of `expression`. It is
  reachable only through `_inner_default_expression` (line 2103). So the
  position of `unary_not` in the table never decides anything, and spec.md's
  claim that NOT binds looser than comparisons cannot be observed.
- **`binary_compare`.** It is declared, but no operator uses it. The grammar
  puts `binary_in` above it, while spec.md puts it below. No input can tell
  the two orders apart.
- **Precedence inside the statement rules.** The tree count of
  StatementGrammar reads the rules as a context-free grammar and leaves
  `prec` out. Where tree-sitter settles an overlap by precedence alone, the
  count cannot tell which tree the generated parser keeps. The two overlaps
  of this kind that the repository has are checked instead in References,
  which builds the LR(1) table with precedence:
  - invocation's `, 's'` separator against a second argument (2333);
  - `order_by`'s comma list inside a call's argument list (2599).

  Its invocation slice leaves out DISTINCT, FILTER, the `USING` and
  `NULLS` options of an order target, and the list, cast, unary, array and
  binary alternatives of a DEFAULT.
- **The rest of the lexer.** Strings, numbers, comments, quoted
  identifiers, and the keyword table beyond the nine tokens in
  `Keywords`. The statement model reads each of these as one token, and
  the nine were chosen because they share prefixes or a spelling.
- **Error recovery and the generated parser.** tree-sitter's error
  recovery is a runtime heuristic with no source here. References builds
  the canonical LR(1) table of the name rules and of the DEFAULT invocation. It does not model how the
  generator merges states, or the runtime's cap on the number of stacks.
  spec.md section 7 is therefore not checked.
