---------------------------- MODULE StatementRules ----------------------------
(***************************************************************************)
(* The statement productions of grammar.js as a rule table: one term per   *)
(* rule, built from the combinators of the grammar DSL (seq, choice,       *)
(* optional, repeat, repeat1) and the helper functions at the end of the  *)
(* file (wrapped_in_parenthesis, optional_parenthesis, comma_list,         *)
(* paren_list).  field(...) and alias(...) only label nodes and are left   *)
(* out; prec(...) does not change the language and is left out as well.   *)
(*                                                                         *)
(* A keyword rule is the token of the word make_keyword is given, upper-  *)
(* cased: keyword_select is "SELECT", keyword_btree "INDEX" and           *)
(* keyword_sql "SQL_PARSER", as the file spells them.  Lexical rules are   *)
(* abstract tokens: "id" is an identifier (any of its three spellings),    *)
(* "num" a natural_number, integer or decimal_number, "str" a string.      *)
(* binary_expression and between_expression, whose inside ExprParser      *)
(* models, are the single token "binary".                                 *)
(***************************************************************************)
EXTENDS Naturals, Sequences, TLC

\* The combinators of the grammar DSL.
Tok(w) == [k |-> "tok", a |-> w]
N(r) == [k |-> "nt", a |-> r]
Sq(s) == [k |-> "seq", a |-> s]
Alt(s) == [k |-> "alt", a |-> s]
Opt(t) == [k |-> "opt", a |-> t]
Rep(t) == [k |-> "rep", a |-> t]
Rep1(t) == Sq(<<t, Rep(t)>>)

\* The helper functions of grammar.js.
WrappedInParenthesis(t) == Sq(<<Tok("("), t, Tok(")")>>)
OptionalParenthesis(t) == Alt(<<t, WrappedInParenthesis(t)>>)
\* Variant: the list made optional whatever requireFirst says.
CommaListAlwaysOptional(t, requireFirst) ==
  Opt(Sq(<<t, Rep(Sq(<<Tok(","), t>>))>>))
CommaList(t, requireFirst) ==
  LET sequence == Sq(<<t, Rep(Sq(<<Tok(","), t>>))>>)
  IN  IF requireFirst THEN sequence ELSE Opt(sequence)
ParenList(t, requireFirst) == WrappedInParenthesis(CommaList(t, requireFirst))
\* unsigned_type: UNSIGNED before the type, or UNSIGNED and ZEROFILL after it.
UnsignedType(t) ==
  Alt(<<Sq(<<Tok("UNSIGNED"), t>>), Sq(<<t, Opt(Tok("UNSIGNED")), Opt(Tok("ZEROFILL"))>>)>>)
\* parametric_type: the type, or the type with one natural number per
\* parameter name in parentheses (the names only label the numbers).
ParametricType(t, params) ==
  Alt(<<t, Sq(<<t, WrappedInParenthesis(
                     Sq(<<Tok("num")>> \o [k \in 1 .. Len(params) - 1 |-> Sq(<<Tok(","), Tok("num")>>)]))>>)>>)

\* Variant: _if_exists spelled like _if_not_exists.
SharedRulesIfExistsTypo ==
  [ _temporary |-> Alt(<<Tok("TEMP"), Tok("TEMPORARY")>>),
    _not_null |-> Sq(<<Tok("NOT"), Tok("NULL")>>),
    _primary_key |-> Sq(<<Tok("PRIMARY"), Tok("KEY")>>),
    _if_exists |-> Sq(<<Tok("IF"), Tok("NOT"), Tok("EXISTS")>>),
    _if_not_exists |-> Sq(<<Tok("IF"), Tok("NOT"), Tok("EXISTS")>>),
    _or_replace |-> Sq(<<Tok("OR"), Tok("REPLACE")>>),
    _default_null |-> Sq(<<Tok("DEFAULT"), Tok("NULL")>>),
    _check_option |-> Sq(<<Tok("CHECK"), Tok("OPTION")>>),
    direction |-> Alt(<<Tok("DESC"), Tok("ASC")>>) ]

\* Short rules shared by many statements.
SharedRules ==
  [ _temporary |-> Alt(<<Tok("TEMP"), Tok("TEMPORARY")>>),
    _not_null |-> Sq(<<Tok("NOT"), Tok("NULL")>>),
    _primary_key |-> Sq(<<Tok("PRIMARY"), Tok("KEY")>>),
    _if_exists |-> Sq(<<Tok("IF"), Tok("EXISTS")>>),
    _if_not_exists |-> Sq(<<Tok("IF"), Tok("NOT"), Tok("EXISTS")>>),
    _or_replace |-> Sq(<<Tok("OR"), Tok("REPLACE")>>),
    _default_null |-> Sq(<<Tok("DEFAULT"), Tok("NULL")>>),
    _check_option |-> Sq(<<Tok("CHECK"), Tok("OPTION")>>),
    direction |-> Alt(<<Tok("DESC"), Tok("ASC")>>) ]

\* Variant: an empty statement is a unit.
TransactionRulesEmptyUnit ==
  [ statement_transaction |->
      Alt(<<N("begin_transaction"), N("commit_transaction"),
            N("rollback_transaction"), Opt(N("statement"))>>),
    begin_transaction |-> Sq(<<Tok("BEGIN"), Tok("TRANSACTION")>>),
    commit_transaction |-> Sq(<<Tok("COMMIT"), Opt(Tok("TRANSACTION"))>>),
    rollback_transaction |-> Sq(<<Tok("ROLLBACK"), Opt(Tok("TRANSACTION"))>>),
    statement |->
      Sq(<<Opt(Sq(<<Tok("EXPLAIN"), Opt(Tok("ANALYZE")), Opt(Tok("VERBOSE"))>>)),
           Alt(<<N("ddl_stmt"), N("dml_write_stmt"), N("dml_read_stmt"), N("copy_stmt")>>)>>) ]

\* program's unit, transactions and the EXPLAIN prefix.
TransactionRules ==
  [ statement_transaction |->
      Alt(<<N("begin_transaction"), N("commit_transaction"),
            N("rollback_transaction"), N("statement")>>),
    begin_transaction |-> Sq(<<Tok("BEGIN"), Tok("TRANSACTION")>>),
    commit_transaction |-> Sq(<<Tok("COMMIT"), Opt(Tok("TRANSACTION"))>>),
    rollback_transaction |-> Sq(<<Tok("ROLLBACK"), Opt(Tok("TRANSACTION"))>>),
    statement |->
      Sq(<<Opt(Sq(<<Tok("EXPLAIN"), Opt(Tok("ANALYZE")), Opt(Tok("VERBOSE"))>>)),
           Alt(<<N("ddl_stmt"), N("dml_write_stmt"), N("dml_read_stmt"), N("copy_stmt")>>)>>) ]

\* COPY and the statement kinds.  _cte (643-654) is referenced by no rule and
\* is left out.
StatementKindRules ==
  [ copy_stmt |-> Alt(<<N("copy_from"), N("copy_to")>>),
    copy_from |-> Sq(<<Tok("COPY"), N("object_reference"), Tok("FROM"), N("file_path")>>),
    copy_to |-> Sq(<<Tok("COPY"), N("object_reference"), Tok("TO"), N("file_path")>>),
    file_path |-> Tok("str"),
    ddl_stmt |->
      Alt(<<N("create_table_statement"), N("_alter_statement"), N("drop_statement"),
            N("_rename_statement"), N("_optimize_statement"), N("_merge_statement")>>),
    dml_write_stmt |->
      Alt(<<N("delete_statement"), N("insert_statement"), N("update_statement"),
            N("_truncate_statement")>>),
    dml_read_stmt |-> N("select_statement") ]

\* SELECT, TRUNCATE and DELETE.
SelectRules ==
  [ select_statement |-> Sq(<<N("select"), N("from")>>),
    select |-> Sq(<<Tok("SELECT"), Opt(Tok("DISTINCT")), N("select_expression")>>),
    select_expression |-> Sq(<<N("term"), Rep(Sq(<<Tok(","), N("term")>>))>>),
    term |-> Alt(<<N("all_fields"), Sq(<<N("expression"), Opt(N("alias_name"))>>)>>),
    _truncate_statement |->
      Sq(<<Tok("TRUNCATE"), Opt(Tok("TABLE")), Opt(Tok("ONLY")),
           CommaList(N("object_reference"), FALSE), Opt(N("_drop_behavior"))>>),
    delete_statement |->
      Sq(<<Tok("DELETE"), Tok("FROM"), N("object_reference"), N("where")>>) ]

\* Objects named by a possibly schema-qualified identifier.
ReferenceRules ==
  [ rename_object |-> Sq(<<Tok("RENAME"), Tok("TO"), N("object_reference")>>),
    set_schema |-> Sq(<<Tok("SET"), Tok("SCHEMA"), Tok("id")>>),
    change_ownership |-> Sq(<<Tok("OWNER"), Tok("TO"), Tok("id")>>),
    object_reference |-> Sq(<<Opt(Sq(<<Tok("id"), Tok(".")>>)), Tok("id")>>) ]

\* Columns and fields.
FieldRules ==
  [ ordered_columns |-> ParenList(N("ordered_column"), TRUE),
    ordered_column |-> Sq(<<N("column"), Opt(N("direction"))>>),
    all_fields |-> Sq(<<Opt(Sq(<<N("object_reference"), Tok(".")>>)), Tok("*")>>),
    parameter |-> Alt(<<Tok("?"), Sq(<<Tok("$"), Tok("num")>>)>>) ]

QualifiedFieldRules ==
  [ field |-> Tok("id"),
    qualified_field |->
      Sq(<<Opt(Sq(<<OptionalParenthesis(N("object_reference")), Tok(".")>>)), Tok("id")>>) ]

\* FROM: one relation and an optional WHERE.
FromRules ==
  [ alias_name |-> Sq(<<Opt(Tok("AS")), Tok("id")>>),
    from |-> Sq(<<Tok("FROM"), Opt(Tok("ONLY")), N("relation"), Opt(N("where"))>>),
    relation |-> N("object_reference") ]

WhereRules == [ where |-> Sq(<<Tok("WHERE"), N("expression")>>) ]

\* Variant: a list is also an expression.
ExpressionRulesWithList ==
  [ expression |->
      Alt(<<N("literal"), N("parameter"), N("qualified_field"), Tok("binary"),
            WrappedInParenthesis(N("expression")), N("list")>>) ]

\* The alternatives of expression; binary and between expressions are "binary".
ExpressionRules ==
  [ expression |->
      Alt(<<N("literal"), N("parameter"), N("qualified_field"), Tok("binary"),
            WrappedInParenthesis(N("expression"))>>) ]

\* subquery, list and literal; integer and decimal_number are both "num".
LiteralRules ==
  [ subquery |-> WrappedInParenthesis(N("dml_read_stmt")),
    list |-> ParenList(N("expression"), FALSE),
    literal |-> Alt(<<Tok("num"), Tok("str"), Tok("TRUE"), Tok("FALSE"), Tok("NULL")>>) ]

\* data_type and its kinds (415-550).  keyword_varchar, keyword_timestamp
\* and keyword_timestamptz name other rules and so are rules themselves;
\* their make_keyword words "character", "without", "zone" and "timestamp"
\* are anonymous tokens, and "with" and "time" are the tokens of
\* keyword_with and keyword_time, whose whole content they are.
DataTypeRules ==
  [ data_type |-> Sq(<<N("data_type_kind"), Opt(N("array_size_definition"))>>),
    data_type_kind |->
      Alt(<<Tok("BOOLEAN"), N("bit"), N("binary"), N("varbinary"), Tok("IMAGE"),
            Tok("SMALLSERIAL"), Tok("SERIAL"), Tok("BIGSERIAL"),
            N("tinyint"), N("smallint"), N("mediumint"), N("int"), N("bigint"),
            N("decimal"), N("numeric"), N("double"), N("float"),
            Tok("MONEY"), Tok("SMALLMONEY"), N("char"), N("varchar"), N("nchar"), N("nvarchar"),
            N("numeric"), Tok("STRING"), Tok("TEXT"), Tok("UUID"), Tok("JSON"), Tok("JSONB"),
            Tok("XML"), Tok("BYTEA"), Tok("INET"), N("enum"),
            Tok("DATE"), Tok("DATETIME"), Tok("DATETIME2"), N("datetimeoffset"),
            Tok("SMALLDATETIME"), N("time"), N("keyword_timestamp"), N("keyword_timestamptz"),
            Tok("INTERVAL"), Tok("GEOMETRY"), Tok("GEOGRAPHY"), Tok("BOX2D"), Tok("BOX3D"),
            Tok("OID"), Tok("NAME"), Tok("REGCLASS"), Tok("REGNAMESPACE"), Tok("REGPROC"),
            Tok("REGTYPE"), Tok("id")>>),
    array_size_definition |->
      Alt(<<Sq(<<Tok("ARRAY"), Opt(N("_array_size_definition"))>>),
            Rep1(N("_array_size_definition"))>>),
    _array_size_definition |-> Sq(<<Tok("["), Opt(Tok("num")), Tok("]")>>),
    tinyint |-> Tok("TINYINT"), smallint |-> Tok("SMALLINT"), mediumint |-> Tok("MEDIUMINT"),
    int |-> Tok("INT"), bigint |-> Tok("BIGINT"),
    bit |-> Alt(<<Tok("BIT"), Sq(<<Tok("BIT"), ParametricType(Tok("VARYING"), <<"precision">>)>>),
                 ParametricType(Tok("BIT"), <<"precision">>)>>),
    binary |-> ParametricType(Tok("BINARY"), <<"precision">>),
    varbinary |-> ParametricType(Tok("VARBINARY"), <<"precision">>),
    float |-> Alt(<<ParametricType(Tok("FLOAT"), <<"precision">>),
                   UnsignedType(ParametricType(Tok("FLOAT"), <<"precision", "scale">>))>>),
    double |->
      Alt(<<Tok("FLOAT8"),
            UnsignedType(ParametricType(Tok("DOUBLE"), <<"precision", "scale">>)),
            UnsignedType(ParametricType(Sq(<<Tok("DOUBLE"), Tok("PRECISION")>>), <<"precision", "scale">>)),
            UnsignedType(ParametricType(Tok("REAL"), <<"precision", "scale">>))>>),
    decimal |-> Alt(<<ParametricType(Tok("DECIMAL"), <<"precision">>),
                     ParametricType(Tok("DECIMAL"), <<"precision", "scale">>)>>),
    numeric |-> Alt(<<ParametricType(Tok("NUMERIC"), <<"precision">>),
                     ParametricType(Tok("NUMERIC"), <<"precision", "scale">>)>>),
    char |-> Sq(<<Tok("CHAR"), Tok("("), Tok("num"), Tok(")")>>),
    varchar |-> Sq(<<N("keyword_varchar"), Tok("("), Tok("num"), Tok(")")>>),
    keyword_varchar |-> Alt(<<Tok("VARCHAR"), Sq(<<Tok("CHARACTER"), Tok("VARYING")>>)>>),
    nchar |-> ParametricType(Tok("NCHAR"), <<"size">>),
    nvarchar |-> ParametricType(Tok("NVARCHAR"), <<"size">>),
    datetimeoffset |-> ParametricType(Tok("DATETIMEOFFSET"), <<"size">>),
    time |-> ParametricType(Tok("TIME"), <<"size">>),
    keyword_timestamp |->
      Sq(<<Tok("TIMESTAMP"), Opt(Sq(<<Tok("WITHOUT"), Tok("TIME"), Tok("ZONE")>>))>>),
    keyword_timestamptz |->
      Alt(<<Tok("TIMESTAMPTZ"), Sq(<<Tok("TIMESTAMP"), Tok("WITH"), Tok("TIME"), Tok("ZONE")>>)>>),
    enum |-> Sq(<<Tok("ENUM"), ParenList(Tok("str"), TRUE)>>) ]

\* CREATE TABLE.  No rule of ddl_stmt reaches _create_statement, so this is
\* the only CREATE statement a program can hold.
CreateTableRules ==
  [ create_table_statement |->
      Sq(<<Tok("CREATE"), Opt(Alt(<<N("_temporary"), Tok("UNLOGGED"), Tok("EXTERNAL")>>)),
           Tok("TABLE"), Opt(N("_if_not_exists")), Tok("id"), N("column_definitions")>>) ]

\* The CREATE statements other than CREATE TABLE.  _table_settings
\* (768-779) is referenced by no rule and is left out.
CreateViewRules ==
  [ _create_statement |->
      Alt(<<N("create_table_statement"), N("create_view"), N("create_materialized_view"),
            N("create_index"), N("create_function"), N("create_type"), N("create_database"),
            N("create_role"), N("create_sequence"),
            Sq(<<N("create_schema"), Rep(N("_create_statement"))>>)>>),
    create_query |-> N("dml_read_stmt"),
    create_view |->
      Sq(<<Tok("CREATE"), Opt(N("_or_replace")), Opt(N("_temporary")), Opt(Tok("RECURSIVE")),
           Tok("VIEW"), Opt(N("_if_not_exists")), N("object_reference"),
           Opt(ParenList(Tok("id"), FALSE)), Tok("AS"), N("create_query"),
           Opt(Sq(<<Tok("WITH"), Opt(Alt(<<Tok("LOCAL"), Tok("CASCADED")>>)),
                    N("_check_option")>>))>>),
    create_materialized_view |->
      Sq(<<Tok("CREATE"), Opt(N("_or_replace")), Tok("MATERIALIZED"), Tok("VIEW"),
           Opt(N("_if_not_exists")), N("object_reference"), Tok("AS"), N("create_query"),
           Opt(Alt(<<Sq(<<Tok("WITH"), Tok("DATA")>>),
                     Sq(<<Tok("WITH"), Tok("NO"), Tok("DATA")>>)>>))>>) ]

\* CREATE FUNCTION, its options and its bodies.
FunctionRules ==
  LET option == Alt(<<N("function_language"), N("function_volatility"),
                      N("function_leakproof"), N("function_safety"),
                      N("function_strictness"), N("function_cost"), N("function_rows"),
                      N("function_support")>>)
      bodyStatements == Rep1(Sq(<<N("_function_body_statement"), Tok(";")>>))
  IN
  [ dollar_quote |-> Alt(<<Tok("$$"), Tok("$function$"), Tok("$body$")>>),
    create_function |->
      Sq(<<Tok("CREATE"), Opt(N("_or_replace")), Tok("FUNCTION"), N("object_reference"),
           Alt(<<N("column_definitions"), Sq(<<Tok("("), Tok(")")>>)>>), Tok("RETURNS"),
           Alt(<<N("data_type"), Sq(<<Tok("SETOF"), N("data_type")>>),
                 Sq(<<Tok("TABLE"), N("column_definitions")>>), Tok("TRIGGER")>>),
           Rep(option), N("function_body"), Rep(option)>>),
    _function_return |-> Sq(<<Tok("RETURN"), N("expression")>>),
    function_declaration |->
      Sq(<<Tok("id"), N("data_type"),
           Opt(Sq(<<Tok(":="), Alt(<<WrappedInParenthesis(N("statement")), N("literal")>>)>>)),
           Tok(";")>>),
    _function_body_statement |-> Alt(<<N("statement"), N("_function_return")>>),
    function_body |->
      Alt(<<Sq(<<N("_function_return"), Tok(";")>>),
            Sq(<<Tok("BEGIN"), Tok("ATOMIC"), bodyStatements, Tok("END")>>),
            Sq(<<Tok("AS"), N("dollar_quote"),
                 Opt(Sq(<<Tok("DECLARE"), Rep1(N("function_declaration"))>>)),
                 Tok("BEGIN"), bodyStatements, Tok("END"), Opt(Tok(";")), N("dollar_quote")>>),
            Sq(<<Tok("AS"), Tok("str")>>),
            Sq(<<Tok("AS"), N("dollar_quote"), N("_function_body_statement"),
                 N("dollar_quote")>>)>>),
    function_language |->
      Sq(<<Tok("LANGUAGE"), Alt(<<Tok("SQL_PARSER"), Tok("PLPGSQL")>>)>>),
    function_volatility |-> Alt(<<Tok("IMMUTABLE"), Tok("STABLE"), Tok("VOLATILE")>>),
    function_leakproof |-> Sq(<<Opt(Tok("NOT")), Tok("LEAKPROOF")>>),
    function_safety |->
      Sq(<<Tok("PARALLEL"), Alt(<<Tok("SAFE"), Tok("UNSAFE"), Tok("RESTRICTED")>>)>>),
    function_strictness |->
      Alt(<<Sq(<<Alt(<<Tok("CALLED"), Sq(<<Tok("RETURNS"), Tok("NULL")>>)>>), Tok("ON"),
                 Tok("NULL"), Tok("INPUT")>>),
            Tok("STRICT")>>),
    function_cost |-> Sq(<<Tok("COST"), Tok("num")>>),
    function_rows |-> Sq(<<Tok("ROWS"), Tok("num")>>),
    function_support |-> Sq(<<Tok("SUPPORT"), Tok("str")>>) ]

\* CREATE INDEX, SCHEMA, DATABASE, ROLE, SEQUENCE and TYPE.  keyword_btree
\* is make_keyword("index"), so USING takes INDEX where btree is meant.
CreateObjectRules ==
  [ create_index |->
      Sq(<<Tok("CREATE"), Opt(Tok("UNIQUE")), Tok("INDEX"), Opt(Tok("CONCURRENTLY")),
           Opt(Sq(<<Opt(N("_if_not_exists")), N("column")>>)), Tok("ON"), Opt(Tok("ONLY")),
           N("object_reference"),
           Opt(Sq(<<Tok("USING"), Alt(<<Tok("INDEX"), Tok("HASH"), Tok("GIST"), Tok("SPGIST"),
                                        Tok("GIN"), Tok("BRIN")>>)>>)),
           N("ordered_columns"), Opt(N("where"))>>),
    create_schema |->
      Sq(<<Tok("CREATE"), Tok("SCHEMA"),
           Alt(<<Sq(<<Opt(N("_if_not_exists")), Tok("id"),
                      Opt(Sq(<<Tok("AUTHORIZATION"), Tok("id")>>))>>),
                 Sq(<<Tok("AUTHORIZATION"), Tok("id")>>)>>)>>),
    _with_settings |-> Sq(<<Tok("id"), Opt(Tok("=")), Alt(<<Tok("id"), Tok("str")>>)>>),
    create_database |->
      Sq(<<Tok("CREATE"), Tok("DATABASE"), Tok("id"), Opt(Tok("WITH")),
           Rep(N("_with_settings"))>>),
    create_role |->
      Sq(<<Tok("CREATE"), Alt(<<Tok("USER"), Tok("ROLE"), Tok("GROUP")>>), Tok("id"),
           Opt(Tok("WITH")), Rep(Alt(<<N("_user_access_role_config"), N("_role_options")>>))>>),
    _user_access_role_config |->
      Sq(<<Alt(<<Sq(<<Opt(Tok("IN")), Tok("ROLE")>>), Sq(<<Tok("IN"), Tok("GROUP")>>),
                 Tok("ADMIN"), Tok("USER")>>),
           CommaList(Tok("id"), TRUE)>>),
    create_sequence |->
      Sq(<<Tok("CREATE"), Opt(Alt(<<Alt(<<Tok("TEMPORARY"), Tok("TEMP")>>), Tok("UNLOGGED")>>)),
           Tok("SEQUENCE"), Opt(N("_if_not_exists")), N("object_reference"),
           Rep(Alt(<<Sq(<<Tok("AS"), N("data_type")>>),
                     Sq(<<Tok("INCREMENT"), Opt(Tok("BY")), Tok("num")>>),
                     Sq(<<Tok("MINVALUE"), Alt(<<N("literal"), Sq(<<Tok("NO"), Tok("MINVALUE")>>)>>)>>),
                     Sq(<<Tok("MAXVALUE"), Alt(<<N("literal"), Sq(<<Tok("NO"), Tok("MAXVALUE")>>)>>)>>),
                     Sq(<<Tok("START"), Opt(Tok("WITH")), Tok("num")>>),
                     Sq(<<Tok("CACHE"), Tok("num")>>),
                     Sq(<<Opt(Tok("NO")), Tok("CYCLE")>>),
                     Sq(<<Tok("OWNED"), Tok("BY"), Alt(<<Tok("NONE"), N("object_reference")>>)>>)>>))>>),
    create_type |->
      Sq(<<Tok("CREATE"), Tok("TYPE"), Tok("id"),
           Opt(Alt(<<Sq(<<Tok("AS"), N("column_definitions"),
                          Opt(Sq(<<Tok("COLLATE"), Tok("id")>>))>>),
                     Sq(<<Tok("AS"), Tok("ENUM"), N("enum_elements")>>),
                     Sq(<<Opt(Sq(<<Tok("AS"), Tok("RANGE")>>)),
                          ParenList(N("_with_settings"), FALSE)>>)>>))>>),
    enum_elements |-> ParenList(Tok("str"), FALSE) ]

\* SET assignments and table options.
AssignmentRules ==
  [ assignment |-> Sq(<<N("field"), Tok("="), N("expression")>>),
    table_option |->
      Alt(<<Sq(<<Tok("DEFAULT"), Tok("CHARACTER"), Tok("SET"), Tok("id")>>),
            Sq(<<Tok("COLLATE"), Tok("id")>>),
            Tok("DEFAULT"),
            Sq(<<Alt(<<Tok("ENGINE"), Tok("id"), Tok("str")>>), Tok("="),
                 Alt(<<Tok("id"), Tok("str")>>)>>)>>) ]

(***************************************************************************)
(* The expression forms of spec.md 4.4 beside the operators.  expression  *)
(* lists none of them: cast, unary_expression, array and invocation (and   *)
(* through it order_by and limit) are reached only from                    *)
(* _inner_default_expression, and case, interval, exists, window_function *)
(* and window_clause from no rule at all.                                  *)
(***************************************************************************)
\* unary_expression (2715-2728): NOT, !, ANY, SOME or ALL before an expression.
UnaryRules ==
  [ unary_expression |->
      Sq(<<Alt(<<Tok("NOT"), Tok("!"), Tok("ANY"), Tok("SOME"), Tok("ALL")>>), N("expression")>>) ]

\* array (551-565): ARRAY [ e, ... ] or ARRAY ( query ).
ArrayRules ==
  [ array |->
      Sq(<<Tok("ARRAY"), Alt(<<Sq(<<Tok("["), CommaList(N("expression"), FALSE), Tok("]")>>),
                              WrappedInParenthesis(N("dml_read_stmt"))>>)>>) ]

\* A WHEN e THEN e arm of case.
WhenThen == Sq(<<Tok("WHEN"), N("expression"), Tok("THEN"), N("expression")>>)

\* Variant: the simple form takes a single WHEN arm.
CaseOneArm ==
  Sq(<<Tok("CASE"), Alt(<<Sq(<<N("expression"), WhenThen>>), Sq(<<WhenThen, Rep(WhenThen)>>)>>),
       Opt(Sq(<<Tok("ELSE"), N("expression")>>)), Tok("END")>>)

\* case (2184-2226): the simple form CASE e WHEN ... and the searched form
\* CASE WHEN ..., each with at least one arm, then an optional ELSE.
Case ==
  Sq(<<Tok("CASE"), Alt(<<Sq(<<N("expression"), WhenThen, Rep(WhenThen)>>),
                          Sq(<<WhenThen, Rep(WhenThen)>>)>>),
       Opt(Sq(<<Tok("ELSE"), N("expression")>>)), Tok("END")>>)

\* implicit_cast ... invocation (2239-2343).  The 25 unit words of
\* _interval_definition are the token "unit".  invocation's two argument
\* forms: paren_list of [DISTINCT] term [order_by], and one such argument
\* with a SEPARATOR or ',' string and a limit.
CallRules ==
  [ implicit_cast |-> Sq(<<N("expression"), Tok("::"), N("data_type")>>),
    interval_definitions |-> Rep1(N("_interval_definition")),
    _interval_definition |-> Sq(<<Tok("num"), Tok("unit"), Opt(Tok("ago"))>>),
    interval |-> Sq(<<Tok("INTERVAL"), Tok("'"), N("interval_definitions"), Tok("'")>>),
    cast |->
      Sq(<<Tok("CAST"), WrappedInParenthesis(Sq(<<N("expression"), Tok("AS"), N("data_type")>>))>>),
    filter_expression |-> Sq(<<Tok("FILTER"), WrappedInParenthesis(N("where"))>>),
    invocation |->
      Sq(<<N("object_reference"),
           Alt(<<ParenList(Sq(<<Opt(Tok("DISTINCT")), N("term"), Opt(N("order_by"))>>), FALSE),
                 WrappedInParenthesis(
                   Sq(<<Opt(Tok("DISTINCT")), N("term"), Opt(N("order_by")),
                        Opt(Sq(<<Alt(<<Tok("SEPARATOR"), Tok(",")>>), Tok("str")>>)),
                        Opt(N("limit"))>>))>>),
           Opt(N("filter_expression"))>>) ]

\* A bound of frame_definition: an identifier, a binary expression, a
\* string or an integer.
FrameStart == Alt(<<Tok("id"), Tok("binary"), Tok("str"), Tok("num")>>)

\* exists ... window_function (2345-2447), with the frame helpers
\* _current_row and _exclude_* (311-315) written out.
WindowRules ==
  [ exists |-> Sq(<<Tok("EXISTS"), N("subquery")>>),
    partition_by |-> Sq(<<Tok("PARTITION"), Tok("BY"), CommaList(N("expression"), TRUE)>>),
    _current_row |-> Sq(<<Tok("CURRENT"), Tok("ROW")>>),
    frame_definition |->
      Alt(<<Sq(<<Tok("UNBOUNDED"), Tok("PRECEDING")>>), Sq(<<FrameStart, Tok("PRECEDING")>>),
            N("_current_row"), Sq(<<FrameStart, Tok("FOLLOWING")>>),
            Sq(<<Tok("UNBOUNDED"), Tok("FOLLOWING")>>)>>),
    window_frame |->
      Sq(<<Alt(<<Tok("RANGE"), Tok("ROWS"), Tok("GROUPS")>>),
           Alt(<<Sq(<<Tok("BETWEEN"), N("frame_definition"),
                      Opt(Sq(<<Tok("AND"), N("frame_definition")>>))>>),
                 N("frame_definition")>>),
           Opt(Alt(<<Sq(<<Tok("EXCLUDE"), Tok("CURRENT"), Tok("ROW")>>),
                     Sq(<<Tok("EXCLUDE"), Tok("GROUP")>>), Sq(<<Tok("EXCLUDE"), Tok("TIES")>>),
                     Sq(<<Tok("EXCLUDE"), Tok("NO"), Tok("OTHERS")>>)>>))>>),
    window_clause |-> Sq(<<Tok("WINDOW"), Tok("id"), Tok("AS"), N("window_specification")>>),
    window_specification |->
      WrappedInParenthesis(Sq(<<Opt(N("partition_by")), Opt(N("order_by")), Opt(N("window_frame"))>>)),
    window_function |->
      Sq(<<N("invocation"), Tok("OVER"), Alt(<<Tok("id"), N("window_specification")>>)>>) ]

\* order_by, order_target, limit and offset (2599-2622).
OrderLimitRules ==
  [ order_by |-> Sq(<<Tok("ORDER"), Tok("BY"), CommaList(N("order_target"), TRUE)>>),
    order_target |->
      Sq(<<N("expression"),
           Opt(Sq(<<Alt(<<N("direction"),
                          Sq(<<Tok("USING"), Alt(<<Tok("<"), Tok(">"), Tok("<="), Tok(">=")>>)>>)>>),
                    Opt(Sq(<<Tok("NULLS"), Alt(<<Tok("FIRST"), Tok("LAST")>>)>>))>>))>>),
    limit |-> Sq(<<Tok("LIMIT"), N("literal"), Opt(N("offset"))>>),
    offset |-> Sq(<<Tok("OFFSET"), N("literal")>>) ]

\* Column definitions and table constraints.
ColumnRules ==
  [ column_definitions |->
      Sq(<<Tok("("), CommaList(N("column_definition"), TRUE), Opt(N("constraints")), Tok(")")>>),
    column_definition |-> Sq(<<Tok("id"), N("data_type"), Rep(N("column_constraint"))>>),
    _column_comment |-> Sq(<<Tok("COMMENT"), Tok("str")>>),
    column_constraint |->
      Alt(<<Alt(<<Tok("NULL"), N("_not_null")>>), N("_default_expression"), N("_primary_key"),
            Tok("AUTO_INCREMENT"), N("direction"), N("_column_comment"),
            Sq(<<Opt(Sq(<<Tok("GENERATED"), Tok("ALWAYS")>>)), Tok("AS"), Tok("id")>>)>>),
    _default_expression |->
      Sq(<<Tok("DEFAULT"), OptionalParenthesis(N("_inner_default_expression"))>>),
    _inner_default_expression |->
      Alt(<<N("literal"), N("list"), N("cast"), Tok("binary"), N("unary_expression"), N("array"),
            N("invocation"), Tok("CURRENT_TIMESTAMP"), N("implicit_cast")>>),
    constraints |->
      Sq(<<Tok(","), N("constraint"), Rep(Sq(<<Tok(","), N("constraint")>>))>>),
    constraint |->
      Alt(<<N("_constraint_literal"), N("_key_constraint"), N("primary_key_constraint")>>),
    _constraint_literal |->
      Sq(<<Tok("CONSTRAINT"), Tok("id"), N("_primary_key"), N("column_list")>>),
    primary_key_constraint |-> Sq(<<N("_primary_key"), N("column_list")>>),
    _key_constraint |->
      Sq(<<Opt(Alt(<<Tok("UNIQUE"), Tok("FOREIGN")>>)), Alt(<<Tok("KEY"), Tok("INDEX")>>),
           Opt(Tok("id")), N("ordered_columns"),
           Opt(Sq(<<Tok("REFERENCES"), N("object_reference"), N("ordered_columns"),
                    Opt(Sq(<<Tok("ON"), Tok("DELETE"), Tok("CASCADE")>>))>>))>>) ]

\* ALTER and RENAME TABLE.
AlterTableRules ==
  [ _alter_statement |->
      Alt(<<N("alter_table"), N("alter_view"), N("alter_schema"), N("alter_type"),
            N("alter_index"), N("alter_database"), N("alter_role"), N("alter_sequence")>>),
    _rename_statement |->
      Sq(<<Tok("RENAME"), Alt(<<Tok("TABLE"), Tok("TABLES")>>), Opt(N("_if_exists")),
           N("object_reference"), Opt(Alt(<<Tok("NOWAIT"), Sq(<<Tok("WAIT"), Tok("num")>>)>>)),
           Tok("TO"), N("object_reference"), Rep(Sq(<<Tok(","), N("_rename_table_names")>>))>>),
    _rename_table_names |-> Sq(<<N("object_reference"), Tok("TO"), N("object_reference")>>),
    alter_table |->
      Sq(<<Tok("ALTER"), Tok("TABLE"), Opt(N("_if_exists")), N("object_reference"),
           N("_alter_specifications"), Rep(Sq(<<Tok(","), N("_alter_specifications")>>))>>),
    _alter_specifications |->
      Alt(<<N("add_column"), N("add_constraint"), N("alter_column"), N("modify_column"),
            N("change_column"), N("drop_column"), N("rename_object"), N("rename_column"),
            N("set_schema"), N("change_ownership")>>) ]

\* The column actions of ALTER TABLE, and ALTER VIEW.
ColumnAlterRules ==
  [ add_column |->
      Sq(<<Opt(Tok("ADD")), Opt(Tok("COLUMN")), Opt(N("_if_not_exists")),
           N("column_definition"), Opt(N("column_position"))>>),
    add_constraint |-> Sq(<<Tok("ADD"), Opt(Tok("CONSTRAINT")), Tok("id"), N("constraint")>>),
    alter_column |->
      Sq(<<Tok("ALTER"), Opt(Tok("COLUMN")), Tok("id"),
           Alt(<<Sq(<<Alt(<<Tok("SET"), Tok("DROP")>>), Tok("NOT"), Tok("NULL")>>),
                 Sq(<<Opt(Sq(<<Tok("SET"), Tok("DATA")>>)), Tok("TYPE"), N("data_type")>>),
                 Sq(<<Tok("SET"), Tok("DEFAULT"), N("expression")>>),
                 Sq(<<Tok("DROP"), Tok("DEFAULT")>>)>>)>>),
    modify_column |->
      Sq(<<Tok("MODIFY"), Opt(Tok("COLUMN")), Opt(N("_if_exists")), N("column_definition"),
           Opt(N("column_position"))>>),
    change_column |->
      Sq(<<Tok("CHANGE"), Opt(Tok("COLUMN")), Opt(N("_if_exists")), Tok("id"),
           N("column_definition"), Opt(N("column_position"))>>),
    column_position |-> Alt(<<Tok("FIRST"), Sq(<<Tok("AFTER"), Tok("id")>>)>>),
    drop_column |-> Sq(<<Tok("DROP"), Opt(Tok("COLUMN")), Opt(N("_if_exists")), Tok("id")>>),
    rename_column |-> Sq(<<Tok("RENAME"), Opt(Tok("COLUMN")), Tok("id"), Tok("TO"), Tok("id")>>),
    alter_view |->
      Sq(<<Tok("ALTER"), Tok("VIEW"), Opt(N("_if_exists")), N("object_reference"),
           Alt(<<N("rename_object"), N("rename_column"), N("set_schema"), N("change_ownership")>>)>>) ]

\* ALTER SCHEMA, DATABASE, ROLE and INDEX.
AlterObjectRules ==
  [ alter_schema |->
      Sq(<<Tok("ALTER"), Tok("SCHEMA"), Tok("id"), Alt(<<Tok("RENAME"), Tok("OWNER")>>),
           Tok("TO"), Tok("id")>>),
    alter_database |->
      Sq(<<Tok("ALTER"), Tok("DATABASE"), Tok("id"), Opt(Tok("WITH")),
           Alt(<<N("rename_object"), N("change_ownership"),
                 Sq(<<Tok("RESET"), Alt(<<Tok("ALL"), Tok("id")>>)>>),
                 Sq(<<Tok("SET"), Alt(<<Sq(<<Tok("TABLESPACE"), Tok("id")>>),
                                        N("set_configuration")>>)>>)>>)>>),
    alter_role |->
      Sq(<<Tok("ALTER"), Alt(<<Tok("ROLE"), Tok("GROUP"), Tok("USER")>>),
           Alt(<<Tok("id"), Tok("ALL")>>),
           Alt(<<N("rename_object"),
                 Sq(<<Opt(Tok("WITH")), Rep(N("_role_options"))>>),
                 Sq(<<Opt(Sq(<<Tok("IN"), Tok("DATABASE"), Tok("id")>>)),
                      Alt(<<Sq(<<Tok("SET"), N("set_configuration")>>),
                            Sq(<<Tok("RESET"), Alt(<<Tok("ALL"), Tok("id")>>)>>)>>)>>)>>)>>),
    set_configuration |->
      Sq(<<Tok("id"),
           Alt(<<Sq(<<Tok("FROM"), Tok("CURRENT")>>),
                 Sq(<<Alt(<<Tok("TO"), Tok("=")>>),
                      Alt(<<Tok("id"), N("literal"), Tok("DEFAULT")>>)>>)>>)>>),
    alter_index |->
      Sq(<<Tok("ALTER"), Tok("INDEX"), Opt(N("_if_exists")), Tok("id"),
           Alt(<<N("rename_object"),
                 Sq(<<Tok("ALTER"), Opt(Tok("COLUMN")), Tok("num"), Tok("SET"),
                      Tok("STATISTICS"), Tok("num")>>),
                 Sq(<<Tok("RESET"), ParenList(Tok("id"), FALSE)>>),
                 Sq(<<Tok("SET"),
                      Alt(<<Sq(<<Tok("TABLESPACE"), Tok("id")>>),
                            ParenList(Sq(<<Tok("id"), Tok("="), N("literal")>>), FALSE)>>)>>)>>)>>) ]

\* The options of ALTER ROLE ... WITH.
RoleOptionRules ==
  [ _role_options |->
      Alt(<<Tok("id"),
            Sq(<<Tok("VALID"), Tok("UNTIL"), Tok("str")>>),
            Sq(<<Tok("CONNECTION"), Tok("LIMIT"), Tok("num")>>),
            Sq(<<Opt(Tok("ENCRYPTED")), Tok("PASSWORD"), Alt(<<Tok("str"), Tok("NULL")>>)>>)>>) ]

\* ALTER SEQUENCE and ALTER TYPE.
AlterSequenceTypeRules ==
  [ alter_sequence |->
      Sq(<<Tok("ALTER"), Tok("SEQUENCE"), Opt(N("_if_exists")), N("object_reference"),
           Alt(<<Rep1(Alt(<<Sq(<<Tok("AS"), N("data_type")>>),
                            Sq(<<Tok("INCREMENT"), Opt(Tok("BY")), N("literal")>>),
                            Sq(<<Tok("MINVALUE"), Alt(<<N("literal"), Sq(<<Tok("NO"), Tok("MINVALUE")>>)>>)>>),
                            Sq(<<Tok("MAXVALUE"), Alt(<<N("literal"), Sq(<<Tok("NO"), Tok("MAXVALUE")>>)>>)>>),
                            Sq(<<Tok("START"), Opt(Tok("WITH")), Tok("num")>>),
                            Sq(<<Tok("RESTART"), Opt(Tok("WITH")), Tok("num")>>),
                            Sq(<<Tok("CACHE"), Tok("num")>>),
                            Sq(<<Opt(Tok("NO")), Tok("CYCLE")>>),
                            Sq(<<Tok("OWNED"), Tok("BY"), Alt(<<Tok("NONE"), N("object_reference")>>)>>)>>)),
                 N("rename_object"), N("change_ownership"),
                 Sq(<<Tok("SET"), Alt(<<Alt(<<Tok("LOGGED"), Tok("UNLOGGED")>>),
                                       Sq(<<Tok("SCHEMA"), Tok("id")>>)>>)>>)>>)>>),
    alter_type |->
      Sq(<<Tok("ALTER"), Tok("TYPE"), Tok("id"),
           Alt(<<N("change_ownership"), N("set_schema"), N("rename_object"),
                 Sq(<<Tok("RENAME"), Tok("ATTRIBUTE"), Tok("id"), Tok("TO"), Tok("id"),
                      Opt(N("_drop_behavior"))>>),
                 Sq(<<Tok("ADD"), Tok("VALUE"), Opt(N("_if_not_exists")), Tok("str"),
                      Opt(Sq(<<Alt(<<Tok("BEFORE"), Tok("AFTER")>>), Tok("str")>>))>>),
                 Sq(<<Tok("RENAME"), Tok("VALUE"), Tok("str"), Tok("TO"), Tok("str")>>),
                 Sq(<<Alt(<<Sq(<<Tok("ADD"), Tok("ATTRIBUTE"), Tok("id"), N("data_type")>>),
                            Sq(<<Tok("DROP"), Tok("ATTRIBUTE"), Opt(N("_if_exists")), Tok("id")>>),
                            Sq(<<Tok("ALTER"), Tok("ATTRIBUTE"), Tok("id"),
                                 Opt(Sq(<<Tok("SET"), Tok("DATA")>>)), Tok("TYPE"), N("data_type")>>)>>),
                      Opt(Sq(<<Tok("COLLATE"), Tok("id")>>)), Opt(N("_drop_behavior"))>>)>>)>>) ]

\* DROP for each object kind.
DropRules ==
  [ _drop_behavior |-> Alt(<<Tok("CASCADE"), Tok("RESTRICT")>>),
    drop_statement |->
      Alt(<<N("drop_table"), N("drop_view"), N("drop_index"), N("drop_type"),
            N("drop_schema"), N("drop_database"), N("drop_role"), N("drop_sequence")>>),
    drop_table |->
      Sq(<<Tok("DROP"), Tok("TABLE"), Opt(N("_if_exists")), N("object_reference"),
           Opt(N("_drop_behavior"))>>),
    drop_view |->
      Sq(<<Tok("DROP"), Tok("VIEW"), Opt(N("_if_exists")), N("object_reference"),
           Opt(N("_drop_behavior"))>>),
    drop_schema |->
      Sq(<<Tok("DROP"), Tok("SCHEMA"), Opt(N("_if_exists")), Tok("id"), Opt(N("_drop_behavior"))>>),
    drop_database |->
      Sq(<<Tok("DROP"), Tok("DATABASE"), Opt(N("_if_exists")), Tok("id"), Opt(Tok("WITH")),
           Opt(Tok("FORCE"))>>),
    drop_role |->
      Sq(<<Tok("DROP"), Alt(<<Tok("GROUP"), Tok("ROLE"), Tok("USER")>>), Opt(N("_if_exists")),
           Tok("id")>>),
    drop_type |->
      Sq(<<Tok("DROP"), Tok("TYPE"), Opt(N("_if_exists")), N("object_reference"),
           Opt(N("_drop_behavior"))>>),
    drop_sequence |->
      Sq(<<Tok("DROP"), Tok("SEQUENCE"), Opt(N("_if_exists")), N("object_reference"),
           Opt(N("_drop_behavior"))>>),
    drop_index |->
      Sq(<<Tok("DROP"), Tok("INDEX"), Opt(Tok("CONCURRENTLY")), Opt(N("_if_exists")), Tok("id"),
           Opt(N("_drop_behavior")), Opt(Sq(<<Tok("ON"), N("object_reference")>>))>>) ]

\* INSERT, UPDATE and MERGE.
DmlRules ==
  [ insert_statement |->
      Sq(<<Tok("INSERT"), Tok("INTO"), N("object_reference"), N("insert_values")>>),
    insert_values |->
      Sq(<<Opt(N("column_list")), Tok("VALUES"), N("typed_row_value_expr_list")>>),
    typed_row_value_expr_list |-> CommaList(N("list"), TRUE),
    set_values |-> CommaList(N("assignment"), TRUE),
    column_list |-> ParenList(N("column"), TRUE),
    column |-> Tok("id"),
    update_statement |->
      Sq(<<Tok("UPDATE"), N("object_reference"), Tok("SET"), N("set_values"), Opt(N("where"))>>),
    _merge_statement |->
      Sq(<<Tok("MERGE"), Tok("INTO"), N("object_reference"), Opt(N("alias_name")), Tok("USING"),
           Alt(<<N("subquery"), N("object_reference")>>), Opt(N("alias_name")), Tok("ON"),
           OptionalParenthesis(N("expression")), Rep1(N("when_clause"))>>),
    when_clause |->
      Sq(<<Tok("WHEN"), Opt(Tok("NOT")), Tok("MATCHED"),
           Opt(Sq(<<Tok("AND"), OptionalParenthesis(N("expression"))>>)), Tok("THEN"),
           Alt(<<Tok("DELETE"), Sq(<<Tok("UPDATE"), N("set_values")>>),
                 Sq(<<Tok("INSERT"), N("insert_values")>>), Opt(N("where"))>>)>>) ]

\* The maintenance statements: ANALYZE/COMPUTE STATS, OPTIMIZE, VACUUM.
OptimizeRules ==
  [ _optimize_statement |-> Alt(<<N("_compute_stats"), N("_vacuum_table"), N("_optimize_table")>>),
    _compute_stats |->
      Alt(<<Sq(<<Tok("ANALYZE"), Tok("TABLE"), N("object_reference"), Opt(N("_partition_spec")),
                 Tok("COMPUTE"), Tok("STATISTICS"), Opt(Sq(<<Tok("FOR"), Tok("COLUMNS")>>)),
                 Opt(Sq(<<Tok("CACHE"), Tok("METADATA")>>)), Opt(Tok("NOSCAN"))>>),
            Sq(<<Tok("COMPUTE"), Opt(Tok("INCREMENTAL")), Tok("STATS"), N("object_reference"),
                 Opt(Alt(<<ParenList(Rep1(N("field")), FALSE), N("_partition_spec")>>))>>)>>),
    _optimize_table |->
      Alt(<<Sq(<<Tok("OPTIMIZE"), N("object_reference"), Tok("REWRITE"), Tok("DATA"), Tok("USING"),
                 Tok("BIN_PACK"), Opt(N("where"))>>),
            Sq(<<Tok("OPTIMIZE"), Opt(Tok("LOCAL")), Tok("TABLE"), N("object_reference"),
                 Rep(Sq(<<Tok(","), N("object_reference")>>))>>)>>),
    _vacuum_table |->
      Sq(<<Tok("VACUUM"), Opt(N("_vacuum_option")), N("object_reference"),
           Opt(ParenList(N("field"), FALSE))>>),
    _vacuum_option |->
      Alt(<<Sq(<<Tok("FULL"), Opt(Alt(<<Tok("TRUE"), Tok("FALSE")>>))>>),
            Sq(<<Tok("PARALLEL"), Opt(Alt(<<Tok("TRUE"), Tok("FALSE")>>))>>),
            Sq(<<Tok("ANALYZE"), Opt(Alt(<<Tok("TRUE"), Tok("FALSE")>>))>>)>>),
    _partition_spec |-> Sq(<<Tok("PARTITION"), ParenList(N("table_option"), TRUE)>>) ]

\* The rule table of every statement production a program can reach.
Rules ==
  SharedRules @@ TransactionRules @@ StatementKindRules @@ SelectRules @@ ReferenceRules
  @@ FieldRules @@ QualifiedFieldRules @@ FromRules @@ WhereRules @@ ExpressionRules
  @@ LiteralRules @@ DataTypeRules @@ CreateTableRules @@ AssignmentRules @@ ColumnRules
  @@ AlterTableRules @@ ColumnAlterRules @@ AlterObjectRules @@ RoleOptionRules
  @@ AlterSequenceTypeRules @@ DropRules @@ DmlRules @@ OptimizeRules @@ CreateViewRules
  @@ FunctionRules @@ CreateObjectRules @@ UnaryRules @@ ArrayRules
  @@ [case |-> Case] @@ CallRules @@ WindowRules @@ OrderLimitRules
=============================================================================
