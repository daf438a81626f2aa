------------------------- MODULE MCStatementGrammar -------------------------
(***************************************************************************)
(* Model-checking instance of StatementGrammar.  Each program is a token   *)
(* sequence; the statement shapes are those spec.md section 4.5 lists,     *)
(* written with the abstract tokens of StatementRules.                     *)
(***************************************************************************)
EXTENDS StatementGrammar

\* Shapes of every statement kind ddl_stmt, dml_write_stmt, dml_read_stmt,
\* copy_stmt and the transactions reach, with their optional parts.
SupportedShapes ==
  { <<>>,
    <<"BEGIN", "TRANSACTION", ";", "COMMIT", ";", "ROLLBACK", "TRANSACTION", ";">>,
    <<"SELECT", "*", "FROM", "id", ";">>,
    <<"SELECT", "DISTINCT", "id", ".", "id", "AS", "id", ",", "binary", "id", ",", "id", ".", "*",
      "FROM", "ONLY", "id", ".", "id", "WHERE", "binary", ";">>,
    <<"EXPLAIN", "ANALYZE", "VERBOSE", "SELECT", "?", "FROM", "id", ";">>,
    <<"SELECT", "id", ".", "id", ".", "id", ",", "id", ".", "id", ".", "*", ",", "(", "id", ".", "id",
      ")", ".", "id", "FROM", "id", ".", "id", ";">>,
    <<"INSERT", "INTO", "id", "(", "id", ",", "id", ")", "VALUES", "(", "num", ",", "str", ")",
      ",", "(", ")", ";">>,
    <<"UPDATE", "id", "SET", "id", "=", "num", ",", "id", "=", "binary", "WHERE", "binary", ";">>,
    <<"DELETE", "FROM", "id", ".", "id", "WHERE", "binary", ";">>,
    <<"TRUNCATE", "TABLE", "ONLY", "id", ",", "id", "CASCADE", ";">>,
    <<"MERGE", "INTO", "id", "USING", "id", "ON", "binary", "WHEN", "MATCHED", "THEN", "DELETE",
      "WHEN", "NOT", "MATCHED", "THEN", "INSERT", "VALUES", "(", "num", ")", ";">>,
    <<"MERGE", "INTO", "id", "AS", "id", "USING", "(", "SELECT", "*", "FROM", "id", ")", "id",
      "ON", "binary", "WHEN", "MATCHED", "AND", "binary", "THEN", "DELETE", ";">>,
    <<"COPY", "id", "FROM", "str", ";", "COPY", "id", ".", "id", "TO", "str", ";">>,
    <<"CREATE", "TEMP", "TABLE", "IF", "NOT", "EXISTS", "id", "(", "id", "INT", "NOT", "NULL",
      "PRIMARY", "KEY", ",", "id", "VARCHAR", "(", "num", ")", "DEFAULT", "str", ",",
      "PRIMARY", "KEY", "(", "id", ")", ")", ";">>,
    <<"CREATE", "TABLE", "id", "(", "id", "id", "[", "]", ",", "UNIQUE", "KEY", "(", "id",
      "DESC", ")", "REFERENCES", "id", "(", "id", ")", "ON", "DELETE", "CASCADE", ")", ";">>,
    <<"ALTER", "TABLE", "id", "ADD", "COLUMN", "id", "INT", "FIRST", ",", "DROP", "COLUMN",
      "IF", "EXISTS", "id", ",", "RENAME", "COLUMN", "id", "TO", "id", ";">>,
    <<"ALTER", "TABLE", "IF", "EXISTS", "id", "ALTER", "COLUMN", "id", "SET", "DATA", "TYPE",
      "BOOLEAN", ",", "CHANGE", "id", "id", "INT", "AFTER", "id", ";">>,
    <<"ALTER", "VIEW", "id", "RENAME", "TO", "id", ";", "ALTER", "SCHEMA", "id", "OWNER", "TO",
      "id", ";">>,
    <<"ALTER", "DATABASE", "id", "SET", "id", "TO", "DEFAULT", ";", "ALTER", "ROLE", "id",
      "WITH", "PASSWORD", "str", ";", "ALTER", "INDEX", "id", "SET", "TABLESPACE", "id", ";">>,
    <<"ALTER", "SEQUENCE", "id", "INCREMENT", "BY", "num", "NO", "CYCLE", ";", "ALTER", "TYPE",
      "id", "ADD", "VALUE", "str", "BEFORE", "str", ";">>,
    <<"DROP", "TABLE", "IF", "EXISTS", "id", ".", "id", "CASCADE", ";", "DROP", "INDEX",
      "CONCURRENTLY", "id", "ON", "id", ";", "DROP", "DATABASE", "id", "WITH", "FORCE", ";">>,
    <<"RENAME", "TABLES", "id", "TO", "id", ",", "id", "TO", "id", ";">>,
    <<"ANALYZE", "TABLE", "id", "COMPUTE", "STATISTICS", "NOSCAN", ";", "COMPUTE", "STATS", "id",
      "(", "id", "id", ")", ";">>,
    <<"VACUUM", "FULL", "id", "(", "id", ")", ";", "OPTIMIZE", "TABLE", "id", ",", "id", ";">>,
    <<"INSERT", "INTO", "id", "VALUES", "(", "num", ")", ";", "SELECT", "id", "FROM", "id",
      "WHERE", "(", "binary", ")", ";">>,
    <<"DROP", "VIEW", "id", ";", "DROP", "SCHEMA", "IF", "EXISTS", "id", "RESTRICT", ";", "DROP",
      "ROLE", "id", ";", "DROP", "TYPE", "id", ";", "DROP", "SEQUENCE", "id", ";">>,
    <<"ALTER", "TABLE", "id", "RENAME", "TO", "id", ",", "SET", "SCHEMA", "id", ",", "OWNER",
      "TO", "id", ";">>,
    <<"CREATE", "TABLE", "id", "(", "id", "INT", "DEFAULT", "num", ",", "CONSTRAINT", "id",
      "PRIMARY", "KEY", "(", "id", ")", ")", ";">>,
    <<"ALTER", "TABLE", "id", "ADD", "CONSTRAINT", "id", "PRIMARY", "KEY", "(", "id", ")", ",",
      "MODIFY", "COLUMN", "id", "INT", "COMMENT", "str", ";">>,
    <<"ANALYZE", "TABLE", "id", "PARTITION", "(", "id", "=", "str", ")", "COMPUTE", "STATISTICS",
      ";">> }

\* Inputs that are not SQL: spec.md section 8's SELECT FROM;, a missing
\* ';', a missing name, an empty unit, and a repeated keyword.
Malformed ==
  { <<"CREATE", "TABLE", "id", "(", "id", "DECIMAL", "(", "num", ",", "num", ",", "num", ")", ")", ";">>,
    <<"SELECT", "FROM", ";">>,
    <<"SELECT", "*", "FROM", "id">>,
    <<"DROP", "TABLE", ";">>,
    <<"INSERT", "INTO", "id", ";">>,
    <<";">>,
    <<"COMMIT", "COMMIT", ";">>,
    <<"UPDATE", "id", "SET", ";">> }

\* spec.md section 8: the Postgres and the MySQL UPDATE shapes.
UpdateShapes ==
  { <<"UPDATE", "id", "SET", "id", "=", "num", "FROM", "id", "WHERE", "binary", ";">>,
    <<"UPDATE", "id", ",", "id", "SET", "id", "=", "num", "WHERE", "binary", ";">> }

\* spec.md section 4.5: MERGE's WHEN [NOT] MATCHED THEN UPDATE SET ...
MergeUpdateShapes ==
  { <<"MERGE", "INTO", "id", "USING", "id", "ON", "binary", "WHEN", "MATCHED", "THEN", "UPDATE",
      "SET", "id", "=", "num", ";">> }

\* spec.md section 4.5: CREATE VIEW, INDEX and SCHEMA.
CreateShapes ==
  { <<"CREATE", "VIEW", "id", "AS", "SELECT", "*", "FROM", "id", ";">>,
    <<"CREATE", "INDEX", "id", "ON", "id", "(", "id", ")", ";">>,
    <<"CREATE", "SCHEMA", "id", ";">> }

\* spec.md section 4.5: SELECT with JOIN, GROUP BY, ORDER BY, LIMIT, a set
\* operation or a CTE, and INSERT of a sub-SELECT.
QueryShapes ==
  { <<"SELECT", "*", "FROM", "id", "JOIN", "id", "ON", "binary", ";">>,
    <<"SELECT", "id", "FROM", "id", "GROUP", "BY", "id", ";">>,
    <<"SELECT", "*", "FROM", "id", "ORDER", "BY", "id", ";">>,
    <<"SELECT", "*", "FROM", "id", "LIMIT", "num", ";">>,
    <<"SELECT", "*", "FROM", "id", "UNION", "SELECT", "*", "FROM", "id", ";">>,
    <<"WITH", "id", "AS", "(", "SELECT", "*", "FROM", "id", ")", "SELECT", "*", "FROM", "id", ";">>,
    <<"INSERT", "INTO", "id", "SELECT", "*", "FROM", "id", ";">> }

\* CREATE statements as the _create_statement rules read them (no ';'):
\* every CREATE form spec.md section 4.5 lists, with its options.
CreateRuleShapes ==
  { <<"CREATE", "TABLE", "id", "(", "id", "INT", ")">>,
    <<"CREATE", "OR", "REPLACE", "TEMP", "RECURSIVE", "VIEW", "IF", "NOT", "EXISTS", "id", ".",
      "id", "(", "id", ",", "id", ")", "AS", "SELECT", "id", "FROM", "id", "WITH", "CASCADED",
      "CHECK", "OPTION">>,
    <<"CREATE", "MATERIALIZED", "VIEW", "id", "AS", "SELECT", "*", "FROM", "id", "WITH", "NO",
      "DATA">>,
    <<"CREATE", "FUNCTION", "id", "(", "id", "INT", ")", "RETURNS", "INT", "LANGUAGE",
      "SQL_PARSER", "IMMUTABLE", "RETURN", "binary", ";">>,
    <<"CREATE", "OR", "REPLACE", "FUNCTION", "id", "(", ")", "RETURNS", "SETOF", "INT", "BEGIN",
      "ATOMIC", "SELECT", "*", "FROM", "id", ";", "RETURN", "num", ";", "END", "STRICT">>,
    <<"CREATE", "FUNCTION", "id", "(", ")", "RETURNS", "TRIGGER", "AS", "$$", "DECLARE", "id",
      "INT", ":=", "num", ";", "BEGIN", "DELETE", "FROM", "id", "WHERE", "binary", ";", "END",
      ";", "$$", "LANGUAGE", "PLPGSQL">>,
    <<"CREATE", "FUNCTION", "id", "(", ")", "RETURNS", "TABLE", "(", "id", "INT", ")", "AS",
      "str", "PARALLEL", "SAFE", "COST", "num">>,
    <<"CREATE", "FUNCTION", "id", "(", ")", "RETURNS", "INT", "AS", "$body$", "RETURN", "num",
      "$body$", "CALLED", "ON", "NULL", "INPUT">>,
    <<"CREATE", "UNIQUE", "INDEX", "CONCURRENTLY", "IF", "NOT", "EXISTS", "id", "ON", "ONLY",
      "id", "USING", "HASH", "(", "id", "DESC", ",", "id", ")", "WHERE", "binary">>,
    <<"CREATE", "SCHEMA", "IF", "NOT", "EXISTS", "id", "AUTHORIZATION", "id">>,
    <<"CREATE", "SCHEMA", "AUTHORIZATION", "id", "CREATE", "TABLE", "id", "(", "id", "INT", ")",
      "CREATE", "VIEW", "id", "AS", "SELECT", "*", "FROM", "id">>,
    <<"CREATE", "DATABASE", "id", "WITH", "id", "=", "str", "id", "id">>,
    <<"CREATE", "ROLE", "id", "WITH", "IN", "ROLE", "id", ",", "id", "ADMIN", "id", "id",
      "VALID", "UNTIL", "str">>,
    <<"CREATE", "USER", "id">>,
    <<"CREATE", "TEMP", "SEQUENCE", "IF", "NOT", "EXISTS", "id", "AS", "INT", "INCREMENT", "BY",
      "num", "MINVALUE", "num", "START", "WITH", "num", "CACHE", "num", "NO", "CYCLE", "OWNED",
      "BY", "id", ".", "id">>,
    <<"CREATE", "TYPE", "id", "AS", "ENUM", "(", "str", ",", "str", ")">>,
    <<"CREATE", "TYPE", "id", "AS", "(", "id", "INT", ")", "COLLATE", "id">>,
    <<"CREATE", "TYPE", "id", "AS", "RANGE", "(", "id", "=", "id", ")">>,
    <<"CREATE", "TYPE", "id">> }

\* spec.md section 4.5: a SCHEMA recursively containing further CREATE
\* statements, one schema inside another.
NestedSchemaShapes ==
  { <<"CREATE", "SCHEMA", "id", "CREATE", "SCHEMA", "id", "CREATE", "TABLE", "id", "(", "id",
      "INT", ")">> }

\* CREATE INDEX ... USING btree, the method keyword_btree is named for.
IndexMethodShapes ==
  { <<"CREATE", "INDEX", "id", "ON", "id", "USING", "BTREE", "(", "id", ")">> }

\* A parenthesised predicate after MERGE's ON and WHEN ... AND, and a
\* parenthesised literal after DEFAULT.
ParenthesisedShapes ==
  { <<"MERGE", "INTO", "id", "USING", "id", "ON", "(", "binary", ")", "WHEN", "MATCHED", "THEN",
      "DELETE", ";">>,
    <<"MERGE", "INTO", "id", "USING", "id", "ON", "binary", "WHEN", "MATCHED", "AND", "(", "id",
      ")", "THEN", "DELETE", ";">>,
    <<"CREATE", "TABLE", "id", "(", "id", "INT", "DEFAULT", "(", "num", ")", ")", ";">> }

\* The shapes section 4.5 promises; a run's Programs are drawn from them
\* and from Malformed.
\* The CREATE forms that fail CreateRulesDerive.
CreateFindingShapes == NestedSchemaShapes \cup IndexMethodShapes

\* Every kind of data_type_kind in a column of CREATE TABLE, each of the
\* overlapping numeric alternatives in each of its forms.
TypeShapes ==
  { <<"CREATE", "TABLE", "id", "(", "id", "BIT", ",", "id", "BIT", "VARYING", "(", "num", ")", ",",
      "id", "BIT", "(", "num", ")", ",", "id", "BINARY", "(", "num", ")", ",", "id", "FLOAT", ",",
      "id", "FLOAT", "(", "num", ",", "num", ")", "UNSIGNED", "ZEROFILL", ",",
      "id", "UNSIGNED", "FLOAT", ",", "id", "DOUBLE", "PRECISION", "(", "num", ",", "num", ")", ",",
      "id", "FLOAT8", ",", "id", "REAL", "UNSIGNED", ")", ";">>,
    <<"CREATE", "TABLE", "id", "(", "id", "DECIMAL", ",", "id", "DECIMAL", "(", "num", ")", ",",
      "id", "NUMERIC", "(", "num", ",", "num", ")", ",", "id", "NUMERIC", ",",
      "id", "CHARACTER", "VARYING", "(", "num", ")", ",", "id", "CHAR", "(", "num", ")", ",",
      "id", "NCHAR", ",", "id", "TIME", "(", "num", ")", ",", "id", "ENUM", "(", "str", ",", "str", ")",
      ")", ";">>,
    <<"CREATE", "TABLE", "id", "(", "id", "TIMESTAMP", "WITHOUT", "TIME", "ZONE", ",",
      "id", "TIMESTAMP", "WITH", "TIME", "ZONE", ",", "id", "TIMESTAMP", ",", "id", "SMALLSERIAL", ",",
      "id", "INT", "[", "]", "[", "num", "]", ",", "id", "TEXT", "ARRAY", ",", "id", "id", ",",
      "id", "VARBINARY", ",", "id", "DATETIMEOFFSET", "(", "num", ")", ")", ";">> }

\* Column defaults that reach cast, unary_expression, array, invocation
\* (both of its argument forms, FILTER, ORDER BY and LIMIT) and implicit_cast.
DefaultShapes ==
  { <<"CREATE", "TABLE", "id", "(", "id", "INT", "DEFAULT", "CAST", "(", "num", "AS", "INT", ")", ",",
      "id", "BOOLEAN", "DEFAULT", "NOT", "binary", ",", "id", "INT", "[", "]", "DEFAULT", "ARRAY", "[",
      "num", ",", "num", "]", ",", "id", "INT", "DEFAULT", "id", "::", "INT", "NOT", "NULL", ")", ";">>,
    <<"CREATE", "TABLE", "id", "(", "id", "TEXT", "DEFAULT", "id", ".", "id", "(", "DISTINCT", "id",
      "ORDER", "BY", "id", "DESC", "NULLS", "LAST", "SEPARATOR", "str", "LIMIT", "num", "OFFSET", "num",
      ")", "FILTER", "(", "WHERE", "binary", ")", ",", "id", "INT", "DEFAULT", "id", "(", ")", ",",
      "id", "INT", "DEFAULT", "id", "(", "id", ",", "num", ")", ",", "id", "INT", "DEFAULT", "ARRAY",
      "(", "SELECT", "*", "FROM", "id", ")", ")", ";">> }

\* spec.md section 4.4: CASE, unary NOT, CAST, a call, x::type and EXISTS
\* inside a query.
ExpressionShapes ==
  { <<"SELECT", "CASE", "WHEN", "binary", "THEN", "num", "ELSE", "num", "END", "FROM", "id", ";">>,
    <<"SELECT", "NOT", "id", "FROM", "id", ";">>,
    <<"SELECT", "CAST", "(", "id", "AS", "INT", ")", "FROM", "id", ";">>,
    <<"SELECT", "id", "(", "id", ")", "FROM", "id", ";">>,
    <<"SELECT", "id", "::", "INT", "FROM", "id", ";">>,
    <<"SELECT", "*", "FROM", "id", "WHERE", "EXISTS", "(", "SELECT", "*", "FROM", "id", ")", ";">> }

\* The rules no rule references, each with forms spec.md section 4.4 lists,
\* as the rule reads them: simple and searched CASE, EXISTS, an interval of
\* two units, window functions over a named and an inline window with every
\* part, and a WINDOW clause.
OrphanForms ==
  { <<"case", <<"CASE", "id", "WHEN", "num", "THEN", "str", "WHEN", "num", "THEN", "str", "ELSE",
                "NULL", "END">>>>,
    <<"case", <<"CASE", "WHEN", "binary", "THEN", "num", "END">>>>,
    <<"exists", <<"EXISTS", "(", "SELECT", "*", "FROM", "id", ")">>>>,
    <<"interval", <<"INTERVAL", "'", "num", "unit", "num", "unit", "ago", "'">>>>,
    <<"window_function", <<"id", "(", "id", ")", "OVER", "(", "PARTITION", "BY", "id", ",", "binary",
                           "ORDER", "BY", "id", "ASC", "ROWS", "BETWEEN", "UNBOUNDED", "PRECEDING",
                           "AND", "CURRENT", "ROW", "EXCLUDE", "TIES", ")">>>>,
    <<"window_function", <<"id", "(", ")", "OVER", "id">>>>,
    <<"window_clause", <<"WINDOW", "id", "AS", "(", "RANGE", "BETWEEN", "binary", "PRECEDING", "AND",
                         "str", "FOLLOWING", ")">>>> }

OrphanFormShapes == { f[2] : f \in OrphanForms }

\* The shapes spec.md promises that the rules reachable from program miss:
\* UPDATE forms, plain and inside MERGE, CREATE forms, query clauses and the
\* expression forms beside the operators.
UnreachedShapes ==
  UpdateShapes \cup MergeUpdateShapes \cup CreateShapes \cup QueryShapes \cup ExpressionShapes

Promised == SupportedShapes \cup TypeShapes \cup DefaultShapes \cup ExpressionShapes \cup UpdateShapes \cup MergeUpdateShapes \cup CreateShapes \cup QueryShapes
              \cup ParenthesisedShapes

PassPrograms ==
  SupportedShapes \cup Malformed \cup CreateRuleShapes \cup TypeShapes \cup DefaultShapes
  \cup OrphanFormShapes

(***************************************************************************)
(* Section 4.5: every statement shape it lists is accepted: no unit of    *)
(* the program leaves the parser without a stack that can go on.           *)
(***************************************************************************)
PromisedAccepted == status = "error" => input \notin Promised

(***************************************************************************)
(* Sections 7 and 8: input that is not SQL (SELECT FROM;, a statement      *)
(* without its ';', a missing name) is a syntax error, never accepted.    *)
(***************************************************************************)
MalformedRejected == status = "accepted" => input \notin Malformed

(***************************************************************************)
(* Section 4.5 and 4.6 for the CREATE rules that ddl_stmt does not reach: *)
(* each CREATE form the section lists is read by _create_statement in      *)
(* exactly one way, nested schemas included.                               *)
(***************************************************************************)
CreateRulesDerive ==
  input \in CreateRuleShapes \cup NestedSchemaShapes \cup IndexMethodShapes =>
    Count("_create_statement", 1, Len(input) + 1) = 1

(***************************************************************************)
(* Section 4.4 for the expression forms no rule references (case, exists, *)
(* interval, window_function, window_clause): each form the section lists *)
(* is read by its rule in exactly one way, so the rule is ready to be     *)
(* listed in expression.                                                   *)
(***************************************************************************)
ExpressionFormsDerive ==
  \A f \in OrphanForms : input = f[2] => Count(f[1], 1, Len(input) + 1) = 1
=============================================================================
