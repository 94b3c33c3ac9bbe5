------------------------------- MODULE Query -------------------------------
(***************************************************************************)
(* The savanna query core: the expression tree a caller builds with the    *)
(* fluent operations, the visitor that walks it and the generator that     *)
(* writes SQL in one of the three parameter modes.                         *)
(*                                                                         *)
(* A node is a tuple whose first element names its class.  A statement is  *)
(* a sequence of tokens: <<"kw", w>>, <<"id", name>>, <<"num", n>>,        *)
(* <<"val", v>> for a literal written inline and <<"$", i>> for a          *)
(* placeholder.  Literals are numbered in the order they are written, so   *)
(* two of them are never confused.                                         *)
(***************************************************************************)
EXTENDS Integers, Sequences, FiniteSets, SequencesExt

CONSTANT
    MaxCalls        \* bound on the clauses and operators of one statement

VARIABLES
    query,          \* the expression under construction
    saved,          \* an expression kept in a variable of the caller
    cond,           \* the condition under construction
    literals,       \* literals written so far
    calls,          \* clauses and operators written so far
    threw           \* an INSERT row named a column its record lacks

queryVars == <<query, saved, cond, literals, calls, threw>>

None == <<"none">>

(* ------------------------------- the nodes ------------------------------ *)

Column(name, table, alias) == <<"column", name, table, alias>>
AllColumns(table) == <<"all", table>>
Literal(v, alias) == <<"literal", v, alias>>
ParamPlaceholder == <<"placeholder">>
BinaryExpr(left, right, op) == <<"binary", left, right, op>>
UnaryExpr(operand, op) == <<"unary", operand, op>>
BetweenExpr(operand, lower, upper) == <<"between", operand, lower, upper>>
InListExpr(operand, values) == <<"inList", operand, values>>
Subquery(q) == <<"subquery", q>>
ExistsExpr(q) == <<"exists", q>>
Aggregate(f, distinct, col, alias) == <<"aggregate", f, distinct, col, alias>>
CaseExpr(whens, otherwise, alias) == <<"case", whens, otherwise, alias>>
OrderBy(col, direction) == <<"order", col, direction>>
SelectExpr(distinct, cols) == <<"select", distinct, cols>>
FromTableExpr(q, table, alias) == <<"fromTable", q, table, alias>>
CteExpr(name, q, recursive) == <<"cte", name, q, recursive>>
FromCteExpr(q, cte) == <<"fromCte", q, cte>>
JoinExpr(q, type, table, alias, on) == <<"join", q, type, table, alias, on>>
WhereExpr(q, c) == <<"where", q, c>>
GroupByColumnExpr(q, cols) == <<"groupBy", q, cols>>
GroupByQueryExpr(q, criteria) == <<"groupByQuery", q, criteria>>
HavingExpr(q, c) == <<"having", q, c>>
OrderByExpr(q, orders) == <<"orderBy", q, orders>>
LimitExpr(q, count, offset) == <<"limit", q, count, offset>>
SetOpExpr(left, right, op) == <<"setOp", left, right, op>>
InsertExpr(table, cols, rows) == <<"insert", table, cols, rows>>
UpdateExpr(table, assignments) == <<"update", table, assignments>>
UpdateWhereExpr(u, c) == <<"updateWhere", u, c>>
DeleteExpr(table) == <<"delete", table>>
DeleteWhereExpr(d, c) == <<"deleteWhere", d, c>>
CreateTableExpr(table, ifNotExists) == <<"create", table, ifNotExists>>
DropTableExpr(table, ifExists, cascade) == <<"drop", table, ifExists, cascade>>

(* The classes a WHERE, HAVING or ON clause accepts. *)
IsCondition(e) == e[1] \in {"binary", "unary", "exists", "inList", "between"}

(* The AllowedFeatures pack of each query class: which clauses may follow. *)
FromFeatures == {"groupBy", "orderBy", "limit", "join", "where"}
Features ==
    [fromTable |-> FromFeatures, fromCte |-> FromFeatures, join |-> FromFeatures,
     where |-> {"groupBy", "orderBy", "limit"},
     groupBy |-> {"having", "orderBy", "limit"},
     groupByQuery |-> {"having", "orderBy", "limit"},
     having |-> {"orderBy", "limit"}, orderBy |-> {"limit"}, limit |-> {},
     setOp |-> {"orderBy", "limit"}]

Selects == DOMAIN Features
Statements ==
    Selects \cup {"insert", "update", "updateWhere", "delete", "deleteWhere", "create", "drop"}

HasFeature(e, feature) == e[1] \in Selects /\ feature \in Features[e[1]]

(* ------------------- what the generator writes for each ----------------- *)

Kw(w) == <<"kw", w>>
Id(name) == <<"id", name>>
Num(n) == <<"num", n>>

(* Parts of a visit that are not plain tokens. *)
Accept(e) == <<"accept", e>>
Value(v) == <<"value", v>>
Hole == <<"hole">>
Capture(v) == <<"capture", v>>
NoParams == <<"noParams">>

VisitTable(table) == IF table = "" THEN <<>> ELSE <<Id(table)>>
VisitAlias(alias) == IF alias = "" THEN <<>> ELSE <<Kw("AS"), Id(alias)>>
Qualifier(table) == IF table = "" THEN <<>> ELSE VisitTable(table) \o <<Kw(".")>>

(* Elements separated by commas (visit_tuple_elements). *)
RECURSIVE Separated(_)
Separated(parts) ==
    IF Len(parts) < 2 THEN FlattenSeq(parts)
    ELSE Head(parts) \o <<Kw(",")>> \o Separated(Tail(parts))

Elements(es) == Separated([i \in DOMAIN es |-> <<Accept(es[i])>>])
Names(ns) == Separated([i \in DOMAIN ns |-> <<Id(ns[i])>>])

VisitColumn(e) == Qualifier(e[3]) \o <<Id(e[2])>> \o VisitAlias(e[4])
VisitAllColumns(e) == Qualifier(e[2]) \o <<Kw("*")>>
VisitLiteral(e) == <<Value(e[2])>> \o VisitAlias(e[3]) \o <<Capture(e[2])>>
VisitParamPlaceholder == <<Hole>>

VisitBinaryOp(op) == <<Kw(op)>>
VisitBinaryUngrouped(e) == <<Accept(e[2])>> \o VisitBinaryOp(e[4]) \o <<Accept(e[3])>>
VisitBinary(e) ==
    <<Kw("("), Accept(e[2])>> \o VisitBinaryOp(e[4]) \o <<Accept(e[3]), Kw(")")>>

Postfix(op) == op \in {"IS NULL", "IS NOT NULL"}
VisitUnaryOp(op) == <<Kw(op)>>
VisitUnary(e) ==
    IF Postfix(e[3]) THEN <<Accept(e[2])>> \o VisitUnaryOp(e[3])
                     ELSE VisitUnaryOp(e[3]) \o <<Accept(e[2])>>

VisitBetween(e) ==
    <<Accept(e[2]), Kw("BETWEEN"), Accept(e[3]), Kw("AND"), Accept(e[4])>>
VisitInList(e) == <<Accept(e[2]), Kw("IN"), Kw("(")>> \o Elements(e[3]) \o <<Kw(")")>>
VisitSubquery(e) == <<Kw("("), Accept(e[2]), Kw(")")>>
VisitExists(e) == <<Kw("EXISTS"), Kw("("), Accept(e[2]), Kw(")")>>

VisitAggregateStart(f, distinct) ==
    <<Kw(f), Kw("(")>> \o (IF distinct THEN <<Kw("DISTINCT")>> ELSE <<>>)
VisitAggregateEnd(alias) == <<Kw(")")>> \o VisitAlias(alias)
VisitAggregate(e) ==
    VisitAggregateStart(e[2], e[3])
    \o (IF e[4][1] = "all" THEN VisitAllColumns(AllColumns("")) ELSE <<Accept(e[4])>>)
    \o VisitAggregateEnd(e[5]) \o <<NoParams>>

VisitWhen(w) == <<Kw("WHEN"), Accept(w[1]), Kw("THEN"), Accept(w[2])>>
VisitCase(e) ==
    <<Kw("CASE")>> \o FlattenSeq([i \in DOMAIN e[2] |-> VisitWhen(e[2][i])])
    \o (IF e[3] = <<>> THEN <<>> ELSE <<Kw("ELSE"), Accept(e[3][1])>>)
    \o <<Kw("END")>> \o VisitAlias(e[4])

VisitOrder(e) == <<Accept(e[2]), Kw(e[3])>>
VisitSelect(e) ==
    <<Kw("SELECT")>> \o (IF e[2] THEN <<Kw("DISTINCT")>> ELSE <<>>) \o Elements(e[3])
VisitFromTable(e) ==
    <<Accept(e[2]), Kw("FROM")>> \o VisitTable(e[3]) \o VisitAlias(e[4])
VisitCte(e) ==
    <<Kw("WITH")>> \o (IF e[4] THEN <<Kw("RECURSIVE")>> ELSE <<>>)
    \o <<Id(e[2]), Kw("AS"), Kw("("), Accept(e[3]), Kw(")")>>
VisitFromCte(e) == <<Accept(e[3]), Accept(e[2]), Kw("FROM"), Id(e[3][2])>>
VisitJoin(e) ==
    <<Accept(e[2]), Kw(e[3]), Kw("JOIN")>> \o VisitTable(e[4]) \o VisitAlias(e[5])
    \o <<Kw("ON"), Accept(e[6])>>
VisitWhere(e) == <<Accept(e[2]), Kw("WHERE"), Accept(e[3])>>
VisitGroupBy(e) == <<Accept(e[2]), Kw("GROUP BY")>> \o Elements(e[3])
VisitGroupByQuery(e) == <<Accept(e[2]), Kw("GROUP BY"), Accept(e[3])>>
VisitHaving(e) == <<Accept(e[2]), Kw("HAVING"), Accept(e[3])>>
VisitOrderBy(e) == <<Accept(e[2]), Kw("ORDER BY")>> \o Elements(e[3])

LimitClause(count, offset) ==
    <<Kw("LIMIT"), Num(count)>> \o (IF offset > 0 THEN <<Kw("OFFSET"), Num(offset)>> ELSE <<>>)
VisitLimit(e) == <<Accept(e[2])>> \o LimitClause(e[3], e[4])
VisitSetOp(e) == <<Accept(e[2]), Kw(e[4]), Accept(e[3])>>

VisitInsertColumns(cols) == <<Kw("(")>> \o Names(cols) \o <<Kw(")"), Kw("VALUES")>>
VisitInsertRow(row) ==
    <<Kw("(")>> \o Separated([i \in DOMAIN row |-> <<Value(row[i])>>]) \o <<Kw(")")>>
VisitInsertValues(rows) == Separated([i \in DOMAIN rows |-> VisitInsertRow(rows[i])])
VisitInsert(e) ==
    <<Kw("INSERT INTO")>> \o VisitTable(e[2]) \o VisitInsertColumns(e[3])
    \o VisitInsertValues(e[4]) \o <<NoParams>>

VisitUpdateSet(assignments) ==
    <<Kw("SET")>> \o Separated([i \in DOMAIN assignments |->
        <<Id(assignments[i][1]), Kw("="), Value(assignments[i][2])>>])
VisitUpdate(e) ==
    <<Kw("UPDATE")>> \o VisitTable(e[2]) \o VisitUpdateSet(e[3]) \o <<NoParams>>
VisitUpdateWhere(e) == <<Accept(e[2]), Kw("WHERE"), Accept(e[3])>>
VisitDelete(e) == <<Kw("DELETE FROM")>> \o VisitTable(e[2]) \o <<NoParams>>
VisitDeleteWhere(e) == <<Accept(e[2]), Kw("WHERE"), Accept(e[3])>>

(* A field of a schema with its constraints; a primary key writes neither  *)
(* NOT NULL nor UNIQUE.  Only a runtime schema has defaults and references. *)
VisitField(f) ==
    <<Id(f.name), Kw(f.type)>>
    \o (IF f.primary THEN <<Kw("PRIMARY KEY")>> ELSE <<>>)
    \o (IF ~f.nullable /\ ~f.primary THEN <<Kw("NOT NULL")>> ELSE <<>>)
    \o (IF f.unique /\ ~f.primary THEN <<Kw("UNIQUE")>> ELSE <<>>)
    \o (IF f.default = "" THEN <<>> ELSE <<Kw("DEFAULT"), Kw(f.default)>>)
    \o (IF f.foreign = "" THEN <<>>
        ELSE <<Kw("REFERENCES"), Id(f.foreign), Kw("("), Id(f.foreignColumn), Kw(")")>>)
VisitCreateColumns(fields) ==
    <<Kw("(")>> \o Separated([i \in DOMAIN fields |-> VisitField(fields[i])]) \o <<Kw(")")>>
VisitCreate(e) ==
    <<Kw("CREATE TABLE")>> \o (IF e[3] THEN <<Kw("IF NOT EXISTS")>> ELSE <<>>)
    \o VisitTable(e[2].name) \o VisitCreateColumns(e[2].fields) \o <<NoParams>>
VisitDrop(e) ==
    <<Kw("DROP TABLE")>> \o (IF e[3] THEN <<Kw("IF EXISTS")>> ELSE <<>>)
    \o VisitTable(e[2]) \o (IF e[4] THEN <<Kw("CASCADE")>> ELSE <<>>) \o <<NoParams>>

(* Double dispatch: accept() of a node calls its visit(). *)
Visit(e) ==
    CASE e[1] = "column" -> VisitColumn(e)
      [] e[1] = "all" -> VisitAllColumns(e)
      [] e[1] = "literal" -> VisitLiteral(e)
      [] e[1] = "placeholder" -> VisitParamPlaceholder
      [] e[1] = "binary" -> VisitBinary(e)
      [] e[1] = "unary" -> VisitUnary(e)
      [] e[1] = "between" -> VisitBetween(e)
      [] e[1] = "inList" -> VisitInList(e)
      [] e[1] = "subquery" -> VisitSubquery(e)
      [] e[1] = "exists" -> VisitExists(e)
      [] e[1] = "aggregate" -> VisitAggregate(e)
      [] e[1] = "case" -> VisitCase(e)
      [] e[1] = "order" -> VisitOrder(e)
      [] e[1] = "select" -> VisitSelect(e)
      [] e[1] = "fromTable" -> VisitFromTable(e)
      [] e[1] = "cte" -> VisitCte(e)
      [] e[1] = "fromCte" -> VisitFromCte(e)
      [] e[1] = "join" -> VisitJoin(e)
      [] e[1] = "where" -> VisitWhere(e)
      [] e[1] = "groupBy" -> VisitGroupBy(e)
      [] e[1] = "groupByQuery" -> VisitGroupByQuery(e)
      [] e[1] = "having" -> VisitHaving(e)
      [] e[1] = "orderBy" -> VisitOrderBy(e)
      [] e[1] = "limit" -> VisitLimit(e)
      [] e[1] = "setOp" -> VisitSetOp(e)
      [] e[1] = "insert" -> VisitInsert(e)
      [] e[1] = "update" -> VisitUpdate(e)
      [] e[1] = "updateWhere" -> VisitUpdateWhere(e)
      [] e[1] = "delete" -> VisitDelete(e)
      [] e[1] = "deleteWhere" -> VisitDeleteWhere(e)
      [] e[1] = "create" -> VisitCreate(e)
      [] e[1] = "drop" -> VisitDrop(e)

(* --------------------------- the three modes ---------------------------- *)

(* The parts of a whole expression in the order the walk writes them. *)
RECURSIVE Walk(_)
Walk(ps) ==
    IF ps = <<>> THEN <<>>
    ELSE LET p == Head(ps) IN
         (IF p[1] = "accept" THEN Walk(Visit(p[2])) ELSE <<p>>) \o Walk(Tail(ps))

(* capture_param keeps a literal, cat_params joins what the operands       *)
(* return, no_params returns nothing whatever was written.                 *)
RECURSIVE Captured(_)
Captured(ps) ==
    IF ps = <<>> \/ NoParams \in Range(ps) THEN <<>>
    ELSE LET p == Head(ps) IN
         (CASE p[1] = "accept" -> Captured(Visit(p[2]))
            [] p[1] = "capture" -> <<p[2]>>
            [] OTHER -> <<>>) \o Captured(Tail(ps))

Writes(p) == p[1] \notin {"capture", "noParams"}
Among(ps, i, kinds) == Cardinality({j \in 1 .. i : ps[j][1] \in kinds})

(* The placeholder an explicit param<T>() takes: ++param_count_, which     *)
(* values advance in Tuple mode only.                                      *)
VisitParamPlaceholderImpl(mode, ps, i) ==
    <<"$", Among(ps, i, IF mode = "Tuple" THEN {"value", "hole"} ELSE {"hole"})>>

(* A value: its text, the next placeholder, or the index push() returns.   *)
VisitValueOwnCount(mode, ps, i) ==
    CASE mode = "Inline" -> <<"val", ps[i][2]>>
      [] mode = "Tuple" -> <<"$", Among(ps, i, {"value"})>>
      [] mode = "Sink" -> <<"$", Among(ps, i, {"value"})>>
VisitValueImpl(mode, ps, i) ==
    CASE mode = "Inline" -> <<"val", ps[i][2]>>
      [] mode = "Tuple" -> VisitParamPlaceholderImpl(mode, ps, i)
      [] mode = "Sink" -> <<"$", Among(ps, i, {"value"})>>

Sql(mode, e) ==
    LET ps == SelectSeq(Walk(Visit(e)), Writes) IN
    [i \in DOMAIN ps |->
        CASE ps[i][1] = "value" -> VisitValueImpl(mode, ps, i)
          [] ps[i][1] = "hole" -> VisitParamPlaceholderImpl(mode, ps, i)
          [] OTHER -> ps[i]]

CompileStatic(mode, e) ==
    [sql |-> Sql(mode, e), params |-> IF mode = "Tuple" THEN Captured(Visit(e)) ELSE <<>>]
CompileDynamic(mode, e) ==
    LET values == SelectSeq(Walk(Visit(e)), LAMBDA p : p[1] = "value") IN
    [sql |-> Sql(mode, e),
     params |-> IF mode = "Sink" THEN [i \in DOMAIN values |-> values[i][2]] ELSE <<>>]

(* ------------------------- building an expression ----------------------- *)

QueryInit ==
    /\ query = None /\ saved = None /\ cond = None
    /\ literals = 0 /\ calls = 0
    /\ threw = FALSE

Lit(k) == Literal(literals + k, "")
Operand == Column("c", "t", "")

(* A fluent call that adds a clause holding k new literals.                *)
Clause(q, k) ==
    /\ calls < MaxCalls
    /\ calls' = calls + 1
    /\ query' = q
    /\ literals' = literals + k

Plain(q, k) == cond = None /\ Clause(q, k) /\ UNCHANGED <<saved, cond, threw>>
Conditioned(q) ==
    IsCondition(cond) /\ Clause(q, 0) /\ cond' = None /\ UNCHANGED <<saved, threw>>

(* Conditions are written where the query under construction takes one. *)
TakesCondition ==
    \/ \E f \in {"join", "where", "having"} : HasFeature(query, f)
    \/ query[1] \in {"update", "delete"}
Term(c, k) ==
    /\ calls < MaxCalls /\ TakesCondition
    /\ calls' = calls + 1
    /\ cond' = c
    /\ literals' = literals + k
    /\ UNCHANGED <<query, saved, threw>>

(* Comparison, logical and pattern operators wrap a raw value in a Literal *)
(* and accept a condition as either operand.                               *)
Compare ==
    \/ cond = None /\ Term(BinaryExpr(Operand, Lit(1), "="), 1)
    \/ cond = None /\ Term(BinaryExpr(Operand, ParamPlaceholder, "="), 0)
    \/ cond = None /\ Term(BinaryExpr(Lit(1), Operand, "LIKE"), 1)
Combine ==
    /\ cond # None
    /\ \E op \in {"AND", "OR", "="} :
           \/ Term(BinaryExpr(cond, BinaryExpr(Operand, Lit(1), "="), op), 1)
           \/ Term(BinaryExpr(Lit(1), cond, op), 1)
Negate == cond # None /\ Term(UnaryExpr(cond, "NOT"), 0)
TestNull == Term(UnaryExpr(IF cond = None THEN Operand ELSE cond, "IS NULL"), 0)
Between == Term(BetweenExpr(IF cond = None THEN Operand ELSE cond, Lit(1), Lit(2)), 2)
InList == cond = None /\ Term(InListExpr(Operand, <<Lit(1), Lit(2)>>), 2)
InSubquery ==
    /\ cond = None /\ saved[1] \in Selects /\ calls < MaxCalls /\ TakesCondition
    /\ \E c \in {BinaryExpr(Operand, Subquery(saved), "IN"), ExistsExpr(saved)} : cond' = c
    /\ calls' = calls + 1 /\ saved' = None
    /\ UNCHANGED <<query, literals, threw>>

Select ==
    /\ query = None
    /\ \/ Plain(SelectExpr(TRUE, <<Column("c", "t", "x"), Aggregate("COUNT", FALSE, AllColumns(""), "n")>>), 0)
       \/ Plain(SelectExpr(FALSE, <<Literal(literals + 1, "l"), AllColumns("t")>>), 1)
       \/ Plain(SelectExpr(FALSE, <<CaseExpr(<<<<BinaryExpr(Operand, Lit(1), "<"), Lit(2)>>>>,
                                             <<Lit(3)>>, "k")>>), 3)
From ==
    /\ query[1] = "select"
    /\ \/ /\ query' = FromTableExpr(query, "t", IF query[2] THEN "a" ELSE "")
          /\ UNCHANGED saved
       \/ /\ saved[1] \in Selects
          /\ query' = FromCteExpr(query, CteExpr("w", saved, FALSE))
          /\ saved' = None
    /\ UNCHANGED <<cond, literals, calls, threw>>
Join ==
    /\ HasFeature(query, "join")
    /\ Conditioned(JoinExpr(query, "LEFT", "u", "b", cond))
Where == HasFeature(query, "where") /\ Conditioned(WhereExpr(query, cond))
GroupBy ==
    /\ HasFeature(query, "groupBy")
    /\ \/ Plain(GroupByColumnExpr(query, <<Column("c", "t", ""), Column("d", "", "")>>), 0)
       \/ Plain(GroupByQueryExpr(query, Aggregate("MAX", FALSE, Column("c", "t", ""), "")), 0)
Having == HasFeature(query, "having") /\ Conditioned(HavingExpr(query, cond))
OrderedBy ==
    HasFeature(query, "orderBy") /\ Plain(OrderByExpr(query, <<OrderBy(Column("c", "t", ""), "DESC")>>), 0)
Limit ==
    /\ HasFeature(query, "limit")
    /\ \E offset \in {0, 1} : Plain(LimitExpr(query, 2, offset), 0)
Keep ==
    /\ query[1] \in Selects /\ saved = None /\ cond = None
    /\ saved' = query /\ query' = None
    /\ UNCHANGED <<cond, literals, calls, threw>>
SetOperation ==
    /\ query[1] \in Selects /\ saved[1] \in Selects /\ cond = None
    /\ \E op \in {"UNION", "INTERSECT", "EXCEPT"}, swap \in BOOLEAN :
           Clause(IF swap THEN SetOpExpr(saved, query, op) ELSE SetOpExpr(query, saved, op), 0)
    /\ saved' = None
    /\ UNCHANGED <<cond, threw>>

Insert == query = None /\ Plain(InsertExpr("t", <<"c", "d">>, <<>>), 0)

(* values({...}) appends a row; values(record) reads each column of into() *)
(* and throws on the first the record lacks, keeping the rows before it.   *)
Values ==
    /\ query[1] = "insert"
    /\ \E has \in {{"c", "d"}, {"c"}} :
           IF Range(query[3]) \subseteq has
           THEN Plain(InsertExpr(query[2], query[3],
                                 Append(query[4], [i \in DOMAIN query[3] |-> literals + i])),
                      Len(query[3]))
           ELSE threw' = TRUE /\ UNCHANGED <<query, saved, cond, literals, calls>>
Update ==
    \/ query = None /\ Plain(UpdateExpr("t", <<<<"c", literals + 1>>>>), 1)
    \/ query[1] = "update" /\ Plain(UpdateExpr(query[2], Append(query[3], <<"d", literals + 1>>)), 1)
    \/ query[1] = "update" /\ Conditioned(UpdateWhereExpr(query, cond))
Delete ==
    \/ query = None /\ Plain(DeleteExpr("t"), 0)
    \/ query[1] = "delete" /\ Conditioned(DeleteWhereExpr(query, cond))

FieldSchema(name, primary, unique, foreign) ==
    [name |-> name, type |-> "INTEGER", primary |-> primary, nullable |-> ~primary,
     unique |-> unique, default |-> IF primary THEN "" ELSE "0", foreign |-> foreign, foreignColumn |-> "id"]
Define ==
    /\ query = None
    /\ \/ \E flag, unique \in BOOLEAN :
              Plain(CreateTableExpr([name |-> "t",
                                     fields |-> <<FieldSchema("c", TRUE, unique, ""),
                                                  FieldSchema("d", FALSE, unique, "u")>>], flag), 0)
       \/ \E ifExists, cascade \in BOOLEAN : Plain(DropTableExpr("t", ifExists, cascade), 0)

QueryNext ==
    \/ Compare \/ Combine \/ Negate \/ TestNull \/ Between \/ InList \/ InSubquery
    \/ Select \/ From \/ Join \/ Where \/ GroupBy \/ Having \/ OrderedBy \/ Limit
    \/ Keep \/ SetOperation \/ Insert \/ Values \/ Update \/ Delete \/ Define

QuerySpec == QueryInit /\ [][QueryNext]_queryVars
=============================================================================
