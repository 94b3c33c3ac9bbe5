---------------------------- MODULE QueryMeaning ----------------------------
(***************************************************************************)
(* What the server makes of the text Query writes: the part of the         *)
(* PostgreSQL grammar the generator uses, with its precedences, as a       *)
(* recursive-descent parser that returns the nodes of Query, and the       *)
(* properties that relate the text and the parameters to the expression.   *)
(***************************************************************************)
EXTENDS Query

(* A parse result is <<tree, rest>>. *)
Error == <<<<"error">>, <<>>>>

IsKw(ts, w) == ts # <<>> /\ Head(ts) = Kw(w)
Opens(ts) == IsKw(ts, "SELECT") \/ IsKw(ts, "WITH")
Expect(r, w) == IF IsKw(r[2], w) THEN <<r[1], Tail(r[2])>> ELSE Error
Map(r, Op(_)) == <<Op(r[1]), r[2]>>
From3(ts) == SubSeq(ts, 3, Len(ts))

Prec(ts) ==
    IF ts = <<>> \/ Head(ts)[1] # "kw" THEN 0
    ELSE CASE Head(ts)[2] = "OR" -> 1
           [] Head(ts)[2] = "AND" -> 2
           [] Postfix(Head(ts)[2]) -> 4
           [] Head(ts)[2] \in {"=", "<"} -> 5
           [] Head(ts)[2] \in {"BETWEEN", "IN", "LIKE"} -> 6
           [] OTHER -> 0

WithAlias(r) ==
    IF IsKw(r[2], "AS") /\ Len(r[2]) > 1
    THEN <<[r[1] EXCEPT ![Len(r[1])] = r[2][2][2]], From3(r[2])>>
    ELSE r

(* The rules of the grammar call one another through Parse.                *)
RECURSIVE Parse(_)
Expr(ts, min) == Parse(<<"expr", ts, min>>)
Rest(left, ts, min) == Parse(<<"rest", left, ts, min>>)
Items(ts) == Parse(<<"items", ts>>)
Whens(ts, whens) == Parse(<<"whens", ts, whens>>)
Statement(ts) == Parse(<<"statement", ts>>)
SetRest(left, ts, min, ctes) == Parse(<<"setRest", left, ts, min, ctes>>)
Joins(r) == Parse(<<"joins", r>>)

ParseCase(ts) ==
    LET w == Whens(ts, <<>>)
        e == IF IsKw(w[2], "ELSE") THEN Map(Expr(Tail(w[2]), 1), LAMBDA t : <<t>>)
                                   ELSE <<<<>>, w[2]>>
    IN Expect(<<CaseExpr(w[1], e[1], ""), e[2]>>, "END")

ParseWhens(ts, whens) ==
    IF ~IsKw(ts, "WHEN") THEN <<whens, ts>>
    ELSE LET c == Expect(Expr(Tail(ts), 1), "THEN")
             v == Expr(c[2], 1)
         IN Whens(v[2], Append(whens, <<c[1], v[1]>>))

ParseName(ts) ==
    IF Len(ts) > 1 /\ ts[2] = Kw(".") /\ Len(ts) > 2
    THEN <<IF ts[3] = Kw("*") THEN AllColumns(ts[1][2]) ELSE Column(ts[3][2], ts[1][2], ""),
           SubSeq(ts, 4, Len(ts))>>
    ELSE <<Column(ts[1][2], "", ""), Tail(ts)>>

ParseAtom(ts) ==
    CASE ts = <<>> -> Error
      [] IsKw(ts, "NOT") -> Map(Expr(Tail(ts), 3), LAMBDA t : UnaryExpr(t, "NOT"))
      [] IsKw(ts, "EXISTS") -> Expect(Map(Statement(From3(ts)), ExistsExpr), ")")
      [] IsKw(ts, "(") /\ Opens(Tail(ts)) -> Expect(Map(Statement(Tail(ts)), Subquery), ")")
      [] IsKw(ts, "(") /\ ~Opens(Tail(ts)) -> Expect(Expr(Tail(ts), 1), ")")
      [] IsKw(ts, "CASE") -> ParseCase(Tail(ts))
      [] IsKw(ts, "*") -> <<AllColumns(""), Tail(ts)>>
      [] Head(ts)[1] = "kw" /\ Head(ts)[2] \in {"COUNT", "MAX"} ->
             Expect(Map(Expr(From3(ts), 1),
                        LAMBDA t : Aggregate(Head(ts)[2], FALSE, t, "")), ")")
      [] Head(ts)[1] = "val" -> <<Literal(Head(ts)[2], ""), Tail(ts)>>
      [] Head(ts)[1] = "$" -> <<ParamPlaceholder, Tail(ts)>>
      [] Head(ts)[1] = "id" -> ParseName(ts)
      [] OTHER -> Error

ParseExpr(ts, min) == LET a == ParseAtom(ts) IN Rest(a[1], a[2], min)

ParseTail(left, ts, min) ==
    LET p == Prec(ts) IN
    CASE p = 0 \/ p < min -> <<left, ts>>
      [] p = 4 -> Rest(UnaryExpr(left, Head(ts)[2]), Tail(ts), min)
      [] IsKw(ts, "BETWEEN") ->
             LET l == Expect(Expr(Tail(ts), 7), "AND")
                 u == Expr(l[2], 7)
             IN IF IsKw(u[2], "BETWEEN") THEN Error
                ELSE Rest(BetweenExpr(left, l[1], u[1]), u[2], min)
      [] IsKw(ts, "IN") ->
             LET items == Expect(Items(From3(ts)), ")")
                 q == ParseAtom(Tail(ts))
             IN IF Opens(From3(ts)) THEN Rest(BinaryExpr(left, q[1], "IN"), q[2], min)
                ELSE Rest(InListExpr(left, items[1]), items[2], min)
      [] OTHER ->
             LET r == Expr(Tail(ts), p + 1)
             IN Rest(BinaryExpr(left, r[1], Head(ts)[2]), r[2], min)

ParseItem(ts) ==
    LET r == WithAlias(Expr(ts, 1)) IN
    IF IsKw(r[2], "ASC") \/ IsKw(r[2], "DESC")
    THEN <<OrderBy(r[1], Head(r[2])[2]), Tail(r[2])>>
    ELSE r

ParseList(ts) ==
    LET r == ParseItem(ts) IN
    IF IsKw(r[2], ",") THEN Map(Items(Tail(r[2])), LAMBDA rest : <<r[1]>> \o rest)
                       ELSE <<<<r[1]>>, r[2]>>

(* Each optional clause wraps what was parsed before it. *)
ParseJoins(r) ==
    IF ~IsKw(r[2], "LEFT") THEN r
    ELSE LET ts == r[2]
             on == Expr(SubSeq(ts, 7, Len(ts)), 1)
         IN Joins(<<JoinExpr(r[1], "LEFT", ts[3][2], ts[5][2], on[1]), on[2]>>)
ParseFrom(r, ctes) ==
    LET ts == r[2]
        table == IF Len(ts) > 1 THEN ts[2][2] ELSE ""
        from == <<FromTableExpr(r[1], table, ""), From3(ts)>>
    IN CASE ~IsKw(ts, "FROM") -> r
         [] IsKw(ts, "FROM") /\ \E c \in ctes : c[2] = table ->
                <<FromCteExpr(r[1], CHOOSE c \in ctes : c[2] = table), From3(ts)>>
         [] OTHER -> WithAlias(from)
ParseWhere(r) ==
    IF IsKw(r[2], "WHERE") THEN Map(Expr(Tail(r[2]), 1), LAMBDA c : WhereExpr(r[1], c)) ELSE r
ParseHaving(r) ==
    IF IsKw(r[2], "HAVING") THEN Map(Expr(Tail(r[2]), 1), LAMBDA c : HavingExpr(r[1], c)) ELSE r
ParseGroupBy(r) ==
    IF ~IsKw(r[2], "GROUP BY") THEN r
    ELSE Map(Items(Tail(r[2])),
             LAMBDA l : IF l[1][1] = "column" THEN GroupByColumnExpr(r[1], l)
                                              ELSE GroupByQueryExpr(r[1], l[1]))
ParseOrderBy(r) ==
    IF IsKw(r[2], "ORDER BY") THEN Map(Items(Tail(r[2])), LAMBDA l : OrderByExpr(r[1], l)) ELSE r
ParseLimit(r) ==
    LET ts == r[2] IN
    CASE ~IsKw(ts, "LIMIT") -> r
      [] IsKw(ts, "LIMIT") /\ IsKw(From3(ts), "OFFSET") ->
             <<LimitExpr(r[1], ts[2][2], ts[4][2]), SubSeq(ts, 5, Len(ts))>>
      [] OTHER -> <<LimitExpr(r[1], ts[2][2], 0), From3(ts)>>

ParseCore(ts, ctes) ==
    LET distinct == IsKw(Tail(ts), "DISTINCT")
        items == Items(IF distinct THEN From3(ts) ELSE Tail(ts))
        from == Joins(ParseFrom(<<SelectExpr(distinct, items[1]), items[2]>>, ctes))
    IN IF ~IsKw(ts, "SELECT") THEN Error
       ELSE ParseHaving(ParseGroupBy(ParseWhere(from)))

SetPrec(ts) ==
    CASE IsKw(ts, "INTERSECT") -> 2
      [] IsKw(ts, "UNION") \/ IsKw(ts, "EXCEPT") -> 1
      [] OTHER -> 0
ParseSetTail(left, ts, min, ctes) ==
    LET p == SetPrec(ts)
        core == ParseCore(Tail(ts), ctes)
        right == SetRest(core[1], core[2], p + 1, ctes)
    IN IF p = 0 \/ p < min THEN <<left, ts>>
       ELSE SetRest(SetOpExpr(left, right[1], Head(ts)[2]), right[2], min, ctes)

ParseStatement(ts) ==
    LET cte == Expect(Map(Statement(SubSeq(ts, 5, Len(ts))),
                          LAMBDA q : CteExpr(ts[2][2], q, FALSE)), ")")
        ctes == IF IsKw(ts, "WITH") THEN {cte[1]} ELSE {}
        core == ParseCore(IF IsKw(ts, "WITH") THEN cte[2] ELSE ts, ctes)
    IN ParseLimit(ParseOrderBy(SetRest(core[1], core[2], 1, ctes)))

Parse(goal) ==
    CASE goal[1] = "expr" -> ParseExpr(goal[2], goal[3])
      [] goal[1] = "rest" -> ParseTail(goal[2], goal[3], goal[4])
      [] goal[1] = "items" -> ParseList(goal[2])
      [] goal[1] = "whens" -> ParseWhens(goal[2], goal[3])
      [] goal[1] = "statement" -> ParseStatement(goal[2])
      [] goal[1] = "setRest" -> ParseSetTail(goal[2], goal[3], goal[4], goal[5])
      [] goal[1] = "joins" -> ParseJoins(goal[2])

Meaning(ts) == LET r == Statement(ts) IN IF r[2] = <<>> THEN r[1] ELSE Error[1]

(* ------------------- the shapes the text keeps apart -------------------- *)

(* BinaryExpr is the only condition written in parentheses.  These are the *)
(* kinds of the unparenthesised conditions an expression starts with.      *)
RECURSIVE LeftEdge(_)
LeftEdge(e) ==
    CASE e[1] = "unary" /\ Postfix(e[3]) -> {"null"} \cup LeftEdge(e[2])
      [] e[1] = "unary" /\ ~Postfix(e[3]) -> {"not"}
      [] e[1] \in {"between", "inList"} -> {e[1]} \cup LeftEdge(e[2])
      [] OTHER -> {}

RECURSIVE OpensWithCte(_)
OpensWithCte(q) ==
    CASE q[1] = "fromCte" -> TRUE
      [] q[1] = "select" -> FALSE
      [] q[1] = "fromTable" -> FALSE
      [] OTHER -> OpensWithCte(q[2])

Tight(q) == q[1] = "setOp" /\ q[4] = "INTERSECT"
Ends(q) == q[1] \in {"orderBy", "limit"}

(* The operands PostgreSQL's precedences give back as they were written.   *)
RECURSIVE Separable(_)
Separable(e) ==
    CASE e[1] = "binary" ->
             /\ Separable(e[2]) /\ Separable(e[3])
             /\ e[4] \in {"AND", "OR"} \/ ("not" \notin LeftEdge(e[2]) /\ "null" \notin LeftEdge(e[3]))
      [] e[1] = "unary" -> Separable(e[2]) /\ (Postfix(e[3]) => "not" \notin LeftEdge(e[2]))
      [] e[1] = "between" -> Separable(e[2]) /\ "not" \notin LeftEdge(e[2]) /\ e[2][1] # "between"
      [] e[1] \in {"subquery", "exists", "fromTable", "groupBy", "groupByQuery", "orderBy", "limit"} ->
             Separable(e[2])
      [] e[1] = "fromCte" -> Separable(e[3][3])
      [] e[1] = "join" -> Separable(e[2]) /\ Separable(e[6])
      [] e[1] \in {"where", "having"} -> Separable(e[2]) /\ Separable(e[3])
      [] e[1] = "setOp" ->
             /\ Separable(e[2]) /\ Separable(e[3])
             /\ ~Ends(e[2]) /\ ~Ends(e[3]) /\ ~OpensWithCte(e[3])
             /\ IF Tight(e) THEN e[3][1] # "setOp" /\ (e[2][1] = "setOp" => Tight(e[2]))
                            ELSE e[3][1] = "setOp" => Tight(e[3])
      [] OTHER -> TRUE

(* ----------------------------- properties ------------------------------- *)

(* No condition is under construction, which would not be part of it yet.  *)
Complete ==
    /\ cond = None
    /\ query[1] \in Statements /\ (query[1] = "insert" => query[4] # <<>>)
Placeholders(ts) == SelectSeq(ts, LAMBDA t : t[1] = "$")
Filled(ts, params) ==
    [i \in DOMAIN ts |->
        IF ts[i][1] = "$" /\ ts[i][2] \in DOMAIN params THEN <<"val", params[ts[i][2]]>> ELSE ts[i]]

(* Putting the parameters a compiled query carries into its placeholders   *)
(* gives the text of Inline mode: Sink numbers each placeholder by the     *)
(* value it pushed (visit_value_impl), Tuple returns the captured values   *)
(* in the order of the placeholders, through every subquery, CTE, join and *)
(* set operation (cat_params).  In Tuple mode explicit placeholders share  *)
(* the numbering without gap or repetition.  (The values of INSERT rows    *)
(* and UPDATE assignments are written as placeholders and not captured:    *)
(* those statements are excepted there.)                                   *)
ModesAgree ==
    Complete =>
        LET inline == CompileDynamic("Inline", query)
            sink == CompileDynamic("Sink", query)
            static == CompileStatic("Tuple", query)
            holes == Placeholders(inline.sql) # <<>>
        IN /\ ~holes => Filled(sink.sql, sink.params) = inline.sql
           /\ ~holes /\ query[1] \notin {"insert", "update", "updateWhere"} =>
                  Filled(static.sql, static.params) = inline.sql
           /\ \A i \in DOMAIN Placeholders(static.sql) : Placeholders(static.sql)[i][2] = i

(* The statement PostgreSQL parses is the expression the caller built: no  *)
(* clause, operator or operand regroups, for every expression whose        *)
(* unparenthesised operands PostgreSQL's precedences keep apart            *)
(* (visit_binary_expr_start/end write the only parentheses).               *)
TextMeansTree ==
    Complete /\ query[1] \in Selects /\ Separable(query) =>
        Meaning(CompileDynamic("Inline", query).sql) = query
=============================================================================
