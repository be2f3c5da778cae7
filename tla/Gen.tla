-------------------------------- MODULE Gen --------------------------------
(***************************************************************************)
(* The code generator of src/src/gen.rs: from the syntax tree to Python.   *)
(*                                                                         *)
(* An expression becomes a sequence of tokens and a statement a sequence   *)
(* of lines <<indent, tokens>>.  The line and column every call of a       *)
(* helper ends with are left out, and so is the text `lambda:' in front of *)
(* a helper's argument: an argument is one expression with or without it.  *)
(* The numbers that make the names of temporaries distinct are left out.   *)
(***************************************************************************)
EXTENDS Integers, TypeInfer

CONSTANT py_quote  \* the string literal of an identifier

PREC_LOWEST == -10
PREC_TUPLE  == -4
PREC_COND   == -3
PREC_OR_BOOL  == -2
PREC_AND_BOOL == -1
PREC_COMPARE  == 0
PREC_UNARY  == 7
PREC_POWER  == 8
PREC_POST   == 9
PREC_ATOM   == 10

\* PREC_OR to PREC_MUL are the six levels above PREC_COMPARE.
bin_prec(op) ==
    IF op = "**" THEN PREC_POWER
    ELSE PREC_COMPARE + (CHOOSE k \in DOMAIN BinaryOps : op \in BinaryOps[k])

prec_of(e) ==
    CASE e[1] \in {"Call", "Attr", "Subscript", "Slice"} -> PREC_POST
      [] e[1] = "Bin"     -> bin_prec(e[2])
      [] e[1] = "Unary"   -> IF e[2] = "not" THEN PREC_COMPARE ELSE PREC_UNARY
      [] e[1] = "Bool"    -> IF e[2] = "and" THEN PREC_AND_BOOL ELSE PREC_OR_BOOL
      [] e[1] = "Compare" -> PREC_COMPARE
      [] e[1] = "Cond"    -> PREC_COND
      [] e[1] = "Tuple"   -> IF e[3] THEN PREC_POST ELSE PREC_TUPLE
      [] OTHER            -> PREC_ATOM

\* op_name, unary_name and cmp_name: the helper's name for an operator.
op_name ==
    "+" :> "'add'" @@ "-" :> "'sub'" @@ "*" :> "'mul'" @@ "/" :> "'truediv'" @@ "//" :> "'floordiv'" @@
    "%" :> "'mod'" @@ "**" :> "'pow'" @@ "<<" :> "'lshift'" @@ ">>" :> "'rshift'" @@
    "&" :> "'and_'" @@ "|" :> "'or_'" @@ "^" :> "'xor'"
unary_name(op) == IF op = "-" THEN "'neg'" ELSE IF op = "+" THEN "'pos'" ELSE "'invert'"
op_text ==
    "<" :> "'<'" @@ "<=" :> "'<='" @@ ">" :> "'>'" @@ ">=" :> "'>='" @@ "==" :> "'=='" @@ "!=" :> "'!='" @@
    "in" :> "'in'" @@ "not in" :> "'not in'" @@ "is" :> "'is'" @@ "is not" :> "'is not'"
cmp_name == "<" :> "'lt'" @@ "<=" :> "'le'" @@ ">" :> "'gt'" @@ ">=" :> "'ge'"

RECURSIVE chain_expr_has_effect(_)
\* Faulty variant of chain_expr_has_effect: only displays are looked into.
ChainEffectShallow(e) ==
    e[1] \in {"List", "Tuple", "Set"} /\ \E k \in DOMAIN e[2] : chain_expr_has_effect(e[2][k])
\* An operand of a chain that may have an effect must be evaluated once.
chain_expr_has_effect(e) ==
    LET AnyOf(es) == \E k \in DOMAIN es : chain_expr_has_effect(es[k]) IN
    CASE e[1] \in {"Name", "Lit", "Str", "None"} -> FALSE
      [] e[1] \in {"List", "Tuple", "Set"} -> AnyOf(e[2])
      [] e[1] = "Dict"  -> AnyOf(e[2]) \/ AnyOf(e[3])
      [] e[1] = "Bool"  -> AnyOf(<<e[3], e[4]>>)
      [] e[1] = "Slice" -> AnyOf(<<e[2], e[3], e[4]>>)
      [] OTHER -> TRUE
LazyChain(e) ==
    /\ Len(e[3]) > 1
    /\ \/ chain_expr_has_effect(e[2])
       \/ \E k \in 1..(Len(e[4]) - 1) : chain_expr_has_effect(e[4][k])

\* Sequences of tokens with a separator between them.
RECURSIVE Join(_, _)
Join(tss, sep) ==
    IF tss = <<>> THEN <<>>
    ELSE IF Len(tss) = 1 THEN tss[1]
    ELSE tss[1] \o <<sep>> \o Join(Tail(tss), sep)
Commas(tss)   == Join(tss, ",")
Fn(f, tss)    == <<f, "(">> \o Commas(tss) \o <<")">>

RECURSIVE expr(_, _, _), index_arg(_, _)
\* c = <<ti, fn>>: the inferred types and the current function.
Es(c, xs) == [k \in DOMAIN xs |-> expr(c, xs[k], PREC_COND)]

gen_call(c, e) ==
    LET a == e[3] IN
    IF e[2] \in {<<"Name", "int">>, <<"Name", "float">>} /\ a[2] = <<>> /\ a[3] = Nothing /\ a[4] = Nothing
    THEN Fn("_fly_cast", << <<e[2][2]>> >> \o Es(c, a[1]))
    ELSE expr(c, e[2], PREC_POST) \o <<"(">> \o
         Commas(Es(c, a[1])
                \o (IF a[3] = Nothing THEN <<>> ELSE << <<"*">> \o expr(c, a[3], PREC_COND) >>)
                \o (IF a[4] = Nothing THEN <<>> ELSE << <<"**">> \o expr(c, a[4], PREC_COND) >>)
                \o [k \in DOMAIN a[2] |-> <<a[2][k][1], "=">> \o expr(c, a[2][k][2], PREC_COND)])
         \o <<")">>

\* One comparison of a chain; "in" asks the container.
OneCompare(c, op, x, y) ==
    LET optoks == IF op = "is not" THEN <<"is", "not">> ELSE <<op>>
        E(z, q) == expr(c, z, q) IN
    IF op \in {"==", "!=", "is", "is not"} \/ plain_bin_op(c[1], op, x, y, c[2])
    THEN E(x, PREC_COMPARE) \o optoks \o E(y, PREC_COMPARE)
    ELSE IF op \in {"in", "not in"}
    THEN (IF op = "in" THEN <<>> ELSE <<"not">>) \o
         Fn("_fly_cmp", <<E(y, PREC_LOWEST), E(x, PREC_LOWEST), <<"'contains'">> >>)
    ELSE Fn("_fly_cmp", <<E(x, PREC_LOWEST), E(y, PREC_LOWEST), <<cmp_name[op]>> >>)

gen_compare(c, e) ==
    IF LazyChain(e)
    THEN Fn("_fly_chain", << <<"[">> \o Commas([k \in 1..Len(e[4]) + 1 |->
                expr(c, IF k = 1 THEN e[2] ELSE e[4][k - 1], PREC_LOWEST)]) \o <<"]">>,
            <<"[">> \o Commas([k \in DOMAIN e[3] |-> <<op_text[e[3][k]]>>]) \o <<"]">> >>)
    ELSE Join([k \in DOMAIN e[3] |->
                 OneCompare(c, e[3][k], IF k > 1 THEN e[4][k - 1] ELSE e[2], e[4][k])], "and")

\* What a loop runs over.
gen_iter(c, e) ==
    IF plain_iter(c[1], e, c[2]) THEN expr(c, e, PREC_COND)
    ELSE Fn("_fly_iter", <<expr(c, e, PREC_COND)>>)

gen_comp(c, e) ==
    <<"[">> \o expr(c, e[2], PREC_COND) \o
    Flatten([k \in DOMAIN e[3] |->
        LET cl == e[3][k] IN
        <<"for">> \o expr(c, cl[1], PREC_COND) \o <<"in">> \o gen_iter(c, cl[2]) \o
        Flatten([j \in DOMAIN cl[3] |-> <<"if">> \o expr(c, cl[3][j], PREC_COND)])])
    \o <<"]">>

\* parent is the precedence of the context; a looser expression gets
\* parentheses.
expr(c, e, parent) ==
    LET ti == c[1]
        fn == c[2]
        E(x, q) == expr(c, x, q)
    IN
    IF prec_of(e) < parent THEN <<"(">> \o E(e, PREC_LOWEST) \o <<")">> ELSE
    CASE e[1] \in {"Name", "Lit"} -> <<e[2]>>
      [] e[1] = "Str"  -> e[2]
      [] e[1] = "List" -> <<"[">> \o Commas(Es(c, e[2])) \o <<"]">>
      [] e[1] = "Tuple" ->
            LET body == Commas(Es(c, e[2])) \o (IF Len(e[2]) = 1 THEN <<",">> ELSE <<>>) IN
            IF e[3] THEN <<"(">> \o body \o <<")">> ELSE body
      [] e[1] = "Dict" ->
            <<"{">> \o Commas([k \in DOMAIN e[2] |->
                          E(e[2][k], PREC_COND) \o <<":">> \o E(e[3][k], PREC_COND)]) \o <<"}">>
      [] e[1] = "Set"  -> <<"{">> \o Commas(Es(c, e[2])) \o <<"}">>
      [] e[1] = "Call" -> gen_call(c, e)
      [] e[1] = "Attr" ->
            Fn(IF plain_attr(ti, e[2], e[3], fn) THEN "_fly_attr_plain" ELSE "_fly_attr",
               <<E(e[2], PREC_COND), <<py_quote[e[3]]>> >>)
      [] e[1] = "Subscript" ->
            Fn(IF plain_subscr(ti, e[3], fn) /\ e[3][1] # "Slice" THEN "_fly_get_plain" ELSE "_fly_get",
               <<E(e[2], PREC_COND), index_arg(c, e[3])>>)
      [] e[1] = "Bin" ->
            IF plain_bin_op(ti, e[2], e[3], e[4], fn)
            THEN E(e[3], bin_prec(e[2])) \o <<e[2]>> \o E(e[4], bin_prec(e[2]) + 1)
            ELSE Fn("_fly_binop", <<E(e[3], PREC_COND), E(e[4], PREC_COND), <<op_name[e[2]]>> >>)
      [] e[1] = "Unary" ->
            IF e[2] = "not" THEN <<"not">> \o E(e[3], PREC_COMPARE)
            ELSE Fn("_fly_unary", <<E(e[3], PREC_COND), <<unary_name(e[2])>> >>)
      [] e[1] = "Bool" -> LET p == prec_of(e) IN E(e[3], p) \o <<e[2]>> \o E(e[4], p)
      [] e[1] = "Compare" -> gen_compare(c, e)
      [] e[1] = "Cond" ->
            E(e[3], PREC_COND + 1) \o <<"if">> \o E(e[2], PREC_COND) \o <<"else">> \o E(e[4], PREC_COND)
      [] e[1] = "ListComp" -> gen_comp(c, e)

index_arg(c, e) ==
    LET Part(x) == IF x = Nothing THEN <<"None">> ELSE expr(c, x, PREC_COND) IN
    IF e[1] # "Slice" THEN expr(c, e, PREC_COND)
    ELSE Fn("slice", <<Part(e[2]), Part(e[3])>> \o
                     (IF e[4] = Nothing THEN <<>> ELSE <<Part(e[4])>>))
-----------------------------------------------------------------------------
(* Statements.                                                             *)

Line(ind, ts) == << <<ind, ts>> >>

RECURSIVE stmt(_, _, _, _), delete_target(_, _)

\* seal says whether the statement stands in the body of a seal class.
Stmts(c, body, ind, seal) == Flatten([k \in DOMAIN body |-> stmt(c, body[k], ind, seal)])

\* A header and its suite.  An empty suite is written `pass' on the line of
\* the header, which Python reads as a block of one statement.
suite_of(c, head, body, ind, seal) ==
    Line(ind, Append(head, ":")) \o
    (IF body = <<>> THEN Line(ind + 1, <<"pass">>) ELSE Stmts(c, body, ind + 1, seal))

gen_params(c, ps) ==
    Commas([k \in DOMAIN ps |->
        (IF ps[k][1] = "" THEN <<>> ELSE <<ps[k][1]>>) \o
        (IF ps[k][2] = "" THEN <<>> ELSE <<ps[k][2]>>) \o
        (IF ps[k][3] = Nothing THEN <<>> ELSE <<":">> \o expr(c, ps[k][3], PREC_LOWEST)) \o
        (IF ps[k][4] = Nothing THEN <<>> ELSE <<"=">> \o expr(c, ps[k][4], PREC_LOWEST))])

\* The parameters passed on to the function a trace wrapper calls.
gen_call_args(ps) ==
    LET named == SelectSeq(ps, LAMBDA q : q[2] # "") IN
    Commas([k \in DOMAIN named |->
              (IF named[k][1] = "" THEN <<>> ELSE <<named[k][1]>>) \o <<named[k][2]>>])

Decorations(c, ds, ind) ==
    Flatten([k \in DOMAIN ds |-> Line(ind, <<"@">> \o expr(c, ds[k], PREC_LOWEST))])

SealFlag(v) == <<"object", ".", "__setattr__", "(", "self", ",", "'_fly_seal_initializing'", ",", v, ")">>

gen_func_def(c, s, ind, seal) ==
    LET d    == <<c[1], s[2]>>
        head == <<"def", s[2], "(">> \o gen_params(d, s[3]) \o <<")">> \o
                (IF s[4] = Nothing THEN <<>> ELSE <<"->">> \o expr(d, s[4], PREC_LOWEST))
    IN  Decorations(d, s[6], ind) \o
        (IF seal /\ s[2] = "__init__"
         THEN Line(ind, Append(head, ":")) \o Line(ind + 1, SealFlag("True")) \o
              Stmts(d, s[5], ind + 1, seal) \o Line(ind + 1, SealFlag("False"))
         ELSE suite_of(d, head, s[5], ind, seal))

\* One of the two methods of a seal class; at is the indent of its first line.
setattr_method(m, args, at, ind) ==
    Line(at, <<"def", m, "(">> \o args \o <<")", ":">>) \o
    Line(ind + 1, <<"if", "_fly_sb_builtins", ".", "getattr", "(", "self", ",",
                    "'_fly_seal_initializing'", ",", "False", ")", ":">>) \o
    Line(ind + 2, <<"object", ".", m, "(">> \o args \o <<")">>) \o
    Line(ind + 1, <<"else", ":">>) \o
    Line(ind + 2, <<"raise", "AttributeError", "(", "'seal'", ")">>)

\* The methods of an empty class are written after the suite, with the
\* indent of their first lines doubled.
seal_suite(c, head, body, ind) ==
    LET Methods(at, i) == setattr_method("__setattr__", <<"self", ",", "name", ",", "value">>, at, i) \o
                          setattr_method("__delattr__", <<"self", ",", "name">>, at, i)
    IN  suite_of(c, head, body, ind, TRUE) \o
        (IF body = <<>> THEN Methods(2 * ind, ind) ELSE Methods(ind + 1, ind + 1))

mods_lit(ms) == <<"(">> \o Flatten([k \in DOMAIN ms |-> <<py_quote[ms[k]], ",">>]) \o <<")">>

\* The builtins are exchanged around the statements of the block; a function
\* defined in it keeps the restricted ones.
gen_only_stmt(c, s, ind, seal) ==
    Flatten([k \in DOMAIN s[2] |-> Line(ind, <<"import", s[2][k]>>)]) \o
    Line(ind, <<"_fly_ob", "=", "_fly_sb_module_globals", ".", "get", "(", "'__builtins__'", ",",
                "_fly_builtins", ")">>) \o
    Line(ind, <<"__builtins__", "=", "_FlyOnly", "(">> \o mods_lit(s[2]) \o <<")">>) \o
    Flatten([k \in DOMAIN s[3] |->
        stmt(c, s[3][k], ind, seal) \o
        (IF s[3][k][1] # "Def" THEN <<>>
         ELSE Line(ind, <<s[3][k][2], "=", "_fly_patch_builtins", "(", s[3][k][2], ",">> \o
                        mods_lit(s[2]) \o <<")">>))]) \o
    Line(ind, <<"__builtins__", "=", "_fly_ob">>)

\* The limits that are given, in the order time, memory.
gen_cage_stmt(c, s, ind, seal) ==
    LET args == SelectSeq(<<s[2], s[3]>>, LAMBDA a : a # "") IN
    Flatten([k \in DOMAIN s[4] |->
        (IF s[4][k][1] # "Def" THEN <<>>
         ELSE Line(ind, <<"@">> \o Fn("_fly_cage", [j \in DOMAIN args |-> <<args[j]>>]))) \o
        stmt(c, s[4][k], ind, seal)])

LogCall(level, args) ==
    <<"_fly_log", ".", "log", "(", "_fly_log", ".", level, ",", "'trace'">> \o
    Flatten([k \in DOMAIN args |-> <<",", args[k]>>]) \o <<")">>

\* A traced function becomes a wrapper and the implementation it calls.
trace_func(c, f, t, ind, seal) ==
    LET named == SelectSeq(f[3], LAMBDA q : q[2] # "" /\ q[1] = "")
        shown == IF t[2] THEN [k \in DOMAIN named |-> named[k][2]] ELSE <<>>
        ps    == gen_params(c, f[3])
    IN  Decorations(c, f[6], ind) \o
        Line(ind, <<"def", f[2], "(">> \o ps \o <<")", ":">>) \o
        Line(ind + 1, LogCall("WARNING", shown)) \o
        Line(ind + 1, <<"try", ":">>) \o
        Line(ind + 2, <<"_fly_ret", "=", "_fly_trace_impl", "(">> \o gen_call_args(f[3]) \o <<")">>) \o
        Line(ind + 1, <<"except", "BaseException", "as", "_fly_err", ":">>) \o
        Line(ind + 2, LogCall("WARNING", <<"_fly_err">>)) \o
        Line(ind + 2, <<"raise">>) \o
        Line(ind + 1, LogCall("WARNING", IF t[3] THEN <<"_fly_ret">> ELSE <<>>)) \o
        Line(ind + 1, <<"return", "_fly_ret">>) \o
        suite_of(c, <<"def", "_fly_trace_impl", "(">> \o ps \o <<")">>, f[5], ind, seal)
gen_trace_stmt(c, s, ind, seal) ==
    Flatten([k \in DOMAIN s[3] |->
        IF s[3][k][1] = "Def" THEN trace_func(c, s[3][k], s[2], ind, seal)
        ELSE stmt(c, s[3][k], ind, seal)])

\* x[i] op= v and x.a op= v evaluate x and i once, through temporaries.
aug_assign(c, s, ind) ==
    LET l    == s[2][1]
        v    == expr(c, s[4], PREC_COND)
        name == op_name[trim_aug(s[3])]
        Hold(t, ts) == Line(ind, <<t, "=">> \o ts)
        Set(f, g, key) ==
            Line(ind, Fn(f, << <<"_fly_aa">>, key,
                               Fn("_fly_binop", <<Fn(g, << <<"_fly_aa">>, key>>), v, <<name>> >>) >>))
    IN  CASE l[1] = "Subscript" ->
                Hold("_fly_aa", expr(c, l[2], PREC_COND)) \o Hold("_fly_ab", index_arg(c, l[3])) \o
                Set("_fly_set", "_fly_get", <<"_fly_ab">>)
          [] l[1] = "Attr" ->
                Hold("_fly_aa", expr(c, l[2], PREC_COND)) \o
                Set("_fly_setattr", "_fly_attr", <<py_quote[l[3]]>>)
          [] OTHER -> Line(ind, expr(c, l, PREC_LOWEST) \o <<s[3]>> \o expr(c, s[4], PREC_LOWEST))

gen_assign(c, s, ind) ==
    LET l == s[2][1]
        v == expr(c, s[4], PREC_COND)
        x == expr(c, l[2], PREC_COND)
    IN  CASE s[3] # "=" -> aug_assign(c, s, ind)
          [] s[3] = "=" /\ Len(s[2]) = 1 /\ l[1] = "Subscript" ->
                Line(ind, Fn(IF plain_subscr(c[1], l[3], c[2]) /\ l[3][1] # "Slice"
                             THEN "_fly_set_plain" ELSE "_fly_set", <<x, index_arg(c, l[3]), v>>))
          [] s[3] = "=" /\ Len(s[2]) = 1 /\ l[1] = "Attr" ->
                Line(ind, Fn(IF plain_attr(c[1], l[2], l[3], c[2])
                             THEN "_fly_setattr_plain" ELSE "_fly_setattr", <<x, <<py_quote[l[3]]>>, v>>))
          [] OTHER ->
                Line(ind, Join([k \in DOMAIN s[2] |-> expr(c, s[2][k], PREC_LOWEST)], "=") \o
                          <<"=">> \o expr(c, s[4], PREC_LOWEST))

gen_import(s, ind) ==
    Flatten([k \in DOMAIN s[2] |->
        LET it == s[2][k] IN
        Line(ind, <<IF it[2] = "" THEN it[1][1] ELSE it[2], "=", "_fly_sb_import", "(">> \o
                  [j \in DOMAIN it[1] |-> py_quote[it[1][j]]] \o <<")">>)])

gen_from_import(s, ind) ==
    Line(ind, <<"_fly_sb_mod", "=", "_fly_sb_import", "(">> \o
              [j \in DOMAIN s[2] |-> py_quote[s[2][j]]] \o
              <<",", "fromlist", "=">> \o mods_lit([k \in DOMAIN s[3] |-> s[3][k][1][1]]) \o <<")">>) \o
    Flatten([k \in DOMAIN s[3] |->
        LET it == s[3][k] IN
        Line(ind, <<IF it[2] = "" THEN it[1][1] ELSE it[2], "=", "_fly_sb_mod", ".", it[1][1]>>)])

\* The conjunction of the type test and the conditions, negated.
gen_guard(c, s, ind) ==
    LET typed == IF s[2] = "" \/ s[3] = Nothing THEN <<>>
                 ELSE << <<"isinstance", "(", s[2], ",">> \o expr(c, s[3], PREC_LOWEST) \o <<")">> >>
        conds == [k \in DOMAIN s[4] |-> <<"(">> \o expr(c, s[4][k], PREC_LOWEST) \o <<")">>]
    IN  Line(ind, <<"if", "not", "(">> \o Join(typed \o conds, "and") \o <<")", ":">>) \o
        Line(ind + 1, <<"raise", "GuardError", "(", "'guard'", ")">>)

\* A target of del is written without helpers.
delete_target(c, e) ==
    CASE e[1] = "Subscript" -> expr(c, e[2], PREC_POST) \o <<"[">> \o index_arg(c, e[3]) \o <<"]">>
      [] e[1] = "Attr"      -> expr(c, e[2], PREC_POST) \o <<".", e[3]>>
      [] e[1] = "Tuple"     -> Commas([k \in DOMAIN e[2] |-> delete_target(c, e[2][k])])
      [] OTHER              -> expr(c, e, PREC_LOWEST)

gen_class(c, s, ind, seal) ==
    LET head == <<"class", s[2]>> \o
                (IF s[3] = <<>> THEN <<>>
                 ELSE <<"(">> \o Commas([k \in DOMAIN s[3] |-> expr(c, s[3][k], PREC_LOWEST)]) \o <<")">>)
    IN  Decorations(c, s[5], ind) \o
        (IF s[6] THEN seal_suite(c, head, s[4], ind) ELSE suite_of(c, head, s[4], ind, seal))

\* The else and finally clauses, where they are.
gen_else(c, kw, body, ind, seal) ==
    IF body = <<>> THEN <<>> ELSE suite_of(c, <<kw>>, body, ind, seal)

gen_if(c, s, ind, seal) ==
    suite_of(c, <<"if">> \o expr(c, s[2], PREC_LOWEST), s[3], ind, seal) \o
    Flatten([k \in DOMAIN s[4] |->
        suite_of(c, <<"elif">> \o expr(c, s[4][k][1], PREC_LOWEST), s[4][k][2], ind, seal)]) \o
    gen_else(c, "else", s[5], ind, seal)

gen_try(c, s, ind, seal) ==
    suite_of(c, <<"try">>, s[2], ind, seal) \o
    Flatten([k \in DOMAIN s[3] |->
        LET h == s[3][k] IN
        suite_of(c, <<"except">> \o
                    (IF h[1] = Nothing THEN <<>>
                     ELSE expr(c, h[1], PREC_LOWEST) \o (IF h[2] = "" THEN <<>> ELSE <<"as", h[2]>>)),
                 h[3], ind, seal)]) \o
    gen_else(c, "else", s[4], ind, seal) \o gen_else(c, "finally", s[5], ind, seal)

stmt(c, s, ind, seal) ==
    LET E(x) == expr(c, x, PREC_LOWEST)
        O(t, x) == IF x = Nothing THEN <<>> ELSE t \o E(x)
    IN
    CASE s[1] = "Import"     -> gen_import(s, ind)
      [] s[1] = "FromImport" -> gen_from_import(s, ind)
      [] s[1] = "Assign"     -> gen_assign(c, s, ind)
      [] s[1] = "Lock" -> IF s[3] = Nothing THEN <<>> ELSE Line(ind, <<s[2], "=">> \o E(s[3]))
      [] s[1] \in {"Safe", "Mask"} -> <<>>
      [] s[1] = "Guard" -> gen_guard(c, s, ind)
      [] s[1] = "Expr"  -> Line(ind, E(s[2]))
      [] s[1] = "Def"   -> gen_func_def(c, s, ind, seal)
      [] s[1] = "Class" -> gen_class(c, s, ind, seal)
      [] s[1] = "Only"  -> gen_only_stmt(c, s, ind, seal)
      [] s[1] = "Trace" -> gen_trace_stmt(c, s, ind, seal)
      [] s[1] = "Cage"  -> gen_cage_stmt(c, s, ind, seal)
      [] s[1] = "If"    -> gen_if(c, s, ind, seal)
      [] s[1] = "For"   ->
            suite_of(c, <<"for">> \o E(s[2]) \o <<"in">> \o gen_iter(c, s[3]), s[4], ind, seal) \o
            gen_else(c, "else", s[5], ind, seal)
      [] s[1] = "While"  -> suite_of(c, <<"while">> \o E(s[2]), s[3], ind, seal) \o
            gen_else(c, "else", s[4], ind, seal)
      [] s[1] = "Return" -> Line(ind, <<"return">> \o O(<<>>, s[2]))
      [] s[1] = "Raise"  -> Line(ind, <<"raise">> \o O(<<>>, s[2]) \o O(<<"from">>, s[3]))
      [] s[1] = "Try"    -> gen_try(c, s, ind, seal)
      [] s[1] = "Jump"   -> Line(ind, <<s[2]>>)
      [] s[1] = "Delete" ->
            Line(ind, <<"del">> \o Commas([k \in DOMAIN s[2] |-> delete_target(c, s[2][k])]))

-----------------------------------------------------------------------------
(* The sections of the runtime library that the output starts with.        *)

\* The bodies of every compound statement.
AllBodies(s) ==
    CASE s[1] = "Def"   -> s[5]
      [] s[1] = "Class" -> s[4]
      [] s[1] \in {"Only", "Trace"} -> s[3]
      [] s[1] = "Cage"  -> s[4]
      [] OTHER -> Bodies(s)

RECURSIVE need_stmt(_, _)
\* needs_only, needs_trace and needs_cage: a statement of the variant, at
\* any depth.
need_stmt(v, ss) == \E k \in DOMAIN ss : ss[k][1] = v \/ need_stmt(v, AllBodies(ss[k]))

RECURSIVE needs_guard(_)
\* Faulty variant of needs_guard: functions and classes are not looked into.
NeedsGuardOutside(ss) ==
    \E k \in DOMAIN ss : ss[k][1] = "Guard" \/ needs_guard(Bodies(ss[k]))
needs_guard(ss) ==
    \E k \in DOMAIN ss :
        \/ ss[k][1] = "Guard"
        \/ needs_guard(AllBodies(ss[k]))
        \/ ss[k][1] \in {"Only", "Trace", "Cage"} /\ need_stmt(ss[k][1], AllBodies(ss[k]))

runtime_prelude(ss) ==
    {"runtime", "sandbox"} \cup {v \in {"only", "trace", "cage"} :
        need_stmt(CASE v = "only" -> "Only" [] v = "trace" -> "Trace" [] v = "cage" -> "Cage", ss)}
    \cup (IF needs_guard(ss) THEN {"guard"} ELSE {})

\* A module that is empty, or holds a docstring alone, gets no prelude.
generate(ss, order) ==
    LET doc == IF ss # <<>> /\ ss[1][1] = "Expr" /\ ss[1][2][1] = "Str" THEN 1 ELSE 0 IN
    [prelude |-> IF Len(ss) > doc THEN runtime_prelude(ss) ELSE {},
     lines   |-> Stmts(<<infer(ss, order), "">>, ss, 0, FALSE)]
=============================================================================
