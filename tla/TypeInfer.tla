----------------------------- MODULE TypeInfer -----------------------------
(***************************************************************************)
(* The type inference of src/src/typeinfer.rs: which operands are known to *)
(* be integers or strings, so that the generator may write a native        *)
(* operator instead of a call of the runtime library.                      *)
(*                                                                         *)
(* The state is a record: mod the types of the module's variables, fn      *)
(* those of each function's variables, par the types of the arguments each *)
(* function is called with, argSet the functions with an argument type, ret*)
(* the return types and defs the functions by name.  A map is a function   *)
(* whose domain is the set of its keys.                                    *)
(***************************************************************************)
EXTENDS Parser, TLC

CONSTANTS
    Builtins,  \* the callables callable_ret knows, with their type
    Reflect,   \* the attribute names of FLY_SB_REFLECT
    Rounds     \* how often run goes over the module

Types == {"Unknown", "Int", "Float", "Str", "Bool", "List", "Dict", "Set", "Tuple"}

NoMap         == << >>
Get(m, k, d)  == IF k \in DOMAIN m THEN m[k] ELSE d
Insert(m, k, v) == (k :> v) @@ m

merge_type(a, b)   == IF a = b THEN a ELSE "Unknown"
set_type(m, x, ty) == Insert(m, x, IF x \in DOMAIN m THEN merge_type(m[x], ty) ELSE ty)
callable_ret(f)    == Get(Builtins, f, "Unknown")

ArithOps == {"-", "*", "//", "%"}
OrderOps == {"<", "<=", ">", ">="}

\* + - * // % of an augmented assignment.
bin_op_type(op, a, b) ==
    IF \/ op = "+" /\ a = b /\ a \in {"Int", "Str"}
       \/ op \in ArithOps /\ a = "Int" /\ b = "Int"
    THEN a ELSE "Unknown"

RECURSIVE expr_type(_, _, _, _)
\* A name is looked up in the scope being collected, among the variables of
\* the function and among those of the module, in this order.
expr_type(ti, e, scope, fn) ==
    LET T(x) == expr_type(ti, x, scope, fn) IN
    CASE e[1] = "Lit" -> IF e[2] \in Numbers THEN "Int" ELSE IF e[2] \in Floats THEN "Float" ELSE "Unknown"
      [] e[1] = "Str" -> "Str"
      [] e[1] = "Name" ->
            LET fv == Get(ti.fn, fn, NoMap) IN
            IF e[2] \in DOMAIN scope THEN scope[e[2]]
            ELSE IF e[2] \in DOMAIN fv THEN fv[e[2]]
            ELSE Get(ti.mod, e[2], "Unknown")
      [] e[1] \in {"List", "ListComp"} -> "List"
      [] e[1] = "Dict" -> "Dict"
      [] e[1] = "Set"  -> "Set"
      [] e[1] = "Bin"  ->
            IF e[2] = "/" THEN "Float"
            ELSE IF e[2] = "+" THEN bin_op_type("+", T(e[3]), T(e[4]))
            ELSE IF T(e[3]) = "Int" /\ T(e[4]) = "Int" THEN "Int" ELSE "Unknown"
      [] e[1] = "Unary" ->
            IF e[2] = "not" THEN "Bool"
            ELSE IF T(e[3]) \in {"Int", "Float"} THEN T(e[3]) ELSE "Unknown"
      [] e[1] \in {"Bool", "Cond"} -> merge_type(T(e[3]), T(e[4]))
      [] e[1] = "Call" ->
            IF e[2][1] # "Name" THEN "Unknown"
            ELSE IF e[2][2] \in DOMAIN ti.defs THEN Get(ti.ret, e[2][2], "Unknown")
            ELSE callable_ret(e[2][2])
      [] OTHER -> "Unknown"

IsRange(e) == e[1] = "Call" /\ e[2] = <<"Name", "range">>
iter_elem_type(ti, e, scope, fn) == IF IsRange(e) THEN "Int" ELSE expr_type(ti, e, scope, fn)

\* The operator of an augmented assignment.
trim_aug(op) ==
    ("+=" :> "+" @@ "-=" :> "-" @@ "*=" :> "*" @@ "/=" :> "/" @@ "%=" :> "%" @@ "**=" :> "**" @@
     "//=" :> "//" @@ "<<=" :> "<<" @@ ">>=" :> ">>" @@ "&=" :> "&" @@ "|=" :> "|" @@ "^=" :> "^")[op]

\* The bodies of a compound statement in the order collect_stmts visits them.
RECURSIVE Flatten(_)
Flatten(ss) == IF ss = <<>> THEN <<>> ELSE Head(ss) \o Flatten(Tail(ss))
Bodies(s) ==
    CASE s[1] = "For"   -> s[4] \o s[5]
      [] s[1] = "While" -> s[3] \o s[4]
      [] s[1] = "If"    -> Flatten([k \in DOMAIN s[4] |-> s[4][k][2]]) \o s[3] \o s[5]
      [] s[1] = "Try"   -> s[2] \o Flatten([k \in DOMAIN s[3] |-> s[3][k][3]]) \o s[4] \o s[5]
      [] OTHER -> <<>>

RECURSIVE collect_stmts(_, _, _, _)
\* acc = <<ti, scope>>
collect_stmts(acc, ss, k, fn) ==
    IF k > Len(ss) THEN acc
    ELSE LET ti    == acc[1]
             scope == acc[2]
             s     == ss[k]
             T(e)  == expr_type(ti, e, scope, fn)
             here  ==
               CASE s[1] = "Assign" /\ Len(s[2]) = 1 /\ s[2][1][1] = "Name" ->
                       LET x == s[2][1][2] IN
                       <<ti, set_type(scope, x,
                               IF s[3] = "=" THEN T(s[4])
                               ELSE bin_op_type(trim_aug(s[3]), Get(scope, x, "Unknown"), T(s[4])))>>
                 [] s[1] = "For" /\ s[2][1] = "Name" ->
                       <<ti, set_type(scope, s[2][2], iter_elem_type(ti, s[3], scope, fn))>>
                 [] s[1] = "Return" /\ s[2] # Nothing ->
                       <<[ti EXCEPT !.ret = set_type(@, fn, T(s[2]))], scope>>
                 [] OTHER -> acc
         IN  collect_stmts(collect_stmts(here, Bodies(s), 1, fn), ss, k + 1, fn)

\* The direct subexpressions collect_calls goes into; not those of a comparison.
Opt(e) == IF e = Nothing THEN <<>> ELSE <<e>>
\* Column j of a sequence of tuples.
Parts(rows, j) == [k \in DOMAIN rows |-> rows[k][j]]
CallChildren(e) ==
    CASE e[1] = "Call"      -> e[3][1]
      [] e[1] \in {"Bin", "Bool"} -> <<e[3], e[4]>>
      [] e[1] = "Unary"     -> <<e[3]>>
      [] e[1] = "Cond"      -> <<e[2], e[3], e[4]>>
      [] e[1] = "Attr"      -> <<e[2]>>
      [] e[1] = "Subscript" -> <<e[2], e[3]>>
      [] e[1] = "Slice"     -> Opt(e[2]) \o Opt(e[3]) \o Opt(e[4])
      [] e[1] \in {"List", "Set", "Tuple"} -> e[2]
      [] e[1] = "Dict"      -> Flatten([k \in DOMAIN e[2] |-> <<e[2][k], e[3][k]>>])
      [] e[1] = "ListComp"  -> <<e[2]>> \o Flatten([k \in DOMAIN e[3] |-> <<e[3][k][2]>> \o e[3][k][3]])
      [] OTHER -> <<>>

RECURSIVE ArgTypes(_, _, _, _, _, _)
\* One call of function f: the first argument type ever seen for f is taken
\* over, every other one is merged.
ArgTypes(ti, f, args, k, scope, fn) ==
    IF k > Len(args) THEN ti
    ELSE LET at    == expr_type(ti, args[k], scope, fn)
             old   == Get(ti.par, f, <<>>)
             cur   == [j \in 1..(IF Len(old) < Len(args) THEN Len(args) ELSE Len(old)) |->
                         IF j <= Len(old) THEN old[j] ELSE "Unknown"]
             first == cur[k] = "Unknown" /\ f \notin ti.argSet
         IN  ArgTypes([ti EXCEPT !.par = Insert(@, f, [cur EXCEPT ![k] = IF first THEN at ELSE merge_type(@, at)]),
                                 !.argSet = IF first THEN @ \cup {f} ELSE @],
                      f, args, k + 1, scope, fn)

RECURSIVE collect_calls(_, _, _, _, _)
\* In a module without functions there is nothing to collect.
collect_calls(ti, es, k, scope, fn) ==
    IF DOMAIN ti.defs = {} \/ k > Len(es) THEN ti
    ELSE LET e    == es[k]
             here == IF e[1] = "Call" /\ e[2][1] = "Name" /\ e[2][2] \in DOMAIN ti.defs
                     THEN ArgTypes(ti, e[2][2], e[3][1], 1, scope, fn) ELSE ti
         IN  collect_calls(collect_calls(here, CallChildren(e), 1, scope, fn), es, k + 1, scope, fn)

\* The expressions of a statement, and the bodies, that collect_calls_stmt
\* goes into: not the else of a loop or of a try, nor a finally.
CallExprs(s) ==
    CASE s[1] = "Expr"   -> <<s[2]>>
      [] s[1] = "Assign" -> <<s[4]>> \o s[2]
      [] s[1] = "Return" -> Opt(s[2])
      [] s[1] = "If"     -> Parts(s[4], 1) \o <<s[2]>>
      [] s[1] = "For"    -> <<s[3]>>
      [] s[1] = "While"  -> <<s[2]>>
      [] OTHER -> <<>>
CallBodies(s) ==
    CASE s[1] = "If"    -> Flatten(Parts(s[4], 2)) \o s[3] \o s[5]
      [] s[1] = "For"   -> s[4]
      [] s[1] = "While" -> s[3]
      [] s[1] = "Try"   -> s[2] \o Flatten(Parts(s[3], 3))
      [] OTHER -> <<>>
RECURSIVE collect_calls_stmt(_, _, _, _, _)
collect_calls_stmt(ti, ss, k, scope, fn) ==
    IF DOMAIN ti.defs = {} \/ k > Len(ss) THEN ti
    ELSE LET here == collect_calls(ti, CallExprs(ss[k]), 1, scope, fn) IN
         collect_calls_stmt(collect_calls_stmt(here, CallBodies(ss[k]), 1, scope, fn), ss, k + 1, scope, fn)

UnknownOnly(m) == [x \in {y \in DOMAIN m : m[y] = "Unknown"} |-> "Unknown"]

\* The functions in the order of their names.
RECURSIVE FnRounds(_, _)
FnRounds(ti, names) ==
    IF names = <<>> THEN ti
    ELSE LET f      == Head(names)
             def    == ti.defs[f]
             types  == Get(ti.par, f, <<>>)
             ps     == {k \in DOMAIN def[3] : k <= Len(types) /\ def[3][k][2] # ""}
             start  == [x \in {def[3][k][2] : k \in ps} |->
                          types[CHOOSE k \in ps : def[3][k][2] = x]]
             prev   == Get(ti.fn, f, NoMap)
             done   == collect_stmts(<<[ti EXCEPT !.fn = Insert(@, f, UnknownOnly(prev))], start>>,
                                     def[5], 1, f)
             merged == [x \in DOMAIN done[2] |->
                          IF x \in DOMAIN prev THEN merge_type(prev[x], done[2][x]) ELSE done[2][x]]
             ti2    == [done[1] EXCEPT !.fn = Insert(@, f, merged)]
         IN  FnRounds(collect_calls_stmt(ti2, def[5], 1, merged, f), Tail(names))

\* The functions of the module, sorted; order gives the names' order.
Sorted(names, order) == SelectSeq(order, LAMBDA x : x \in names)

\* The types found so far are dropped, except for Unknown, which stays.
run_round(ti, stmts, order) ==
    LET names == Sorted(DOMAIN ti.defs, order)
        top   == collect_stmts(<<[ti EXCEPT !.mod = NoMap], UnknownOnly(ti.mod)>>, stmts, 1, "")
        calls == collect_calls_stmt(top[1], stmts, 1, top[2], "")
    IN  FnRounds([calls EXCEPT !.mod = top[2]], names)

RECURSIVE Defs(_, _)
Defs(stmts, m) ==
    IF stmts = <<>> THEN m
    ELSE LET s == Head(stmts) IN
         Defs(Tail(stmts), CASE s[1] = "Def"   -> Insert(m, s[2], s)
                             [] s[1] = "Class" -> Defs(s[4], m)
                             [] OTHER          -> m)

RECURSIVE run(_, _, _, _)
\* Faulty variant of run: a single round.
RunOnce(ti, stmts, order, k) == run_round(ti, stmts, order)
run(ti, stmts, order, k) == IF k = 0 THEN ti ELSE run(run_round(ti, stmts, order), stmts, order, k - 1)

infer(stmts, order) ==
    run([mod |-> NoMap, fn |-> NoMap, par |-> NoMap, argSet |-> {}, ret |-> NoMap,
         defs |-> Defs(stmts, NoMap)], stmts, order, Rounds)

-----------------------------------------------------------------------------
(* What the generator asks.                                                *)

plain_bin_op(ti, op, x, y, fn) ==
    LET xt == expr_type(ti, x, NoMap, fn)
        yt == expr_type(ti, y, NoMap, fn)
    IN  \/ op \in OrderOps \cup {"+"} /\ xt = yt /\ xt \in {"Int", "Str"}
        \/ op \in ArithOps /\ xt = "Int" /\ yt = "Int"
plain_attr(ti, x, name, fn) == expr_type(ti, x, NoMap, fn) # "Unknown" /\ name \notin Reflect
plain_subscr(ti, index, fn) == expr_type(ti, index, NoMap, fn) \notin {"Unknown", "Str"}
plain_iter(ti, e, fn) ==
    expr_type(ti, e, NoMap, fn) \in {"List", "Dict", "Set", "Tuple", "Str"} \/ IsRange(e)
=============================================================================
