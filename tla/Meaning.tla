------------------------------ MODULE Meaning ------------------------------
(***************************************************************************)
(* What a program says, whichever way it is written: one reading for the   *)
(* tree of a Fly source and for the tree of the Python text made from it.  *)
(* A call of a runtime helper reads as the operation it stands for; a chain*)
(* of comparisons reads as their conjunction when the operands in the      *)
(* middle may be evaluated twice; guard, lock and cage read as the Python  *)
(* statements their documentation gives, only, trace and seal as those the *)
(* comments of the generator and of the runtime library describe.          *)
(***************************************************************************)
EXTENDS Gen

\* The key whose value is v.
KeyOf(f, v)  == CHOOSE k \in DOMAIN f : f[k] = v
Quoted(e)    == KeyOf(py_quote, e[2][1])
UnaryOf(t)   == CASE t = "'neg'" -> "-" [] t = "'pos'" -> "+" [] OTHER -> "~"
NoneName     == <<"Name", "None">>

MeansOne(op, x, y) ==
    IF op = "not in" THEN <<"Unary", "not", <<"Compare", "in", x, y>> >> ELSE <<"Compare", op, x, y>>
BoolParts(op, x) == IF x[1] = "Bool" /\ x[2] = op THEN x[3] ELSE <<x>>
MeansBool(op, xs) ==
    IF Len(xs) = 1 THEN xs[1] ELSE <<"Bool", op, Flatten([k \in DOMAIN xs |-> BoolParts(op, xs[k])])>>

RECURSIVE Repeatable(_)
Repeatable(x) ==
    \/ x[1] \in {"Name", "Lit", "Str"}
    \/ x[1] \in {"List", "Tuple", "Set"} /\ \A k \in DOMAIN x[2] : Repeatable(x[2][k])
    \/ x[1] = "Bool" /\ \A k \in DOMAIN x[3] : Repeatable(x[3][k])
    \/ x[1] = "Dict" /\ \A k \in DOMAIN x[2] : Repeatable(x[2][k]) /\ Repeatable(x[3][k])
MeansChain(ops, xs) ==
    IF \A k \in 2..Len(ops) : Repeatable(xs[k])
    THEN MeansBool("and", [k \in DOMAIN ops |-> MeansOne(ops[k], xs[k], xs[k + 1])])
    ELSE <<"Chain", ops, xs>>

\* A slice without a part has None there.
MeansSlice(parts) == <<"Slice">> \o [k \in 1..3 |-> IF k <= Len(parts) THEN parts[k] ELSE NoneName]

RECURSIVE Means(_)
MeansAll(xs) == [k \in DOMAIN xs |-> Means(xs[k])]
\* The call of helper f with arguments a.
MeansHelper(f, a, other) ==
    CASE f = "_fly_binop"  -> <<"Bin", KeyOf(op_name, a[3][2][1]), Means(a[1]), Means(a[2])>>
      [] f = "_fly_unary"  -> <<"Unary", UnaryOf(a[2][2][1]), Means(a[1])>>
      [] f = "_fly_cmp"    ->
            IF a[3][2][1] = "'contains'" THEN MeansOne("in", Means(a[2]), Means(a[1]))
            ELSE MeansOne(KeyOf(cmp_name, a[3][2][1]), Means(a[1]), Means(a[2]))
      [] f = "_fly_chain"  ->
            MeansChain([k \in DOMAIN a[2][2] |-> KeyOf(op_text, a[2][2][k][2][1])], MeansAll(a[1][2]))
      [] f \in {"_fly_attr", "_fly_attr_plain"} -> <<"Attr", Means(a[1]), Quoted(a[2])>>
      [] f \in {"_fly_get", "_fly_get_plain"}   -> <<"Subscript", Means(a[1]), Means(a[2])>>
      [] f = "_fly_iter"   -> Means(a[1])
      [] f = "_fly_cast"   -> <<"Call", a[1], <<MeansAll(Tail(a)), <<>>, Nothing, Nothing>> >>
      [] f = "slice"       -> MeansSlice(MeansAll(a))
      [] OTHER             -> other

MeansOpt(x) == IF x = Nothing THEN Nothing ELSE Means(x)
Means(e) ==
    CASE e[1] \in {"List", "Set", "Tuple"} -> <<e[1], MeansAll(e[2])>>
      [] e[1] = "Dict"  -> <<"Dict", MeansAll(e[2]), MeansAll(e[3])>>
      [] e[1] = "Bin"   -> <<"Bin", e[2], Means(e[3]), Means(e[4])>>
      [] e[1] = "Unary" -> <<"Unary", e[2], Means(e[3])>>
      [] e[1] = "Bool"  -> MeansBool(e[2], <<Means(e[3]), Means(e[4])>>)
      [] e[1] = "Compare" -> MeansChain(e[3], <<Means(e[2])>> \o MeansAll(e[4]))
      [] e[1] = "Cond"  -> <<"Cond", Means(e[2]), Means(e[3]), Means(e[4])>>
      [] e[1] = "Attr"  -> <<"Attr", Means(e[2]), e[3]>>
      [] e[1] = "Subscript" -> <<"Subscript", Means(e[2]), Means(e[3])>>
      [] e[1] = "Slice" ->
            MeansSlice([k \in 1..3 |-> IF e[k + 1] = Nothing THEN NoneName ELSE Means(e[k + 1])])
      [] e[1] = "ListComp" ->
            <<"ListComp", Means(e[2]),
              [k \in DOMAIN e[3] |-> <<Means(e[3][k][1]), Means(e[3][k][2]), MeansAll(e[3][k][3])>>]>>
      [] e[1] = "Call" ->
            LET a == e[3]
                call == <<"Call", Means(e[2]),
                          <<MeansAll(a[1]), [k \in DOMAIN a[2] |-> <<a[2][k][1], Means(a[2][k][2])>>],
                            MeansOpt(a[3]), MeansOpt(a[4])>> >>
            IN  IF e[2][1] = "Name" THEN MeansHelper(e[2][2], a[1], call) ELSE call
      [] OTHER -> e

-----------------------------------------------------------------------------
RECURSIVE MeansStmt(_), DelParts(_)
MeansBody(ss) ==
    SelectSeq(Flatten([k \in DOMAIN ss |-> MeansStmt(ss[k])]), LAMBDA s : s # <<"Jump", "pass">>)
Set1(x, v)  == << <<"Assign", <<x>>, "=", v>> >>
Name(x)     == <<"Name", x>>
Call(f, args, kws) == <<"Call", Name(f), <<args, kws, Nothing, Nothing>> >>
StrOf(names) == <<"Str", [k \in DOMAIN names |-> py_quote[names[k]]]>>
DelParts(e) ==
    IF e[1] = "Tuple" THEN Flatten([k \in DOMAIN e[2] |-> DelParts(e[2][k])]) ELSE <<Means(e)>>

\* x[i] op= v and x.a op= v: x and i once, before v.
MeansAug(s) ==
    LET l == s[2][1]
        t == IF l[1] = "Attr" THEN <<"Attr", Name("_fly_aa"), l[3]>>
             ELSE <<"Subscript", Name("_fly_aa"), Name("_fly_ab")>>
    IN  IF l[1] \notin {"Attr", "Subscript"}
        THEN << <<"Assign", <<Means(l)>>, s[3], Means(s[4])>> >>
        ELSE Set1(Name("_fly_aa"), Means(l[2])) \o
             (IF l[1] = "Attr" THEN <<>> ELSE Set1(Name("_fly_ab"), Means(l[3]))) \o
             Set1(t, <<"Bin", trim_aug(s[3]), t, Means(s[4])>>)

\* _fly_set and _fly_setattr read as assignments.
MeansExprStmt(e) ==
    LET f == IF e[1] = "Call" /\ e[2][1] = "Name" THEN e[2][2] ELSE ""
        a == e[3][1]
    IN  CASE f \in {"_fly_set", "_fly_set_plain"} ->
                Set1(<<"Subscript", Means(a[1]), Means(a[2])>>, Means(a[3]))
          [] f \in {"_fly_setattr", "_fly_setattr_plain"} ->
                Set1(<<"Attr", Means(a[1]), Quoted(a[2])>>, Means(a[3]))
          [] OTHER -> << <<"Expr", Means(e)>> >>

\* _fly_cage(max_time=None, max_memory=None)
CageCall(args) == Call("_fly_cage", [k \in 1..2 |-> IF k <= Len(args) THEN args[k] ELSE NoneName], <<>>)
MeansDecorator(d) ==
    IF d[1] = "Call" /\ d[2] = Name("_fly_cage") THEN CageCall(MeansAll(d[3][1])) ELSE Means(d)
MeansDecorators(ds) == [k \in DOMAIN ds |-> MeansDecorator(ds[k])]
CageDecorator(s) ==
    CageCall(<<IF s[2] = "" THEN NoneName ELSE <<"Str", <<s[2]>> >>,
               IF s[3] = "" THEN NoneName ELSE <<"Str", <<s[3]>> >> >>)
\* cage decorates the functions of its block.
MeansCaged(s, f) ==
    LET m == MeansStmt(f) IN
    IF f[1] # "Def" THEN m ELSE << [m[1] EXCEPT ![6] = <<CageDecorator(s)>> \o @] >>

MeansGuard(s) ==
    LET typed == IF s[2] = "" \/ s[3] = Nothing THEN <<>>
                 ELSE <<Call("isinstance", <<Name(s[2]), Means(s[3])>>, <<>>)>>
    IN  << <<"If", <<"Unary", "not", MeansBool("and", typed \o MeansAll(s[4]))>>,
             << <<"Raise", Call("GuardError", << <<"Str", <<"'guard'">> >> >>, <<>>), Nothing>> >>, <<>>, <<>> >> >>

MeansFrom(s) ==
    LET names == [k \in DOMAIN s[3] |-> StrOf(s[3][k][1])] IN
    Set1(Name("_fly_sb_mod"), Call("_fly_sb_import", <<StrOf(s[2])>>, << <<"fromlist", <<"Tuple", names>> >> >>)) \o
    Flatten([k \in DOMAIN s[3] |->
        Set1(Name(IF s[3][k][2] = "" THEN s[3][k][1][1] ELSE s[3][k][2]),
             <<"Attr", Name("_fly_sb_mod"), s[3][k][1][1]>>)])

CallOn(x, m, args) == <<"Call", <<"Attr", Name(x), m>>, <<args, <<>>, Nothing, Nothing>> >>
Raw(t) == <<"Str", <<t>> >>
\* A function, with the body as it reads.
MeansDef(f, ps, ret, body, ds) ==
    <<"Def", f, [k \in DOMAIN ps |-> <<ps[k][1], ps[k][2], MeansOpt(ps[k][3]), MeansOpt(ps[k][4])>>],
      MeansOpt(ret), body, MeansDecorators(ds)>>

\* A parameter behind a * takes keyword arguments only.
KeywordOnly(ps, q) == \E j, k \in DOMAIN ps : j < k /\ ps[j][1] = "*" /\ ps[k] = q /\ q[1] = ""

\* trace: a wrapper with the name, parameters, annotations and decorators of
\* the function, which logs its arguments, its result and its exception, and
\* the implementation it passes its arguments on to.
MeansTraced(t, f) ==
    LET Kind(star) == SelectSeq(f[3], LAMBDA q : q[2] # "" /\ q[1] = star)
        keywords == SelectSeq(Kind(""), LAMBDA q : KeywordOnly(f[3], q))
        Passed(ps) == [k \in DOMAIN ps |-> Name(ps[k][2])]
        StarArg(star) == IF Kind(star) = <<>> THEN Nothing ELSE Passed(Kind(star))[1]
        LogOf(args) == <<"Expr", CallOn("_fly_log", "log",
                           <<<<"Attr", Name("_fly_log"), "WARNING">>, Raw("'trace'")>> \o args)>>
        impl == <<"Call", Name("_fly_trace_impl"),
                  <<Passed(SelectSeq(Kind(""), LAMBDA q : ~KeywordOnly(f[3], q))),
                    [k \in DOMAIN keywords |-> <<keywords[k][2], Name(keywords[k][2])>>],
                    StarArg("*"), StarArg("**")>> >>
    IN  <<MeansDef(f[2], f[3], f[4],
            <<LogOf(IF t[2] THEN Passed(Kind("")) ELSE <<>>),
              <<"Try", Set1(Name("_fly_ret"), impl),
                << <<Name("BaseException"), "_fly_err",
                     <<LogOf(<<Name("_fly_err")>>), <<"Raise", Nothing, Nothing>> >> >> >>, <<>>, <<>> >>,
              LogOf(IF t[3] THEN <<Name("_fly_ret")>> ELSE <<>>),
              <<"Return", Name("_fly_ret")>> >>, f[6]),
          MeansDef("_fly_trace_impl", f[3], Nothing, MeansBody(f[5]), <<>>)>>

\* only: the modules are imported, and the builtins exchanged around the
\* statements; a function defined there keeps the restricted ones.
MeansOnly(s) ==
    LET mods == <<"Tuple", [k \in DOMAIN s[2] |-> StrOf(<<s[2][k]>>)]>>
        Patched(f) == IF f[1] # "Def" THEN <<>>
                      ELSE Set1(Name(f[2]), Call("_fly_patch_builtins", <<Name(f[2]), mods>>, <<>>))
    IN  Flatten([k \in DOMAIN s[2] |-> MeansStmt(<<"Import", << << <<s[2][k]>>, "">> >> >>)]) \o
        Set1(Name("_fly_ob"), CallOn("_fly_sb_module_globals", "get",
                                     <<Raw("'__builtins__'"), Name("_fly_builtins")>>)) \o
        Set1(Name("__builtins__"), Call("_FlyOnly", <<mods>>, <<>>)) \o
        Flatten([k \in DOMAIN s[3] |-> MeansStmt(s[3][k]) \o Patched(s[3][k])]) \o
        Set1(Name("__builtins__"), Name("_fly_ob"))

\* seal: attributes are set and deleted only while __init__ runs.
SealedMethod(m, args) ==
    LET names == [k \in DOMAIN args |-> Name(args[k])]
        initializing == CallOn("_fly_sb_builtins", "getattr",
                               <<Name("self"), Raw("'_fly_seal_initializing'"), Name("False")>>)
    IN  MeansDef(m, [k \in DOMAIN args |-> <<"", args[k], Nothing, Nothing>>], Nothing,
          << <<"If", initializing, << <<"Expr", CallOn("object", m, names)>> >>, <<>>,
               << <<"Raise", Call("AttributeError", <<Raw("'seal'")>>, <<>>), Nothing>> >> >> >>, <<>>)
MeansSealed(ss) ==
    LET Flag(v) == << <<"Expr", CallOn("object", "__setattr__",
                                  <<Name("self"), Raw("'_fly_seal_initializing'"), Name(v)>>)>> >>
        Sealed(f) ==
            IF f[1] # "Def" \/ f[2] # "__init__" THEN MeansBody(<<f>>)
            ELSE <<MeansDef(f[2], f[3], f[4], Flag("True") \o MeansBody(f[5]) \o Flag("False"), f[6])>>
    IN  Flatten([k \in DOMAIN ss |-> Sealed(ss[k])]) \o
        <<SealedMethod("__setattr__", <<"self", "name", "value">>),
          SealedMethod("__delattr__", <<"self", "name">>)>>

MeansStmt(s) ==
    CASE s[1] = "Expr"   -> MeansExprStmt(s[2])
      [] s[1] = "Assign" -> IF s[3] # "=" THEN MeansAug(s)
                            ELSE << <<"Assign", MeansAll(s[2]), "=", Means(s[4])>> >>
      [] s[1] = "Lock"   -> IF s[3] = Nothing THEN <<>> ELSE Set1(Name(s[2]), Means(s[3]))
      [] s[1] \in {"Safe", "Mask"} -> <<>>
      [] s[1] = "Guard"  -> MeansGuard(s)
      [] s[1] = "Cage"   -> Flatten([k \in DOMAIN s[4] |-> MeansCaged(s, s[4][k])])
      [] s[1] = "Import" ->
            Flatten([k \in DOMAIN s[2] |->
                Set1(Name(IF s[2][k][2] = "" THEN s[2][k][1][1] ELSE s[2][k][2]),
                     Call("_fly_sb_import", <<StrOf(s[2][k][1])>>, <<>>))])
      [] s[1] = "FromImport" -> MeansFrom(s)
      [] s[1] = "Only"   -> MeansOnly(s)
      [] s[1] = "Trace"  ->
            Flatten([k \in DOMAIN s[3] |->
                IF s[3][k][1] = "Def" THEN MeansTraced(s[2], s[3][k]) ELSE MeansStmt(s[3][k])])
      [] s[1] = "Def"    -> <<MeansDef(s[2], s[3], s[4], MeansBody(s[5]), s[6])>>
      [] s[1] = "Class"  ->
            << <<"Class", s[2], MeansAll(s[3]), IF s[6] THEN MeansSealed(s[4]) ELSE MeansBody(s[4]),
                 MeansDecorators(s[5])>> >>
      [] s[1] = "If" ->
            << <<"If", Means(s[2]), MeansBody(s[3]),
                 [k \in DOMAIN s[4] |-> <<Means(s[4][k][1]), MeansBody(s[4][k][2])>>], MeansBody(s[5])>> >>
      [] s[1] = "For"    -> << <<"For", Means(s[2]), Means(s[3]), MeansBody(s[4]), MeansBody(s[5])>> >>
      [] s[1] = "While"  -> << <<"While", Means(s[2]), MeansBody(s[3]), MeansBody(s[4])>> >>
      [] s[1] = "Return" -> << <<"Return", MeansOpt(s[2])>> >>
      [] s[1] = "Raise"  -> << <<"Raise", MeansOpt(s[2]), MeansOpt(s[3])>> >>
      [] s[1] = "Try" ->
            << <<"Try", MeansBody(s[2]),
                 [k \in DOMAIN s[3] |-> <<MeansOpt(s[3][k][1]), s[3][k][2], MeansBody(s[3][k][3])>>],
                 MeansBody(s[4]), MeansBody(s[5])>> >>
      [] s[1] = "Delete" -> << <<"Delete", Flatten([k \in DOMAIN s[2] |-> DelParts(s[2][k])])>> >>
      [] OTHER -> <<s>>

-----------------------------------------------------------------------------
(* The tokens of the lines <<indent, tokens>>, as a lexer delivers them.   *)
Repeat(t, n) == [k \in 1..n |-> t]
RECURSIVE Layout(_, _)
\* open: the widths of the open blocks, the innermost first.
Layout(lines, open) ==
    IF lines = <<>> THEN Repeat("DEDENT", Len(open) - 1)
    ELSE LET w    == lines[1][1]
             rest == SelectSeq(open, LAMBDA x : x <= w)
         IN  IF w > open[1]
             THEN <<"INDENT">> \o lines[1][2] \o <<"NL">> \o Layout(Tail(lines), <<w>> \o open)
             ELSE Repeat("DEDENT", Len(open) - Len(rest)) \o lines[1][2] \o <<"NL">> \o
                  Layout(Tail(lines), rest)
ReadBack(lines) == parse(Layout(lines, <<0>>))
=============================================================================
