------------------------------- MODULE Parser -------------------------------
(***************************************************************************)
(* The recursive-descent parser of src/src/parser.rs: from the tokens the  *)
(* lexer delivers to the syntax tree of src/src/ast.rs.                    *)
(*                                                                         *)
(* A token is its text; NL, INDENT, DEDENT and EOF are the layout tokens.  *)
(* A tree node is a tuple that starts with its variant; positions are left *)
(* out.  The parser is a record: ts the tokens, i the index of the current *)
(* one (self.tok), err the first error reported ("" while there is none),  *)
(* e what the last function returned.  Every function of the source is an  *)
(* operator from a parser to a parser.  An error does not stop a function: *)
(* it goes on with the tokens that follow, as the source does, and the     *)
(* loops over statements stop.                                             *)
(***************************************************************************)
EXTENDS Naturals, Sequences, FiniteSets

CONSTANTS
    Idents,     \* identifiers
    Numbers,    \* integer literals
    Floats,     \* float literals
    Strings,    \* string literals
    TimeSpecs,  \* the string literals parse_time_spec accepts
    MemSpecs    \* the string literals parse_mem_spec accepts

Nothing == <<"None">>          \* Option::None
Blank   == <<"Name", "">>      \* what parse_atom returns after an error

Tok(p)  == IF p.i > Len(p.ts) THEN "EOF" ELSE p.ts[p.i]
peek(p) == IF p.i >= Len(p.ts) THEN "EOF" ELSE p.ts[p.i + 1]

\* The lexer delivers Eof for ever, so the index stays behind the last token.
next(p) == [p EXCEPT !.i = IF @ > Len(p.ts) THEN @ ELSE @ + 1]

\* The parser p having returned e.
Ret(p, e) == [p EXCEPT !.e = e]

\* Only the first error is kept.
errorf(p, code) == IF p.err = "" THEN [p EXCEPT !.err = code] ELSE p

\* The token when it is the expected one; otherwise an error and a token
\* with an empty text, and nothing is consumed.
expect(p, t) == IF Tok(p) = t THEN Ret(next(p), t) ELSE Ret(errorf(p, "token expected"), "")
expectIdent(p) ==
    IF Tok(p) \in Idents THEN Ret(next(p), Tok(p)) ELSE Ret(errorf(p, "token expected"), "")

at_end(p) == Tok(p) \in {"NL", "EOF", ";"}

RECURSIVE SkipSemicolons(_)
SkipSemicolons(p) == IF Tok(p) = ";" THEN SkipSemicolons(next(p)) ELSE p

stmt_end(p) ==
    LET q == SkipSemicolons(p) IN
    IF Tok(q) = "NL" THEN next(q)
    ELSE IF Tok(q) = "EOF" THEN q
    ELSE errorf(q, "end of statement expected")

AugAssignOps == {"+=", "-=", "*=", "/=", "%=", "**=", "//=", "<<=", ">>=", "&=", "|=", "^="}
CompareOps   == {"<", ">", "<=", ">=", "==", "!=", "in", "is", "not"}

\* The binary operators from the loosest level to the tightest.
BinaryOps == << {"|"}, {"^"}, {"&"}, {"<<", ">>"}, {"+", "-"}, {"*", "/", "//", "%"} >>

RECURSIVE check_target(_)
check_target(e) ==
    \/ e[1] \in {"Name", "Attr", "Subscript"}
    \/ e[1] \in {"Tuple", "List"} /\ \A k \in DOMAIN e[2] : check_target(e[2][k])
    \/ e[1] = "Unary" /\ e[2] = "*" /\ e[3][1] = "Name"

\* The functions of the parser call each other through rule, a function that
\* gives for each of them what it makes of the tokens from an index on.
Functions == {"parse_test", "parse_bool", "parse_binary", "parse_factor",
              "parse_test_list", "parse_expr_list", "params", "suite", "statement"}
Resume(p, r) == [p EXCEPT !.i = r.i, !.err = r.err, !.e = r.e]
Apply(f, k, p) == Resume(p, p.rule[f, k, p.i, p.err])
Test(p)      == Apply("parse_test", 0, p)
Bool(k, p)   == Apply("parse_bool", k, p)
Binary(k, p) == Apply("parse_binary", k, p)
Factor(p)    == Apply("parse_factor", 0, p)
TestList(p)  == Apply("parse_test_list", 0, p)
ExprList(p)  == Apply("parse_expr_list", 0, p)
Parameters(p) == Apply("params", 0, p)
Suite(p)     == Apply("suite", 0, p)
Statement(p) == Apply("statement", 0, p)

-----------------------------------------------------------------------------
(* Expressions.                                                            *)

RECURSIVE BoolRest(_, _), parse_not_test(_), parse_factor(_), CompareRest(_, _, _), BinaryRest(_, _),
          TrailerRest(_), call_args(_, _), MoreTests(_, _, _), ListItems(_, _, _),
          CompClauses(_, _), CompIfs(_, _), DictItems(_, _, _), StringParts(_, _), SkipToBrace(_)

\* The operators of a level k and of the tighter ones: left-associative, one
\* level each from parse_bit_or, parse_bit_xor, parse_bit_and, parse_shift
\* and parse_arith to parse_term.
BinaryRest(k, x) ==
    IF \A j \in k..Len(BinaryOps) : Tok(x) \notin BinaryOps[j] THEN x
    ELSE LET y == Binary((CHOOSE j \in DOMAIN BinaryOps : Tok(x) \in BinaryOps[j]) + 1, next(x)) IN
         BinaryRest(k, Ret(y, <<"Bin", Tok(x), x.e, y.e>>))
parse_binary(k, p) == BinaryRest(k, parse_factor(p))
parse_expr(p) == Binary(1, p)

\* An operator of one or two tokens; e is its text.
comp_op(p) ==
    LET q == next(p) IN
    CASE Tok(p) = "is" /\ Tok(q) = "not" -> Ret(next(q), "is not")
      [] Tok(p) = "not"                  -> Ret(expect(q, "in"), "not in")
      [] OTHER                           -> Ret(q, Tok(p))

CompareRest(p, ops, ys) ==
    IF Tok(p) \notin CompareOps THEN Ret(p, <<ops, ys>>)
    ELSE LET o == comp_op(p)
             y == Binary(1, o)
         IN  CompareRest(y, Append(ops, o.e), Append(ys, y.e))

Comparison(x) ==
    IF Tok(x) \notin CompareOps THEN x
    ELSE LET r == CompareRest(x, <<>>, <<>>) IN
         Ret(r, <<"Compare", x.e, r.e[1], r.e[2]>>)
parse_comparison(p) == Comparison(parse_binary(1, p))

parse_not_test(p) ==
    IF Tok(p) # "not" THEN parse_comparison(p)
    ELSE LET x == parse_not_test(next(p)) IN Ret(x, <<"Unary", "not", x.e>>)

\* parse_or_test is level 1 and parse_and_test level 2: the operators of
\* level k and above are read into the operand on their left.
BoolRest(k, x) ==
    LET j == IF Tok(x) = "or" THEN 1 ELSE 2 IN
    IF Tok(x) \notin {"or", "and"} \/ j < k THEN x
    ELSE LET y == Bool(j + 1, next(x)) IN
         BoolRest(k, Ret(y, <<"Bool", Tok(x), x.e, y.e>>))
parse_bool(k, p) == BoolRest(k, parse_not_test(p))

Conditional(x) ==
    IF Tok(x) # "if" THEN x
    ELSE LET c == Bool(1, next(x))
             y == Test(expect(c, "else"))
         IN  Ret(y, <<"Cond", c.e, x.e, y.e>>)
parse_test(p) == Conditional(parse_bool(1, p))

\* parse_test_list and parse_expr_list: one item, or a tuple without
\* parentheses when a comma follows; a trailing comma ends it.
StopTokens(kind) ==
    {"NL", "EOF", ";", ":"} \cup (IF kind = "test" THEN {")", "]", "}"} ELSE {})
Plain(kind, p) == IF kind = "test" THEN Test(p) ELSE parse_expr(p)
Item(kind, p) ==
    IF Tok(p) # "*" THEN Plain(kind, p)
    ELSE LET x == Plain(kind, next(p)) IN Ret(x, <<"Unary", "*", x.e>>)
ListItems(kind, p, acc) ==
    IF Tok(p) # "," THEN Ret(p, acc)
    ELSE LET q == next(p) IN
         IF Tok(q) \in StopTokens(kind) THEN Ret(q, acc)
         ELSE LET x == Item(kind, q) IN ListItems(kind, x, Append(acc, x.e))
parse_list(kind, p) ==
    LET x == Item(kind, p) IN
    IF Tok(x) # "," THEN x
    ELSE LET r == ListItems(kind, x, <<x.e>>) IN Ret(r, <<"Tuple", r.e, FALSE>>)
parse_test_list(p) == parse_list("test", p)
parse_expr_list(p) == parse_list("expr", p)

\* parse_test { "," parse_test }, where a comma before close is dropped.
MoreTests(p, acc, close) ==
    IF Tok(p) # "," THEN Ret(p, acc)
    ELSE LET q == next(p) IN
         IF Tok(q) = close THEN Ret(q, acc)
         ELSE LET x == Test(q) IN MoreTests(x, Append(acc, x.e), close)

StringParts(p, acc) ==
    IF Tok(p) \in Strings THEN StringParts(next(p), Append(acc, Tok(p))) ELSE Ret(p, acc)

\* [ for target in iter { if cond } ]
CompIfs(p, acc) ==
    IF Tok(p) # "if" THEN Ret(p, acc)
    ELSE LET c == Bool(1, next(p)) IN CompIfs(c, Append(acc, c.e))
CompClauses(p, acc) ==
    IF Tok(p) # "for" THEN Ret(p, acc)
    ELSE LET t    == ExprList(next(p))
             iter == Bool(1, expect(t, "in"))
             ifs  == CompIfs(iter, <<>>)
         IN  CompClauses(ifs, Append(acc, <<t.e, iter.e, ifs.e>>))

list_atom(p) ==
    LET q == next(p) IN
    IF Tok(q) = "]" THEN Ret(next(q), <<"List", <<>>>>)
    ELSE LET x == Test(q) IN
         IF Tok(x) = "for"
         THEN LET c == CompClauses(x, <<>>) IN
              Ret(expect(c, "]"), <<"ListComp", x.e, c.e>>)
         ELSE LET r == MoreTests(x, <<x.e>>, "]") IN
              Ret(expect(r, "]"), <<"List", r.e>>)

SkipToBrace(p) == IF Tok(p) \in {"}", "EOF"} THEN p ELSE SkipToBrace(next(p))

DictItems(p, ks, vs) ==
    IF Tok(p) # "," THEN Ret(p, <<ks, vs>>)
    ELSE LET q == next(p) IN
         IF Tok(q) = "}" THEN Ret(q, <<ks, vs>>)
         ELSE LET k == Test(q)
                  v == Test(expect(k, ":"))
              IN  DictItems(v, Append(ks, k.e), Append(vs, v.e))

dict_set_atom(p) ==
    LET q == next(p) IN
    CASE Tok(q) = "}"  -> Ret(next(q), <<"Dict", <<>>, <<>>>>)
      [] Tok(q) = "**" ->
            Ret(expect(Test(next(errorf(q, "dict unpacking"))), "}"), <<"Dict", <<>>, <<>>>>)
      [] OTHER ->
            LET x == Test(q) IN
            CASE Tok(x) = "for" ->
                    Ret(expect(SkipToBrace(errorf(x, "comprehension")), "}"), <<"Set", <<x.e>>>>)
              [] Tok(x) = ":" ->
                    LET v == Test(next(x))
                        r == DictItems(v, <<x.e>>, <<v.e>>)
                    IN  Ret(expect(r, "}"), <<"Dict", r.e[1], r.e[2]>>)
              [] OTHER ->
                    LET r == MoreTests(x, <<x.e>>, "}") IN Ret(expect(r, "}"), <<"Set", r.e>>)

paren_atom(p) ==
    LET q == next(p)
        x == TestList(q)
        e == IF Tok(q) = ")" THEN <<"Tuple", <<>>, TRUE>>
             ELSE IF x.e[1] = "Tuple" THEN <<"Tuple", x.e[2], TRUE>>
             ELSE x.e
    IN  Ret(expect(IF Tok(q) = ")" THEN q ELSE x, ")"), e)

parse_atom(p) ==
    CASE Tok(p) \in Idents \cup {"None", "True", "False"} -> Ret(next(p), <<"Name", Tok(p)>>)
      [] Tok(p) \in Numbers \cup Floats \cup {"..."} -> Ret(next(p), <<"Lit", Tok(p)>>)
      [] Tok(p) \in Strings ->
            LET r == StringParts(p, <<>>) IN Ret(r, <<"Str", r.e>>)
      [] Tok(p) = "(" -> paren_atom(p)
      [] Tok(p) = "[" -> list_atom(p)
      [] Tok(p) = "{" -> dict_set_atom(p)
      [] OTHER -> Ret(errorf(p, "expression expected"), Blank)

\* c is the tuple <<args, kwargs, star, dbl_star>> read so far; a later *
\* or ** argument takes the place of an earlier one.
call_args(p, c) ==
    LET More(q, d) == IF Tok(q) = "," THEN call_args(next(q), d) ELSE Ret(q, d)
        x == Test(p)
    IN
    CASE Tok(p) = ")"  -> Ret(p, c)
      [] Tok(p) = "*"  -> LET s == Test(next(p)) IN More(s, [c EXCEPT ![3] = s.e])
      [] Tok(p) = "**" -> LET s == Test(next(p)) IN More(s, [c EXCEPT ![4] = s.e])
      [] OTHER ->
            CASE Tok(x) = "=" /\ x.e[1] = "Name" ->
                    LET v == Test(next(x)) IN
                    More(v, [c EXCEPT ![2] = Append(@, <<x.e[2], v.e>>)])
              [] Tok(x) = "=" /\ x.e[1] # "Name" -> call_args(next(errorf(x, "keyword name")), c)
              [] OTHER -> More(x, [c EXCEPT ![1] = Append(@, x.e)])

\* A slice lo:hi:step, a tuple, or one expression; nothing at all is a blank.
OptTest(p, stops) == IF Tok(p) \in stops THEN Ret(p, Nothing) ELSE Test(p)
SliceParts(p, lo) ==
    LET hi   == OptTest(next(p), {":", "]", ","})
        step == IF Tok(hi) = ":" THEN OptTest(next(hi), {"]", ","}) ELSE Ret(hi, Nothing)
    IN  Ret(step, <<"Slice", lo, hi.e, step.e>>)
parse_subscript_index(p) ==
    LET lo == OptTest(p, {":", "]", ","}) IN
    CASE Tok(lo) = ":" -> SliceParts(lo, lo.e)
      [] Tok(lo) = "," ->
            LET r == MoreTests(lo, IF lo.e = Nothing THEN <<>> ELSE <<lo.e>>, "]") IN
            Ret(r, <<"Tuple", r.e, FALSE>>)
      [] OTHER -> Ret(lo, IF lo.e = Nothing THEN Blank ELSE lo.e)

Called(x, c)  == Ret(expect(c, ")"), <<"Call", x.e, c.e>>)
Indexed(x, k) == Ret(expect(k, "]"), <<"Subscript", x.e, k.e>>)
Member(x, n)  == Ret(n, <<"Attr", x.e, n.e>>)
TrailerRest(x) ==
    CASE Tok(x) = "(" -> TrailerRest(Called(x, call_args(next(x), <<<<>>, <<>>, Nothing, Nothing>>)))
      [] Tok(x) = "[" -> TrailerRest(Indexed(x, parse_subscript_index(next(x))))
      [] Tok(x) = "." -> TrailerRest(Member(x, expectIdent(next(x))))
      [] OTHER -> x
parse_atom_expr(p) == TrailerRest(parse_atom(p))

\* The exponent is a factor, so ** is right-associative and binds tighter
\* than a sign on its left.
Power(x) ==
    IF Tok(x) # "**" THEN x
    ELSE LET y == Factor(next(x)) IN Ret(y, <<"Bin", "**", x.e, y.e>>)
parse_power(p) == Power(parse_atom_expr(p))
parse_factor(p) ==
    IF Tok(p) \notin {"+", "-", "~"} THEN parse_power(p)
    ELSE LET x == Factor(next(p)) IN Ret(x, <<"Unary", Tok(p), x.e>>)
-----------------------------------------------------------------------------
(* Statements.  A function that returns no statement returns Nothing.      *)

RECURSIVE Block(_, _), InlineSuite(_, _), SimpleStmts(_, _),
          Targets(_, _, _), Params(_, _), OnlyModules(_, _), TraceArgs(_, _), CageArgs(_, _),
          Elifs(_, _), Handlers(_, _), ImportItems(_, _), FromItems(_, _), DottedRest(_, _),
          Dots(_, _), Decorators(_, _), DelTargets(_, _), TaintNames(_, _)

Push(acc, s) == IF s = Nothing THEN acc ELSE Append(acc, s)

\* A chain of targets; the operator of a chain is =.
Targets(r, left, op) ==
    IF Tok(r) = "="
    THEN LET q == IF check_target(r.e) THEN r ELSE errorf(r, "assignment target") IN
         Targets(TestList(next(q)), Append(left, r.e), "=")
    ELSE Ret(IF check_target(left[1]) THEN r ELSE errorf(r, "assignment target"),
             <<"Assign", left, op, r.e>>)

\* The statements of a line; the first one is returned.
SimpleStmts(p, first) ==
    LET x == TestList(p)
        s == IF Tok(x) \in AugAssignOps \cup {"="}
             THEN Targets(TestList(next(x)), <<x.e>>, Tok(x))
             ELSE Ret(x, <<"Expr", x.e>>)
        f == IF first = Nothing THEN s.e ELSE first
        q == next(s)
    IN
    CASE x.e = Blank   -> Ret(x, Nothing)
      [] x.e # Blank /\ Tok(s) # ";" -> Ret(stmt_end(s), f)
      [] x.e # Blank /\ Tok(s) = ";" /\ at_end(q)  -> Ret(stmt_end(q), f)
      [] x.e # Blank /\ Tok(s) = ";" /\ ~at_end(q) -> SimpleStmts(q, f)
simple_stmt(p) == SimpleStmts(p, Nothing)

Block(p, acc) ==
    IF Tok(p) \in {"DEDENT", "EOF"} \/ p.err # "" THEN Ret(p, acc)
    ELSE LET s == Statement(p) IN Block(s, Push(acc, s.e))
InlineSuite(p, acc) ==
    LET s == simple_stmt(p)
        q == next(s)
    IN  IF Tok(s) # ";" THEN Ret(s, Push(acc, s.e))
        ELSE IF at_end(q) THEN Ret(q, Push(acc, s.e))
        ELSE InlineSuite(q, Push(acc, s.e))
suite(p) ==
    LET c == expect(p, ":")
        b == Block(expect(next(c), "INDENT"), <<>>)
    IN  IF Tok(c) = "NL" THEN Ret(expect(b, "DEDENT"), b.e) ELSE InlineSuite(c, <<>>)

\* An optional clause that starts with keyword k: its suite, or no statements.
OptSuite(p, k) == IF Tok(p) = k THEN Suite(next(p)) ELSE Ret(p, <<>>)

\* name { : annotation } { = default } after an optional * or **.
Params(p, acc) ==
    LET n == CASE Tok(p) = "*" /\ peek(p) \notin Idents -> Ret(next(p), "")
               [] Tok(p) = "*" /\ peek(p) \in Idents    -> expectIdent(next(p))
               [] Tok(p) = "**"                          -> expectIdent(next(p))
               [] OTHER                                  -> expectIdent(p)
        a == IF Tok(n) = ":" THEN Test(next(n)) ELSE Ret(n, Nothing)
        d == IF Tok(a) = "=" THEN Test(next(a)) ELSE Ret(a, Nothing)
        m == <<IF Tok(p) \in {"*", "**"} THEN Tok(p) ELSE "", n.e, a.e, d.e>>
    IN  IF Tok(d) = "," /\ Tok(next(d)) # ")" THEN Params(next(d), Append(acc, m))
        ELSE Ret(IF Tok(d) = "," THEN next(d) ELSE d, Append(acc, m))
params(p) == IF Tok(p) = ")" THEN Ret(p, <<>>) ELSE Params(p, <<>>)

func_def(p, decs) ==
    LET n == expectIdent(next(p))
        m == Parameters(expect(n, "("))
        q == expect(m, ")")
        r == IF Tok(q) = "->" THEN Test(next(q)) ELSE Ret(q, Nothing)
        b == Suite(r)
    IN  Ret(b, <<"Def", n.e, m.e, r.e, b.e, decs>>)

class_def(p, decs, seal) ==
    LET n     == expectIdent(next(p))
        first == Test(next(n))
        bases == CASE Tok(n) # "(" -> Ret(n, <<>>)
                   [] Tok(n) = "(" /\ peek(n) = ")" -> Ret(expect(next(n), ")"), <<>>)
                   [] OTHER -> LET r == MoreTests(first, <<first.e>>, "") IN
                               Ret(expect(r, ")"), r.e)
        b     == Suite(bases)
    IN  Ret(b, <<"Class", n.e, bases.e, b.e, decs, seal>>)

seal_stmt(p) ==
    LET q == next(p) IN
    IF Tok(q) = "class" THEN class_def(q, <<>>, TRUE)
    ELSE Ret(errorf(q, "seal without class"), Nothing)

\* Decorators, each on a line of its own, then a function or a class.
Decorators(p, acc) ==
    LET d == TestList(next(p)) IN
    IF Tok(p) # "@" THEN Ret(p, acc)
    ELSE IF Tok(d) = "NL" THEN Decorators(next(d), Append(acc, d.e))
    ELSE Ret(stmt_end(d), Append(acc, d.e))
decorated_stmt(p) ==
    LET d == Decorators(p, <<>>) IN
    CASE Tok(d) = "def"   -> func_def(d, d.e)
      [] Tok(d) = "class" -> class_def(d, d.e, FALSE)
      [] OTHER -> Ret(errorf(d, "decorator without def"), Nothing)

\* Faulty variant of Elifs: a branch takes the place of the one before.
ElifsLast(p, acc) ==
    IF Tok(p) # "elif" THEN Ret(p, acc)
    ELSE LET c == TestList(next(p))
             b == Suite(c)
         IN  Elifs(b, << <<c.e, b.e>> >>)
Elifs(p, acc) ==
    IF Tok(p) # "elif" THEN Ret(p, acc)
    ELSE LET c == TestList(next(p))
             b == Suite(c)
         IN  Elifs(b, Append(acc, <<c.e, b.e>>))
if_stmt(p) ==
    LET c  == TestList(next(p))
        b  == Suite(c)
        es == Elifs(b, <<>>)
        el == OptSuite(es, "else")
    IN  Ret(el, <<"If", c.e, b.e, es.e, el.e>>)

for_stmt(p) ==
    LET t  == ExprList(next(p))
        x  == TestList(expect(t, "in"))
        b  == Suite(x)
        el == OptSuite(b, "else")
    IN  Ret(el, <<"For", t.e, x.e, b.e, el.e>>)

while_stmt(p) ==
    LET c  == TestList(next(p))
        b  == Suite(c)
        el == OptSuite(b, "else")
    IN  Ret(el, <<"While", c.e, b.e, el.e>>)

Handlers(p, acc) ==
    LET q == next(p)
        t == IF Tok(q) = ":" THEN Ret(q, Nothing) ELSE Test(q)
        n == IF Tok(q) # ":" /\ Tok(t) = "as" THEN expectIdent(next(t)) ELSE Ret(t, "")
        b == Suite(n)
    IN  IF Tok(p) = "except" THEN Handlers(b, Append(acc, <<t.e, n.e, b.e>>)) ELSE Ret(p, acc)
try_stmt(p) ==
    LET b  == Suite(next(p))
        hs == Handlers(b, <<>>)
        el == OptSuite(hs, "else")
        fi == OptSuite(el, "finally")
    IN  Ret(fi, <<"Try", b.e, hs.e, el.e, fi.e>>)
DottedRest(p, acc) ==
    IF Tok(p) # "." THEN Ret(p, acc)
    ELSE LET n == expectIdent(next(p)) IN DottedRest(n, Append(acc, n.e))
dotted_name(p) == LET n == expectIdent(p) IN DottedRest(n, <<n.e>>)

\* { as alias }
Alias(p) == IF Tok(p) = "as" THEN expectIdent(next(p)) ELSE Ret(p, "")

ImportItems(p, acc) ==
    LET n   == dotted_name(p)
        a   == Alias(n)
        new == Append(acc, <<n.e, a.e>>)
    IN  IF Tok(a) = "," THEN ImportItems(next(a), new) ELSE Ret(stmt_end(a), new)
import_stmt(p) == LET r == ImportItems(next(p), <<>>) IN Ret(r, <<"Import", r.e>>)

Dots(p, acc) == IF Tok(p) = "." THEN Dots(next(p), Append(acc, ".")) ELSE Ret(p, acc)
FromItems(p, acc) ==
    LET n   == expectIdent(p)
        a   == Alias(n)
        new == Append(acc, <<<<n.e>>, a.e>>)
    IN  IF Tok(p) = "*" THEN Ret(stmt_end(next(p)), Append(acc, <<<<"*">>, "">>))
        ELSE IF Tok(a) = "," THEN FromItems(next(a), new)
        ELSE Ret(stmt_end(a), new)
\* The module is the dots of a relative import and the parts of its name.
from_import_stmt(p) ==
    LET q == Dots(next(p), <<>>)
        m == IF Tok(q) \in Idents THEN dotted_name(q) ELSE Ret(q, <<>>)
        r == FromItems(expect(m, "import"), <<>>)
    IN  Ret(r, <<"FromImport", q.e \o m.e, r.e>>)

lock_stmt(p) ==
    LET q == next(p)
        n == IF Tok(q) \in Idents THEN Ret(next(q), Tok(q)) ELSE Ret(q, "")
        v == IF Tok(n) = "=" THEN TestList(next(n)) ELSE Ret(n, Nothing)
        c == IF n.e = "" THEN errorf(v, "lock without a name") ELSE v
    IN  Ret(stmt_end(c), <<"Lock", n.e, v.e>>)

TaintNames(p, acc) ==
    LET n == expectIdent(p) IN
    IF Tok(n) = "," THEN TaintNames(next(n), Append(acc, n.e))
    ELSE Ret(stmt_end(n), Append(acc, n.e))
taint_decl_stmt(p, variant) ==
    LET r == TaintNames(next(p), <<>>) IN Ret(r, <<variant, r.e>>)

\* guard name: type, cond, ... when a colon follows a name, guard cond, ...
\* otherwise.
guard_stmt(p) ==
    LET q == next(p)
        t == Test(next(next(q)))
        c == MoreTests(t, <<>>, "")
        x == TestList(q)
    IN  IF Tok(q) \in Idents /\ peek(q) = ":"
        THEN Ret(stmt_end(c), <<"Guard", Tok(q), t.e, c.e>>)
        ELSE Ret(stmt_end(x),
                 <<"Guard", "", Nothing, IF x.e[1] = "Tuple" THEN x.e[2] ELSE <<x.e>> >>)

OnlyModules(p, acc) ==
    LET n == expectIdent(p) IN
    IF Tok(p) = ")" THEN Ret(p, acc)
    ELSE IF Tok(n) = "," THEN OnlyModules(next(n), Append(acc, n.e))
    ELSE Ret(n, Append(acc, n.e))
only_stmt(p) ==
    LET m == OnlyModules(expect(next(p), "("), <<>>)
        b == Suite(expect(m, ")"))
    IN  Ret(b, <<"Only", m.e, b.e>>)

\* trace(level="...", args=..., ret=...): an unknown name or a value of the
\* wrong kind is an error and no statement is returned.
TraceArgs(p, c) ==
    LET n       == expectIdent(p)
        v       == expect(n, "=")
        flag    == Tok(v) \in {"True", "False"}
        More(d) == IF peek(v) = "," THEN TraceArgs(next(next(v)), d) ELSE Ret(next(v), d)
    IN  CASE Tok(p) = ")" -> Ret(p, c)
          [] Tok(p) # ")" /\ n.e = "level" /\ Tok(v) \in Strings -> More([c EXCEPT ![1] = Tok(v)])
          [] Tok(p) # ")" /\ n.e = "args" /\ flag -> More([c EXCEPT ![2] = Tok(v) = "True"])
          [] Tok(p) # ")" /\ n.e = "ret" /\ flag  -> More([c EXCEPT ![3] = Tok(v) = "True"])
          [] OTHER -> Ret(errorf(v, "trace argument"), Nothing)
trace_stmt(p) ==
    LET a == TraceArgs(expect(next(p), "("), <<"WARNING", TRUE, TRUE>>)
        b == Suite(expect(a, ")"))
    IN  IF a.e = Nothing THEN a ELSE Ret(b, <<"Trace", a.e, b.e>>)

\* cage(max_time="...", max_memory="..."): at least one of the two.
CageArgs(p, c) ==
    LET n       == expectIdent(p)
        v       == expect(n, "=")
        More(d) == IF peek(v) = "," THEN CageArgs(next(next(v)), d) ELSE Ret(next(v), d)
    IN  CASE Tok(p) = ")" -> Ret(p, c)
          [] Tok(p) # ")" /\ n.e = "max_time" /\ Tok(v) \in TimeSpecs  -> More([c EXCEPT ![1] = Tok(v)])
          [] Tok(p) # ")" /\ n.e = "max_memory" /\ Tok(v) \in MemSpecs -> More([c EXCEPT ![2] = Tok(v)])
          [] OTHER -> Ret(errorf(v, "cage argument"), Nothing)
cage_stmt(p) ==
    LET a == CageArgs(expect(next(p), "("), <<"", "">>)
        q == expect(a, ")")
        b == Suite(q)
    IN  CASE a.e = Nothing    -> a
          [] a.e = <<"", "">> -> Ret(errorf(q, "cage without a limit"), Nothing)
          [] OTHER            -> Ret(b, <<"Cage", a.e[1], a.e[2], b.e>>)

return_stmt(p) ==
    LET q == next(p)
        v == IF at_end(q) THEN Ret(q, Nothing) ELSE TestList(q)
    IN  Ret(stmt_end(v), <<"Return", v.e>>)
raise_stmt(p) ==
    LET q == next(p)
        x == IF at_end(q) THEN Ret(q, Nothing) ELSE TestList(q)
        f == IF Tok(x) = "from" THEN TestList(next(x)) ELSE Ret(x, Nothing)
    IN  Ret(stmt_end(f), <<"Raise", x.e, f.e>>)
DelTargets(p, acc) ==
    LET x == TestList(p) IN
    IF Tok(x) = "," THEN DelTargets(next(x), Append(acc, x.e))
    ELSE Ret(stmt_end(x), Append(acc, x.e))

Unsupported == {"assert", "with", "yield", "global", "nonlocal", "lambda", "async", "await"}

statement(p) ==
    CASE Tok(p) = "NL"     -> Ret(next(p), Nothing)
      [] Tok(p) = ";"      -> Ret(SkipSemicolons(p), Nothing)
      [] Tok(p) = "def"    -> func_def(p, <<>>)
      [] Tok(p) = "class"  -> class_def(p, <<>>, FALSE)
      [] Tok(p) = "if"     -> if_stmt(p)
      [] Tok(p) = "for"    -> for_stmt(p)
      [] Tok(p) = "while"  -> while_stmt(p)
      [] Tok(p) = "return" -> return_stmt(p)
      [] Tok(p) = "raise"  -> raise_stmt(p)
      [] Tok(p) = "try"    -> try_stmt(p)
      [] Tok(p) \in {"pass", "break", "continue"} -> Ret(stmt_end(next(p)), <<"Jump", Tok(p)>>)
      [] Tok(p) = "del"    -> LET d == DelTargets(next(p), <<>>) IN Ret(d, <<"Delete", d.e>>)
      [] Tok(p) = "import" -> import_stmt(p)
      [] Tok(p) = "from"   -> from_import_stmt(p)
      [] Tok(p) = "@"      -> decorated_stmt(p)
      [] Tok(p) \in Unsupported -> Ret(errorf(p, "unsupported keyword"), Nothing)
      [] Tok(p) = "lock"   -> lock_stmt(p)
      [] Tok(p) = "guard"  -> guard_stmt(p)
      [] Tok(p) = "safe"   -> taint_decl_stmt(p, "Safe")
      [] Tok(p) = "mask"   -> taint_decl_stmt(p, "Mask")
      [] Tok(p) = "only"   -> only_stmt(p)
      [] Tok(p) = "seal"   -> seal_stmt(p)
      [] Tok(p) = "trace"  -> trace_stmt(p)
      [] Tok(p) = "cage"   -> cage_stmt(p)
      [] OTHER             -> simple_stmt(p)

RECURSIVE parse_module(_, _)
parse_module(p, acc) ==
    IF Tok(p) = "EOF" \/ p.err # "" THEN Ret(p, acc)
    ELSE LET s == Statement(p) IN parse_module(s, Push(acc, s.e))

\* The parser at the start of tokens ts.
new(ts, rule) == [ts |-> ts, i |-> 1, err |-> "", e |-> Nothing, rule |-> rule]

\* What function f makes of parser p, without the parser's constant parts.
Applied(f, k, p) ==
    CASE f = "parse_test"      -> parse_test(p)
      [] f = "parse_bool"      -> parse_bool(k, p)
      [] f = "parse_binary"    -> parse_binary(k, p)
      [] f = "parse_factor"    -> parse_factor(p)
      [] f = "parse_test_list" -> parse_test_list(p)
      [] f = "parse_expr_list" -> parse_expr_list(p)
      [] f = "params"          -> params(p)
      [] f = "suite"           -> suite(p)
      [] f = "statement"       -> statement(p)
Result(p) == [i |-> p.i, err |-> p.err, e |-> p.e]

parse(ts) ==
    LET rule[f \in Functions, k \in 0..Len(BinaryOps) + 1, i \in Nat, err \in STRING] ==
            Result(Applied(f, k, [new(ts, rule) EXCEPT !.i = i, !.err = err]))
    IN  parse_module(new(ts, rule), <<>>)
=============================================================================
