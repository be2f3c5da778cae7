------------------------------ MODULE Compiler ------------------------------
(***************************************************************************)
(* fly build: a source file is checked, parsed and translated, and the     *)
(* Python text is written (cmd_build of src/src/main.rs).                  *)
(*                                                                         *)
(* The environment writes the program from the inside out: it starts with  *)
(* a seed and puts it into a context, a text before and a text after it.   *)
(* A program of kind "expr" is an expression, assigned to a name when it   *)
(* is built; one of any other kind is a sequence of statements.            *)
(*                                                                         *)
(* What Python makes of the output is found by parsing it: the part of     *)
(* Python's grammar that the generator writes is the one Parser describes. *)
(***************************************************************************)
EXTENDS Meaning

CONSTANTS
    Seeds,     \* the programs to start from, by kind
    Contexts,  \* the pairs <<before, after>> to put a program into, by kind
    MaxWraps,  \* how many of them, by kind
    FnOrder,   \* the names of the functions, sorted
    Words      \* the names and literals that must not get lost

VARIABLES
    kind,   \* the family of programs the source belongs to
    wraps,  \* how many contexts it has been put into
    src,    \* its tokens
    phase,  \* "edit", then "refused" or "written"
    tree,   \* the statements parse returned
    out     \* what generate returned

vars == <<kind, wraps, src, phase, tree, out>>

Empty == [prelude |-> {}, lines |-> <<>>]

Init ==
    /\ kind \in DOMAIN Seeds
    /\ src \in Seeds[kind]
    /\ wraps = 0
    /\ phase = "edit"
    /\ tree = <<>>
    /\ out = Empty

Wrap ==
    /\ phase = "edit"
    /\ wraps < MaxWraps[kind]
    /\ \E x \in Contexts[kind] : src' = x[1] \o src \o x[2]
    /\ wraps' = wraps + 1
    /\ UNCHANGED <<kind, phase, tree, out>>

Program == IF kind = "expr" THEN <<"v", "=">> \o src \o <<"NL">> ELSE src

\* fly-checkd reports a diagnostic or cannot be reached, or the file cannot
\* be written.
Refuse ==
    /\ phase = "edit"
    /\ phase' = "refused"
    /\ UNCHANGED <<kind, wraps, src, tree, out>>

Built(p) ==
    IF p.err # ""
    THEN phase' = "refused" /\ UNCHANGED <<tree, out>>
    ELSE /\ phase' = "written"
         /\ tree' = p.e
         /\ out' = generate(p.e, FnOrder)
Build ==
    /\ phase = "edit"
    /\ Built(parse(Program))
    /\ UNCHANGED <<kind, wraps, src>>

Next == Wrap \/ Refuse \/ Build
Spec == Init /\ [][Next]_vars

-----------------------------------------------------------------------------
\* The direct subexpressions of an expression, and the expressions and the
\* statements of a statement.
Children(e) ==
    CASE e[1] = "Compare"  -> <<e[2]>> \o e[4]
      [] e[1] = "Call"     -> <<e[2]>> \o e[3][1] \o Parts(e[3][2], 2) \o Opt(e[3][3]) \o Opt(e[3][4])
      [] e[1] = "ListComp" -> CallChildren(e) \o Parts(e[3], 1)
      [] OTHER -> CallChildren(e)
ExprsOf(s) ==
    CASE s[1] = "Guard"  -> Opt(s[3]) \o s[4]
      [] s[1] = "Lock"   -> Opt(s[3])
      [] s[1] = "For"    -> <<s[2], s[3]>>
      [] s[1] = "Raise"  -> Opt(s[2]) \o Opt(s[3])
      [] s[1] = "Delete" -> s[2]
      [] s[1] = "Def"    -> Flatten([k \in DOMAIN s[3] |-> Opt(s[3][k][3]) \o Opt(s[3][k][4])]) \o Opt(s[4]) \o s[6]
      [] s[1] = "Class"  -> s[3] \o s[5]
      [] s[1] = "Try"    -> Flatten([k \in DOMAIN s[3] |-> Opt(s[3][k][1])])
      [] OTHER -> CallExprs(s)
RECURSIVE Exprs(_), Statements(_)
Exprs(es) == UNION {{es[k]} \cup Exprs(Children(es[k])) : k \in DOMAIN es}
Statements(ss) == UNION {{ss[k]} \cup Statements(AllBodies(ss[k])) : k \in DOMAIN ss}

(* Nothing of the source gets lost on the way to the tree.                 *)

\* The names and literals that an expression, and a statement, holds itself.
WordsOfExpr(e) ==
    CASE e[1] \in {"Name", "Lit"} -> <<e[2]>>
      [] e[1] = "Attr"  -> <<e[3]>>
      [] e[1] = "Str"   -> e[2]
      [] e[1] = "Call"  -> Parts(e[3][2], 1)
      [] OTHER          -> <<>>
Imported(items) == Flatten([k \in DOMAIN items |-> Append(items[k][1], items[k][2])])
WordsOfStmt(s) ==
    CASE s[1] = "Def"    -> <<s[2]>> \o Parts(s[3], 2)
      [] s[1] \in {"Class", "Guard", "Lock"} -> <<s[2]>>
      [] s[1] \in {"Safe", "Mask", "Only"}   -> s[2]
      [] s[1] = "Try"    -> Parts(s[3], 2)
      [] s[1] = "Import" -> Imported(s[2])
      [] s[1] = "FromImport" -> s[2] \o Imported(s[3])
      [] OTHER           -> <<>>
RECURSIVE ExprWords(_), TreeWords(_, _)
ExprWords(es) == Flatten([k \in DOMAIN es |-> WordsOfExpr(es[k]) \o ExprWords(Children(es[k]))])
\* The words of the statements ss, each with the depth of its block.
TreeWords(ss, d) ==
    Flatten([k \in DOMAIN ss |->
        LET here == WordsOfStmt(ss[k]) \o ExprWords(ExprsOf(ss[k])) IN
        [j \in DOMAIN here |-> <<here[j], d>>] \o TreeWords(AllBodies(ss[k]), d + 1)])

Tokens(ts) == {ts[k] : k \in DOMAIN ts}
Places(ts, x) == {k \in DOMAIN ts : ts[k] = x}
\* The tokens with the number of blocks that are open there.
Placed(ts) ==
    [k \in DOMAIN ts |-> <<ts[k], Cardinality({j \in Places(ts, "INDENT") : j < k})
                                 - Cardinality({j \in Places(ts, "DEDENT") : j < k})>>]
\* The same without the depths, for a source with a suite on the line of its
\* header, which no layout token shows.
Flat(ws) == [k \in DOMAIN ws |-> <<ws[k][1], 0>>]
OneLine(ts) == \E k \in DOMAIN ts : ts[k] \in {"else", "try", "finally"} /\ ts[k + 1] = ":" /\ ts[k + 2] # "NL"

SameWords(ws, us) ==
    \A x \in Tokens(ws) \cup Tokens(us) :
        x[1] \in Words => Cardinality(Places(ws, x)) = Cardinality(Places(us, x))
Kept(ts, ss) ==
    IF OneLine(ts) THEN SameWords(Flat(Placed(ts)), Flat(TreeWords(ss, 0)))
    ELSE SameWords(Placed(ts), TreeWords(ss, 0))

\* Two arguments of one kind with a star, in one call or in several.
StarArgs(ts, x) == {k \in 2..Len(ts) : ts[k] = x /\ ts[k - 1] \in {"(", ","}}
RepeatsStar(ts) == \E x \in {"*", "**"} : Cardinality(StarArgs(ts, x)) > 1

(* The tree of a file that fly build translates holds each name and each   *)
(* literal of the source exactly as often as the source, in blocks of the  *)
(* same depth (what is written of the tree is the matter of Faithful).     *)
(* Not so, and left out here, are statements joined by ; and a call with   *)
(* two * or two ** arguments, of which call_args keeps the last:           *)
(* SemicolonSeparates and NeverMistranslated state these.                  *)
NothingLost ==
    (phase = "written" /\ ";" \notin Tokens(Program) /\ ~RepeatsStar(Program))
        => Kept(Program, tree)

(* The same with statements joined by ;, which the help of error E0003     *)
(* recommends: violated.                                                   *)
SemicolonSeparates == (phase = "written" /\ ~RepeatsStar(Program)) => Kept(Program, tree)

-----------------------------------------------------------------------------
(* The output calls only what the prelude defines.                         *)

Section ==
    "GuardError" :> "guard" @@ "_FlyOnly" :> "only" @@ "_fly_patch_builtins" :> "only" @@
    "_fly_builtins" :> "only" @@ "_fly_log" :> "trace" @@ "_fly_cage" :> "cage" @@
    "_fly_sb_import" :> "sandbox" @@ "_fly_sb_builtins" :> "sandbox" @@
    "_fly_sb_module_globals" :> "sandbox" @@
    [x \in {"_fly_binop", "_fly_unary", "_fly_get", "_fly_set", "_fly_attr", "_fly_setattr",
            "_fly_attr_plain", "_fly_setattr_plain", "_fly_get_plain", "_fly_set_plain",
            "_fly_cmp", "_fly_chain", "_fly_iter", "_fly_cast"} |-> "runtime"]

(* Every helper of the runtime library that the output uses, however deep  *)
(* the statement that needs it is nested, is in a section the output       *)
(* starts with; otherwise the program ends with a NameError.               *)
HelpersDefined ==
    phase = "written" =>
        \A k \in DOMAIN out.lines : \A j \in DOMAIN out.lines[k][2] :
            out.lines[k][2][j] \in DOMAIN Section => Section[out.lines[k][2][j]] \in out.prelude
-----------------------------------------------------------------------------
(* The output says what the source says.                                   *)

\* Statements that leave nothing in the output, and the suites of a statement:
\* Python has no empty suite.
RECURSIVE LeavesNothing(_)
LeavesNothing(s) ==
    \/ s[1] \in {"Safe", "Mask"} \/ (s[1] = "Lock" /\ s[3] = Nothing)
    \/ s[1] \in {"Trace", "Cage"} /\ \A k \in DOMAIN AllBodies(s) : LeavesNothing(AllBodies(s)[k])
Suites(s) ==
    CASE s[1] = "If"    -> {s[3], s[5]} \cup Tokens(Parts(s[4], 2))
      [] s[1] = "For"   -> {s[4], s[5]}
      [] s[1] = "While" -> {s[3], s[4]}
      [] s[1] = "Try"   -> {s[2], s[4], s[5]} \cup Tokens(Parts(s[3], 3))
      [] s[1] = "Def"   -> {s[5]}
      [] s[1] = "Class" -> {s[4]}
      [] OTHER -> {}

\* The shapes the generator writes without the parentheses they need, or
\* that it has no Python for.
IsNot(e) == e[1] = "Unary" /\ e[2] = "not"
Misread(e) ==
    \/ IsNot(e) /\ e[3][1] = "Compare" /\ Len(e[3][3]) > 1 /\ ~LazyChain(e[3])
    \/ e[1] = "Compare" /\ \E k \in DOMAIN Children(e) : Children(e)[k][1] = "Compare" \/ IsNot(Children(e)[k])
    \/ e[1] = "Cond" /\ e[2][1] = "Cond"
    \/ e[1] = "ListComp" /\ \E k \in DOMAIN e[3] : \E j \in DOMAIN e[3][k][3] : e[3][k][3][j][1] = "Cond"
    \/ e[1] = "Unary" /\ e[2] = "*"
Stored(e) == \E x \in Exprs(<<e>>) : x[1] \in {"Attr", "Subscript"}
MisreadStmt(s) ==
    \/ s[1] = "Assign" /\ (Len(s[2]) > 1 \/ s[2][1][1] \in {"Tuple", "List"})
       /\ \E k \in DOMAIN s[2] : Stored(s[2][k])
    \/ s[1] = "FromImport" /\ \E k \in DOMAIN s[3] : s[3][k][1] = <<"*">>
    \/ s[1] = "Cage" /\ s[2] = ""
    \/ s[1] = "Trace" /\ \E k \in DOMAIN s[3] :
          /\ s[3][k][1] = "Def"
          /\ s[3][k][4] # Nothing \/ \E q \in Tokens(s[3][k][3]) : KeywordOnly(s[3][k][3], q)
    \/ \E b \in Suites(s) : b # <<>> /\ \A k \in DOMAIN b : LeavesNothing(b[k])
Regular ==
    \A s \in Statements(tree) : ~MisreadStmt(s) /\ \A e \in Exprs(ExprsOf(s)) : ~Misread(e)

(* The Python text is accepted by Python's grammar, and parsing it gives a *)
(* program that says what the tree says: every operand belongs to the same *)
(* operator, every statement to the same block, and an operand that may    *)
(* have an effect is evaluated once.                                       *)
SaysTheSame(p) == p.err = "" /\ MeansBody(p.e) = MeansBody(tree)

(* Programs of regular shape are translated faithfully.  The shapes left   *)
(* out are those of Misread and MisreadStmt, which fly build accepts and   *)
(* translates wrongly: a comparison or a negation as operand of a          *)
(* comparison, (a == b) == c; not before a chain that is not written as a  *)
(* conjunction; a conditional as the result of a conditional or as the if  *)
(* of a comprehension; a starred target; attributes and subscripts in      *)
(* tuple targets and in chains of assignments; from m import *; cage with  *)
(* max_memory alone; the return annotation and the keyword-only parameters *)
(* of a traced function; and a suite of declarations that leave nothing.   *)
(* NeverMistranslated states what the repository says of them.             *)
Faithful == (phase = "written" /\ Regular) => SaysTheSame(ReadBack(out.lines))

(* docs/compat.md: what Fly does not support fails with an error, and a    *)
(* wrong result is never written silently.  No shape is left out: the tree *)
(* holds all of the source and the text says what the tree says.  Violated *)
(* by every shape that NothingLost and Faithful leave out.                 *)
NeverMistranslated ==
    phase = "written" => Kept(Program, tree) /\ SaysTheSame(ReadBack(out.lines))

-----------------------------------------------------------------------------
(* The inferred types describe every value the program stores.             *)

Scopes(ti) == {<<"", tree>>} \cup {<<f, ti.defs[f][5]>> : f \in DOMAIN ti.defs}
Fits(known, actual) == known \in {"Unknown", actual}
RECURSIVE InBodies(_)
InBodies(ss) == UNION {{ss[k]} \cup InBodies(Bodies(ss[k])) : k \in DOMAIN ss}

\* Statement s of scope fn stores and passes on only values that fit.
TypeIn(ti, fn, e) == expr_type(ti, e, NoMap, fn)
ArgumentFits(ti, fn, f, k, arg) == Fits(TypeIn(ti, f, Name(ti.defs[f][3][k][2])), TypeIn(ti, fn, arg))
StatementFits(ti, fn, s) ==
    /\ (s[1] = "Assign" /\ s[3] = "=" /\ s[2][1][1] = "Name") =>
           Fits(TypeIn(ti, fn, s[2][1]), TypeIn(ti, fn, s[4]))
    /\ (s[1] = "Return" /\ s[2] # Nothing) => Fits(Get(ti.ret, fn, "Unknown"), TypeIn(ti, fn, s[2]))
    /\ (s[1] = "For" /\ s[2][1] = "Name") =>
           Fits(TypeIn(ti, fn, s[2]), IF IsRange(s[3]) THEN "Int" ELSE TypeIn(ti, fn, s[3]))
    /\ \A e \in Exprs(CallExprs(s)) :
         (e[1] = "Call" /\ e[2][1] = "Name" /\ e[2][2] \in DOMAIN ti.defs) =>
            \A k \in DOMAIN e[3][1] \cap DOMAIN ti.defs[e[2][2]][3] :
                ArgumentFits(ti, fn, e[2][2], k, e[3][1][k])
ProgramFits(ti) == \A sc \in Scopes(ti) : \A s \in InBodies(sc[2]) : StatementFits(ti, sc[1], s)

(* The types inference ends with are right for each assignment, loop       *)
(* variable, return value and argument the program contains, judged with   *)
(* those same types: five rounds were enough, and no value of another type *)
(* reaches a variable for which native operators are written.              *)
TypesSettled == (phase = "written" /\ kind = "types") => ProgramFits(infer(tree, FnOrder))
=============================================================================
