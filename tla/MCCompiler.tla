----------------------------- MODULE MCCompiler -----------------------------
(* Programs for TLC: expressions of up to three operators, statements in up *)
(* to two blocks, and modules of up to four functions, calls and variables. *)
EXTENDS Compiler

MCPyQuote == "n" :> "'n'" @@ "m" :> "'m'" @@ "*" :> "'*'" @@ "." :> "'.'"
MCHelpers == DOMAIN Section \cup {"_fly_sb_mod", "_fly_ob", "_fly_err", "_fly_ret", "_fly_trace_impl",
    "_fly_aa", "_fly_ab", "__builtins__", "get", "getattr", "object", "__setattr__", "__delattr__",
    "__init__", "self", "name", "value", "AttributeError", "log", "WARNING", "BaseException",
    "fromlist", "isinstance", "slice", "int", "range"}
MCWords   == {"a", "b", "c", "f", "g", "i", "k", "m", "n", "v", "x", "A", "1", "2", "1.5"}
MCIdents  == (MCWords \ {"1", "2", "1.5"}) \cup MCHelpers \cup {"level", "args", "ret", "max_time", "max_memory"}
MCStrings == {"'s'", "'1s'", "'1MB'", "'contains'", "'guard'", "'seal'", "'trace'", "'_fly_seal_initializing'",
              "'__builtins__'", "'invert'", "'neg'", "'pos'", "'n'", "'m'", "'*'", "'.'"}
             \cup {op_name[o] : o \in DOMAIN op_name} \cup {op_text[o] : o \in DOMAIN op_text}
             \cup {cmp_name[o] : o \in DOMAIN cmp_name}
MCBuiltins == "int" :> "Int" @@ "range" :> "Int"
MCMaxWraps == "expr" :> 3 @@ "stmt" :> 2 @@ "types" :> 4
MCFnOrder == <<"f", "g">>

MCSeeds == [fam \in {"expr", "stmt", "types"} |->
    CASE fam = "expr" -> {<<"a">>, <<"1">>}
      [] fam = "types" -> {<<>>}
      [] fam = "stmt" -> {
            <<"a", "=", "b", "=", "1", "NL">>, <<"a", "[", "b", "]", "+=", "1", "NL">>,
            <<"a", ".", "n", "-=", "b", "NL">>, <<"a", ".", "n", "=", "b", "NL">>,
            <<"a", "[", "1", "]", "=", "b", "NL">>, <<"a", ",", "b", "=", "c", "NL">>,
            <<"a", "//=", "1", "NL">>, <<"return", "a", ",", "b", "NL">>, <<"raise", "a", "from", "b", "NL">>,
            <<"del", "a", "[", "b", "]", ",", "c", ".", "n", "NL">>, <<"import", "m", ",", "m", "as", "n", "NL">>,
            <<"from", "m", "import", "n", "as", "k", "NL">>,
            <<"from", ".", ".", "m", "import", "n", "as", "g", ",", "m", "NL">>, <<"lock", "a", "=", "1", "NL">>,
            <<"safe", "a", "NL">>, <<"lock", "a", "NL">>, <<"guard", "a", "NL">>,
            <<"guard", "a", ":", "A", ",", "b", "<", "c", "NL">>, <<"guard", "a", "or", "b", ",", "c", "NL">>,
            <<"a", ".", "n", ",", "b", "=", "c", "NL">>, <<"*", "a", ",", "b", "=", "c", "NL">>,
            <<"from", "m", "import", "*", "NL">>, <<"break", "NL">>, <<"a", "NL">>}]

MCContexts == [fam \in {"expr", "stmt", "types"} |->
    CASE fam = "expr" -> {
            << <<"not">>, <<>> >>, << <<"(">>, <<")">> >>, << <<"-">>, <<>> >>,
            << <<>>, <<"<", "b">> >>, << <<"b", "==">>, <<>> >>, << <<>>, <<"not", "in", "b">> >>,
            << <<>>, <<"and", "b">> >>, << <<"b", "or">>, <<>> >>,
            << <<"1", "-">>, <<>> >>, << <<>>, <<"*", "1">> >>, << <<>>, <<"**", "b">> >>,
            << <<"f", "(">>, <<",", "k", "=", "b", ")">> >>, << <<>>, <<"(", "*", "b", ")">> >>,
            << <<>>, <<"[", "b", ":", "]">> >>, << <<"b", "[">>, <<"]">> >>, << <<>>, <<".", "n">> >>,
            << <<"b", "if">>, <<"else", "c">> >>, << <<>>, <<"if", "b", "else", "c">> >>,
            << <<"{", "b", ":", "(">>, <<",", "c", ")", "}">> >>,
            << <<"[", "i", "for", "i", "in", "b", "if">>, <<"]">> >>}
      [] fam = "stmt" -> {
            << <<>>, <<"b", "NL">> >>, << <<"a", "=", "1", ";", "b", "=", "2", "NL">>, <<>> >>,
            << <<"if", "a", ":", "NL", "INDENT">>, <<"DEDENT">> >>,
            << <<"if", "a", ":", "NL", "INDENT", "b", "NL", "DEDENT", "elif", "c", ":", "NL", "INDENT">>,
               <<"DEDENT", "elif", "k", ":", "NL", "INDENT", "f", "NL", "DEDENT", "else", ":", "g", "NL">> >>,
            << <<"for", "i", "in", "range", "(", "a", ")", ":", "NL", "INDENT">>,
               <<"DEDENT", "else", ":", "NL", "INDENT", "c", "NL", "DEDENT">> >>,
            << <<"while", "a", ":", "NL", "INDENT", "b", "NL", "DEDENT", "else", ":", "NL", "INDENT">>, <<"DEDENT">> >>,
            << <<"try", ":", "NL", "INDENT", "a", "NL", "DEDENT", "except", "A", "as", "k", ":", "NL", "INDENT">>,
               <<"DEDENT", "finally", ":", "NL", "INDENT", "b", "NL", "DEDENT">> >>,
            << <<"@", "a", "NL", "def", "f", "(", "a", ":", "A", ",", "b", "=", "1", ",", "*", "c", ",", "k", ")", "->", "A", ":",
                 "NL", "INDENT">>, <<"DEDENT">> >>,
            << <<"class", "A", "(", "a", ",", "b", ")", ":", "NL", "INDENT">>, <<"DEDENT">> >>,
            << <<"seal", "class", "A", ":", "NL", "INDENT">>, <<"DEDENT">> >>,
            << <<"seal", "class", "A", ":", "NL", "INDENT", "def", "__init__", "(", "self", ")", ":", "NL", "INDENT">>,
               <<"DEDENT", "DEDENT">> >>,
            << <<"only", "(", "m", ",", "n", ")", ":", "NL", "INDENT">>, <<"DEDENT">> >>,
            << <<"trace", "(", "args", "=", "False", ")", ":", "NL", "INDENT">>, <<"DEDENT">> >>,
            << <<"trace", "(", "ret", "=", "False", ")", ":", "NL", "INDENT", "def", "g", "(", "a", ",", "b", ":", "A", "=", "1",
                 ",", "*", "c", ",", "**", "k", ")", ":", "NL", "INDENT">>, <<"DEDENT", "DEDENT">> >>,
            << <<"cage", "(", "max_time", "=", "'1s'", ",", "max_memory", "=", "'1MB'", ")", ":", "NL", "INDENT">>,
               <<"DEDENT">> >>,
            << <<"cage", "(", "max_memory", "=", "'1MB'", ")", ":", "NL", "INDENT", "def", "f", "(", ")", ":", "NL", "INDENT">>,
               <<"DEDENT", "DEDENT">> >>}
      [] fam = "types" -> {<<<<>>, piece>> : piece \in {
            <<"def", "f", "(", "x", ")", ":", "NL", "INDENT", "return", "x", "+", "1", "NL", "DEDENT">>,
            <<"def", "g", "(", "x", ")", ":", "NL", "INDENT", "v", "=", "f", "(", "x", ")", "NL", "return", "v", "NL", "DEDENT">>,
            <<"a", "=", "f", "(", "1", ")", "NL">>, <<"b", "=", "g", "(", "a", ")", "NL">>,
            <<"a", "=", "'s'", "NL">>, <<"b", "=", "f", "(", "'s'", ")", "NL">>, <<"a", "=", "-", "1.5", "NL">>,
            <<"for", "a", "in", "range", "(", "1", ")", ":", "NL", "INDENT", "b", "=", "a", "*", "2", "NL", "DEDENT">>,
            <<"g", "(", "1", ")", "NL">>}}]
=============================================================================
