CONSTANTS
    Idents <- MCIdents
    Numbers = {"1", "2"}
    Floats = {"1.5"}
    Strings <- MCStrings
    TimeSpecs = {"'1s'"}
    MemSpecs = {"'1MB'"}
    Builtins <- MCBuiltins
    Reflect = {}
    Rounds = 5
    py_quote <- MCPyQuote
    Seeds <- MCSeeds
    Contexts <- MCContexts
    MaxWraps <- MCMaxWraps
    FnOrder <- MCFnOrder
    Words <- MCWords
SPECIFICATION Spec
INVARIANTS NothingLost HelpersDefined Faithful TypesSettled
CHECK_DEADLOCK FALSE
