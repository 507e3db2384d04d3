\* Three scripts and a cache of two; a script, its function, two expressions.
CONSTANTS
    greet = greet  answer = answer  total = total  page = page  name = name  define = define
    double = double  show = show  other = other
    Sources = {greet, answer, total}
    Scripts = {page}
    Expressions = {name, define}
    Functions = {double, show, other}
    Constants <- MCConstants
    Addresses = {a1, a2, a3, a4, a5}
    Null = Null
    BYTECODE_CACHE_CAPACITY = 2
SPECIFICATION Spec
SYMMETRY Symmetry
INVARIANTS
    OwnConstants
    ScriptHeld
