CONSTANTS
    Rc = {r1, r2}
    NoRc = NoRc
    Globals = {0}
    NumRegisters = 2
    Features = {"Closure"}
    MaxSlots = 3
    MaxStack = 2
    MaxElements = 2
    MaxCallbacks = 0
    GC_INITIAL_THRESHOLD = 0
SPECIFICATION Spec
SYMMETRY RcSymmetry
INVARIANTS CapturedValuesKept
