\* What collections keep, the slots, the free list and the payload index, in
\* two slots with whatever script and host may do; strings are to the
\* collector what instances without fields are.
CONSTANTS
    Rc = {r1}
    NoRc = NoRc
    Globals = {0}
    NumRegisters = 2
    Features = {"Instance", "Closure", "HostCall", "PassResult", "Snapshot",
                "ManualGc"}
    MaxSlots = 2
    MaxStack = 3
    MaxElements = 1
    MaxCallbacks = 1
    GC_INITIAL_THRESHOLD = 1
SPECIFICATION Spec
INVARIANTS
    TypeOK
    RcIndexSound
    FreeListSound
PROPERTIES
    NothingStartsToDangle
    GcKeepsLive
