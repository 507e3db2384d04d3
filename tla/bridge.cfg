\* Two handlers, two host calls of each of two scripts, one back-edge a turn.
CONSTANTS
    Handlers = {h1, h2}
    MaxInstructions = 1
    MaxCalls = 2
    MaxListeners = 2
    MaxLoads = 2
SPECIFICATION FairSpec
INVARIANTS
    TypeOK
PROPERTIES
    ImplementsHostCalls
    CallsAnswered
    HandlersRun
    CallsHaveTheirBudget
