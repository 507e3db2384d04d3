CONSTANTS
    Gens = {g, h}
    Vals = {x, y}
    Undefined = undefined
    MaxYields = 2
    MaxWindows = 3
    g = g
    h = h
    x = x
    y = y
    undefined = undefined
SPECIFICATION HistorySpec
PROPERTIES
    ImplementsProtocol
    CompletedForGood
CHECK_DEADLOCK FALSE
