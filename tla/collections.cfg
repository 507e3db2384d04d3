CONSTANTS
    Maps = {m1, m2}
    Sets = {s}
    KeyVals <- StringAndObject
    Vals = {x, y}
    Undefined = undefined
    MaxCollections = 2
    MaxItems = 2
    MaxNesting = 1
    m1 = m1
    m2 = m2
    s = s
    x = x
    y = y
    undefined = undefined
SPECIFICATION Spec
INVARIANT IndexSound
PROPERTY ImplementsOrderedMap
CHECK_DEADLOCK FALSE
