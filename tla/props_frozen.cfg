\* Writes to a frozen object.
CONSTANTS
    p = p  q = q  o = o  a = a  b = b  alone = alone  shared = shared
    Objs = {o}
    Keys = {a, b}
    Vals = {v1, v2}
    Undefined = Undefined
    Records = {}
    Freezable = {o}
    WritesFrozen = TRUE
    RecordKeys <- MCRecordKeys
    Sites = {alone}
    KeyOf <- MCKeyOf
    ObjsOf <- MCObjsOf
    MaxShape = 4
SPECIFICATION Spec
PROPERTIES FrozenStays
