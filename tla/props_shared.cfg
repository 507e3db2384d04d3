\* One site that meets two objects with unrelated properties.
CONSTANTS
    p = p  q = q  o = o  a = a  b = b  alone = alone  shared = shared
    Objs = {p, q}
    Keys = {a, b}
    Vals = {v1, v2}
    Undefined = Undefined
    Records = {}
    Freezable = {o}
    WritesFrozen = FALSE
    RecordKeys <- MCRecordKeys
    Sites = {shared}
    KeyOf <- MCKeyOf
    ObjsOf <- MCObjsOf
    MaxShape = 4
SPECIFICATION Spec
INVARIANTS SlotInBounds
