\* Two records that share a site and one object with deletions and copies.
CONSTANTS
    p = p  q = q  o = o  a = a  b = b  alone = alone  shared = shared
    Objs = {p, q, o}
    Keys = {a, b}
    Vals = {v1, v2}
    Undefined = Undefined
    Records = {p, q}
    Freezable = {o}
    WritesFrozen = FALSE
    RecordKeys <- MCRecordKeys
    Sites = {alone, shared}
    KeyOf <- MCKeyOf
    ObjsOf <- MCObjsOf
    MaxShape = 4
SPECIFICATION Spec
SYMMETRY Symmetry
INVARIANTS
    TypeOK
    LayoutSound
    CacheSound
PROPERTIES
    ImplementsStore
    FrozenStays
