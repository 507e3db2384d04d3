CONSTANTS
    Functions = {method, fetch, helper, numbers}
    Classes = {Point, Marker}
    Script = Script
    Expression = Expression
    NoClass = NoClass
    Unused = Unused
    method = method
    fetch = fetch
    helper = helper
    numbers = numbers
    Point = Point
    Marker = Marker
    CacheSlots <- MCCacheSlots
    RegisterCount <- MCRegisterCount
    AsyncFunctions = {fetch}
    RestFunctions = {helper}
    GeneratorFunctions = {numbers}
    Parts <- MCParts
    STACK_SIZE = 3
    MaxArgs = 2
    MaxIp = 1
    MaxSp = 4
SPECIFICATION Spec
INVARIANTS
    TypeOK
    RunsWithItsOwn
    CachesComeHome
    WindowsApart
    NewTargetIsOwn
PROPERTIES
    CallerGoesOn
