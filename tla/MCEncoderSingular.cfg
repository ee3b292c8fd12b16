CONSTANTS
    Schema <- MCSchema
    Registered <- MCRegistered
    Pairs <- MCPairs
    Calls <- SingularCalls
    NoField = NoField
    BadKey = BadKey
    Garbage <- MCGarbage
    NDEBUG = FALSE
SPECIFICATION Spec
INVARIANT SizeSufficesAlways
CHECK_DEADLOCK FALSE
