CONSTANTS
    Schema <- MCSchema
    Registered <- MCRegistered
    Pairs <- MCPairs
    Calls <- MCCalls
    NoField = NoField
    BadKey = BadKey
    Garbage <- MCGarbage
    NDEBUG = FALSE
SPECIFICATION Spec
INVARIANTS TypeOK BufferNeverOverrun BufferExact
PROPERTY LeaksAreFloats
CHECK_DEADLOCK FALSE
