SPECIFICATION Spec
CONSTANTS
    Schema <- MCSchema
    Registered <- MCRegistered
    Inputs <- AllInputs
    RecursionLimit <- MCRecursionLimit
    NoField = NoField
    BadArg = BadArg
    Unset = Unset
INVARIANTS NestingSound DecodesMessages
PROPERTIES IterationsProgress EveryDecodeEnds
CHECK_DEADLOCK FALSE
