CONSTANTS
    u1 = u1
    u2 = u2
    c1 = c1
    c2 = c2
    r1 = r1
    r2 = r2
    Vars <- MCVars
    Tables = {"t"}
    Guarded = {}
    Numbers = {}
    MaxIndex = 1
    MaxSlots = 7
    MaxStack = 0
    Allows = {}
SPECIFICATION MCSpec
SYMMETRY Symmetry
INVARIANTS OwnershipSound ReferencesSound
CHECK_DEADLOCK FALSE
