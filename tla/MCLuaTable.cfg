CONSTANTS
    s1 = s1
    s2 = s2
    o1 = o1
    nil = nil
    Idle = Idle
    Ints <- MCInts
    IntKeys = {1, 2, 3, 4}
    Strings = {s1, s2}
    Objects = {o1}
    Hash <- MCHash
    Values = {v}
    KeySets <- MCKeySets
    Sizes <- MCSizes
    MAXBITS = 3
    MAX_INT = 2
SPECIFICATION Spec
INVARIANTS StructureSound LengthIsBorder
PROPERTY ImplementsMap
