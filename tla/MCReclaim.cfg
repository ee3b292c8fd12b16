CONSTANTS
    Handles = {"h1"}
    Streams = {"f1"}
    Std = {"stdin", "stdout"}
    Main = Main
    nil = nil
    Free = Free
    u1 = u1
    u2 = u2
    v = v
SPECIFICATION MCSpec
PROPERTIES GarbageIsFreed FinalizersRelease
CHECK_DEADLOCK FALSE
