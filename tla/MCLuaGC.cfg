CONSTANTS
    Addr = {1, 2, 3, 4}
    Main = Main
    nil = nil
    Free = Free
    Programs <- MCPrograms
SPECIFICATION Spec
INVARIANTS NothingReachableDies ColoursSound
PROPERTIES FinalizersSound WeakValuesGone
