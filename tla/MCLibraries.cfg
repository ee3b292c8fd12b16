CONSTANTS
    Names <- MCNames
    Libraries <- MCLibraries_
    Functions <- MCFunctions
    Files <- MCFiles
    Preloads <- MCPreloads
    Assigned <- MCAssigned
    MaxDepth = 2
    MaxObjects = 1
    Handles = {"h1", "h2"}
    Streams = {"f1", "f2"}
    Std = {"stdin", "stdout"}
    MaxSubject = 3
    MaxPattern = 2
SPECIFICATION MCSpec
INVARIANTS ModulesSound FilesSound SearchesSound IterationsSound
PROPERTIES LoadedOnce SearchMovesOn
CHECK_DEADLOCK FALSE
