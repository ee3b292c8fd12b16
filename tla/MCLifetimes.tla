---------------------------- MODULE MCLifetimes ----------------------------
(***************************************************************************)
(* What C++ and Lua hold of each other, for TLC: C++ objects that scripts  *)
(* use (LuaObjects, with either kind of container) and Lua values that C++ *)
(* refers to (LuaRefs, with two variables, or with one and with numbers,   *)
(* longer tables and a stack).  None touches the state of another: a       *)
(* behaviour is one of one of them, and the others stay as they are.       *)
(***************************************************************************)
EXTENDS LuaRefs, TLC

CONSTANTS u1, u2, c1, c2, r1, r2

VARIABLES
    part,      \* which of the four instances runs
    objects,   \* m of LuaObjects
    sequence   \* m of LuaRefs with the longer tables

all == <<part, objects, m, sequence>>

Counted == INSTANCE LuaObjects WITH
    m <- objects, MaxObjects <- 3, Udata <- {u1, u2}, CppVars <- {c1, c2}, MaxErrors <- 1,
    Intrusive <- TRUE, Unlinks <- TRUE, Mixing <- FALSE, Nils <- FALSE

(* RefCountedObjectPtr above, RefCountedPtr here: see LuaObjects about Unlinks. *)
Tabled == INSTANCE LuaObjects WITH
    m <- objects, MaxObjects <- 2, Udata <- {u1, u2}, CppVars <- {c1, c2}, MaxErrors <- 1,
    Intrusive <- FALSE, Unlinks <- FALSE, Mixing <- FALSE, Nils <- FALSE

Sequence == INSTANCE LuaRefs WITH
    m <- sequence, Vars <- {"c"}, Tables <- {"t"}, Guarded <- {"t"}, Numbers <- {1}, MaxIndex <- 2,
    MaxSlots <- 6, MaxStack <- 1, Allows <- {}

MCVars == {r1, r2}

MCInit ==
    /\ Init
    /\ \/ part = "counted" /\ Counted!Init /\ sequence = <<>>
       \/ part = "tabled" /\ Tabled!Init /\ sequence = <<>>
       \/ part = "variables" /\ objects = <<>> /\ sequence = <<>>
       \/ part = "sequence" /\ Sequence!Init /\ objects = <<>>

MCNext ==
    \/ part = "counted" /\ Counted!Next /\ UNCHANGED <<part, m, sequence>>
    \/ part = "tabled" /\ Tabled!Next /\ UNCHANGED <<part, m, sequence>>
    \/ part = "variables" /\ Next /\ UNCHANGED <<part, objects, sequence>>
    \/ part = "sequence" /\ Sequence!Next /\ UNCHANGED <<part, objects, m>>

MCSpec == MCInit /\ [][MCNext]_all

(* Userdata and variables are interchangeable. *)
Symmetry ==
    Permutations({u1, u2}) \cup Permutations({c1, c2}) \cup Permutations({r1, r2})

-----------------------------------------------------------------------------
(* LuaObjects: an object is counted, alive while used, and destroyed with its last owner.
   The references of the longer tables are owned like those of LuaRefs itself. *)
OwnershipSound ==
    /\ part = "counted" => Counted!OwnershipSound
    /\ part = "tabled" => Tabled!OwnershipSound
    /\ part = "sequence" => Sequence!ReferencesSound
=============================================================================
