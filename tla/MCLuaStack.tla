----------------------------- MODULE MCLuaStack ------------------------------
(* Four programs for LuaStack: calls and hooks while the stack grows and shrinks, C
   functions that use the whole API, the same with metamethods and collections, and calls
   in every way three deep.  The sizes are small: every second call outgrows the stack. *)
EXTENDS Integers, Sequences

CONSTANT v1

VARIABLES part, L

Plain == [lua |-> TRUE, num |-> 1, max |-> 2, vararg |-> FALSE, needsarg |-> FALSE]
Variadic == [lua |-> TRUE, num |-> 1, max |-> 2, vararg |-> TRUE, needsarg |-> FALSE]

Growth == INSTANCE LuaStack WITH
    Values <- {"nil"}, Protos <- {Variadic}, MaxFrames <- 3, MaxValues <- 1,
    MaxTailCalls <- 1, MaxUpvalues <- 1, Uses <- {"gc", "hook"},
    LUA_MINSTACK <- 2, BASIC_STACK_SIZE <- 4, EXTRA_STACK <- 2, LUAI_MAXCSTACK <- 4

Api == INSTANCE LuaStack WITH
    Values <- {v1}, Protos <- {Plain}, MaxFrames <- 2, MaxValues <- 3,
    MaxTailCalls <- 1, MaxUpvalues <- 0, Uses <- {"api"},
    LUA_MINSTACK <- 2, BASIC_STACK_SIZE <- 4, EXTRA_STACK <- 2, LUAI_MAXCSTACK <- 4

Collected == INSTANCE LuaStack WITH
    Values <- {v1}, Protos <- {Plain, Variadic}, MaxFrames <- 2, MaxValues <- 2,
    MaxTailCalls <- 1, MaxUpvalues <- 0, Uses <- {"api", "tm", "gc"},
    LUA_MINSTACK <- 2, BASIC_STACK_SIZE <- 4, EXTRA_STACK <- 2, LUAI_MAXCSTACK <- 4

Deep == INSTANCE LuaStack WITH
    Values <- {"nil"}, Protos <- {Plain}, MaxFrames <- 3, MaxValues <- 1,
    MaxTailCalls <- 1, MaxUpvalues <- 0, Uses <- {"tm"},
    LUA_MINSTACK <- 2, BASIC_STACK_SIZE <- 4, EXTRA_STACK <- 2, LUAI_MAXCSTACK <- 4

ASSUME
    /\ Growth!SizesAssumption /\ Api!SizesAssumption /\ Collected!SizesAssumption
    /\ Deep!SizesAssumption

Init == part \in {"growth", "api", "collected", "deep"} /\ Growth!Init

Next ==
    \/ part = "growth" /\ Growth!Next /\ UNCHANGED part
    \/ part = "api" /\ Api!Next /\ UNCHANGED part
    \/ part = "collected" /\ Collected!Next /\ UNCHANGED part
    \/ part = "deep" /\ Deep!Next /\ UNCHANGED part

Spec == Init /\ [][Next]_<<part, L>>

-----------------------------------------------------------------------------
(* LuaStack: every pointer into the stack is one into its block, and those of upvalues
   are at the variables they are for. *)
PointersSound ==
    /\ part = "growth" => Growth!PointersSound
    /\ part = "api" => Api!PointersSound
    /\ part = "collected" => Collected!PointersSound
    /\ part = "deep" => Deep!PointersSound

(* LuaStack: every frame has the room it was promised. *)
FramesFit == Growth!FramesFit

(* LuaStack: every call sees what LuaFrames says it has. *)
ImplementsFrames ==
    /\ part = "api" => Api!Abstract!Init
    /\ part = "collected" => Collected!Abstract!Init
    /\ part = "deep" => Deep!Abstract!Init
    /\ [][/\ part = "api" => Api!FramesStep
          /\ part = "collected" => Collected!FramesStep
          /\ part = "deep" => Deep!FramesStep]_<<part, L>>
=============================================================================
