----------------------------- MODULE LuaRequire -----------------------------
(***************************************************************************)
(* require, module and the libraries they load (lua/loadlib.c), the tables *)
(* of modules (luaL_findtable and luaL_register, lua/lauxlib.c) and the    *)
(* end of the state, which unloads the libraries (lua_close, lua/lstate.c).*)
(*                                                                         *)
(* A module's name is a sequence of words: <<"a", "b">> is a.b.  An action *)
(* is one call by a chunk; a frame of the stack is a call of require that  *)
(* runs its chunk.  That a frame is cleared is history: since its chunk    *)
(* began, a script set package.loaded of its module to nil.                *)
(***************************************************************************)
EXTENDS Integers, SequencesExt

CONSTANTS
    Names,       \* names of modules
    Libraries,   \* modules that have a dynamic library, named for them
    Functions,   \* Functions[lib]: modules the library has a luaopen_ function for
    Files,       \* Files[name]: what package.path finds, "none", "chunk" or "broken"
    Preloads,    \* names that scripts put in package.preload
    Assigned,    \* names that scripts make globals, with a value that is no table
    MaxDepth,    \* chunks that run in each other
    MaxObjects   \* userdata of libraries

ASSUME NamesAssumption ==
    /\ \A n \in Names :
        n \in Seq(STRING) /\ n # <<>> /\ \A i \in 1..Len(n) : SubSeq(n, 1, i) \in Names
    /\ Libraries \subseteq Names

ASSUME BoundsAssumption == MaxDepth \in Nat

VARIABLES
    loaded,    \* package.loaded
    preload,   \* names in package.preload
    globals,   \* the global variable or field of that name
    handle,    \* handle[lib]: what the _LOADLIB userdata of the library has
    udata,     \* userdata with finalizers, in the order they were made
    stack,     \* calls of require that run a chunk
    closing,   \* lua_close was called
    failed     \* modules whose chunk raised an error, since they were last cleared

vars == <<loaded, preload, globals, handle, udata, stack, closing, failed>>

Parent(name) == SubSeq(name, 1, Len(name) - 1)
Parts(name) == {SubSeq(name, 1, i) : i \in 1..Len(name)}
Root(name) == SubSeq(name, 1, 1)
Lib(p) == [k |-> "library", lib |-> p]
ObjectOf(p) == [k |-> "object", lib |-> p]

Init ==
    /\ loaded = [n \in Names |-> "nil"]
    /\ preload = {}
    /\ globals = [n \in Names |-> "nil"]
    /\ handle = [p \in Libraries |-> "unregistered"]
    /\ udata = <<>>
    /\ stack = <<>>
    /\ closing = FALSE
    /\ failed = {}

-----------------------------------------------------------------------------
(* Libraries.  s is a state of handle and udata; opens says whether dlopen succeeds. *)

ll_register_Again(s, p) ==
    IF s.handle[p] = "open" THEN s
    ELSE [handle |-> [s.handle EXCEPT ![p] = "NULL"], udata |-> Append(s.udata, Lib(p))]

ll_register(s, p) ==
    IF s.handle[p] # "unregistered" THEN s
    ELSE [handle |-> [s.handle EXCEPT ![p] = "NULL"], udata |-> Append(s.udata, Lib(p))]

ll_loadfunc_Unloads(s, p, name, opens) ==
    LET r  == ll_register(s, p)
        ok == r.handle[p] = "open" \/ opens
        f  == name \in Functions[p]
    IN  [s |-> [r EXCEPT !.handle[p] = IF ok /\ f THEN "open" ELSE "NULL"],
         stat |-> IF ~ok THEN "ERRLIB" ELSE IF f THEN "found" ELSE "ERRFUNC"]

ll_loadfunc(s, p, name, opens) ==
    LET r  == ll_register(s, p)
        ok == r.handle[p] = "open" \/ opens
    IN  [s |-> IF ok THEN [r EXCEPT !.handle[p] = "open"] ELSE r,
         stat |-> IF ~ok THEN "ERRLIB"
                  ELSE IF name \in Functions[p] THEN "found" ELSE "ERRFUNC"]

-----------------------------------------------------------------------------
(* The loaders.  One returns a function ("found"), a message ("missing") or raises an
   error ("error"). *)

loader_preload(s, name) == [s |-> s, stat |-> IF name \in preload THEN "found" ELSE "missing"]

loader_Lua(s, name) ==
    [s |-> s, stat |-> CASE Files[name] = "none" -> "missing"
                         [] Files[name] = "chunk" -> "found"
                         [] Files[name] = "broken" -> "error"]

loader_C(s, name, opens) ==
    IF name \notin Libraries THEN [s |-> s, stat |-> "missing"]
    ELSE LET r == ll_loadfunc(s, name, name, opens)
         IN  [r EXCEPT !.stat = IF @ = "found" THEN @ ELSE "error"]

loader_Croot(s, name, opens) ==
    IF Len(name) = 1 \/ Root(name) \notin Libraries THEN [s |-> s, stat |-> "missing"]
    ELSE LET r == ll_loadfunc(s, Root(name), name, opens)
         IN  [r EXCEPT !.stat = CASE @ = "found" -> @ [] @ = "ERRLIB" -> "error"
                                  [] @ = "ERRFUNC" -> "missing"]

(* The loop of ll_require: the first loader that has an answer, or none has. *)
Search(s, name, opens) ==
    LET p == loader_preload(s, name)
        l == loader_Lua(s, name)
        c == loader_C(s, name, opens)
        r == loader_Croot(c.s, name, opens)
    IN  CASE p.stat # "missing" -> p
          [] p.stat = "missing" /\ l.stat # "missing" -> l
          [] p.stat = "missing" /\ l.stat = "missing" /\ c.stat # "missing" -> c
          [] OTHER -> [r EXCEPT !.stat = IF @ = "missing" THEN "error" ELSE @]

-----------------------------------------------------------------------------
(* Errors.  A call of require that is safe is one from pcall. *)

SafeFrames(frames) == {i \in 1..Len(frames) : frames[i].safe}
Deepest(S) == CHOOSE i \in S : \A j \in S : j <= i

Caught(frames) == IF SafeFrames(frames) = {} THEN 0 ELSE Deepest(SafeFrames(frames)) - 1

(* The error passes the chunks down to the pcall that catches it, or all of them. *)
Raise(frames) ==
    /\ stack' = SubSeq(frames, 1, Caught(frames))
    /\ failed' = failed \cup {frames[i].name : i \in (Caught(frames) + 1)..Len(frames)}

-----------------------------------------------------------------------------
IsTrue(v) == v \notin {"nil", "false"}
Running == ~closing
Chunk == stack[Len(stack)].name

(* require returns what is loaded, or raises an error: a loop, no such module, or a
   loader's; or it runs the chunk that a loader found. *)
Returns(name) ==
    /\ IsTrue(loaded[name]) /\ loaded[name] # "sentinel"
    /\ UNCHANGED vars

LoopError(name, safe) ==
    /\ loaded[name] = "sentinel"
    /\ IF safe THEN UNCHANGED <<stack, failed>> ELSE Raise(stack)
    /\ UNCHANGED <<loaded, preload, globals, handle, udata, closing>>

RunChunk_NoSentinel(name, safe) ==
    /\ Len(stack) < MaxDepth
    /\ stack' = Append(stack, [name |-> name, safe |-> safe, cleared |-> FALSE])
    /\ UNCHANGED <<loaded, failed>>

(* _LOADED[name] = sentinel; lua_call *)
RunChunk(name, safe) ==
    /\ Len(stack) < MaxDepth
    /\ loaded' = [loaded EXCEPT ![name] = "sentinel"]
    /\ stack' = Append(stack, [name |-> name, safe |-> safe, cleared |-> FALSE])
    /\ failed' = failed \ {name}

Load_Again(name, safe, opens) ==
    /\ loaded[name] # "sentinel" /\ name \in preload
    /\ RunChunk(name, safe)
    /\ UNCHANGED <<preload, globals, handle, udata, closing>>

Load(name, safe, opens) ==
    /\ ~IsTrue(loaded[name])
    /\ LET found == Search([handle |-> handle, udata |-> udata], name, opens)
       IN  /\ handle' = found.s.handle /\ udata' = found.s.udata
           /\ IF found.stat = "found" THEN RunChunk(name, safe)
              ELSE /\ IF safe THEN UNCHANGED <<stack, failed>> ELSE Raise(stack)
                   /\ UNCHANGED loaded
    /\ UNCHANGED <<preload, globals, closing>>

ll_require(name, safe) ==
    /\ Running
    /\ \/ Returns(name)
       \/ LoopError(name, safe)
       \/ \E opens \in BOOLEAN : Load(name, safe, opens)

Result_KeepsSentinel(name, v) == IF v # "nil" THEN v ELSE loaded[name]

(* The chunk returned v: what _LOADED[name] is then. *)
Result(name, v) ==
    CASE v # "nil" -> v
      [] v = "nil" /\ loaded[name] = "sentinel" -> "true"
      [] OTHER -> loaded[name]

Return(v) ==
    /\ stack # <<>>
    /\ loaded' = [loaded EXCEPT ![Chunk] = Result(Chunk, v)]
    /\ stack' = SubSeq(stack, 1, Len(stack) - 1)
    /\ UNCHANGED <<preload, globals, handle, udata, closing, failed>>

ChunkFails ==
    /\ stack # <<>>
    /\ Raise(stack)
    /\ UNCHANGED <<loaded, preload, globals, handle, udata, closing>>

-----------------------------------------------------------------------------
(* module (name) and luaL_register (L, name, ...) *)

Conflict(name) == \E p \in Parts(name) : globals[p] = "other"

luaL_findtable_LastOnly(name) == [globals EXCEPT ![name] = "table"]

(* Tables are made up to the part of the name that is not one. *)
luaL_findtable(name) ==
    [p \in Names |-> IF p \in Parts(name) /\ globals[p] = "nil"
                        /\ \A q \in Parts(p) : globals[q] # "other"
                     THEN "table" ELSE globals[p]]

ll_module(name) ==
    /\ Running
    /\ IF loaded[name] = "table" THEN UNCHANGED <<loaded, globals, stack, failed>>
       ELSE /\ globals' = luaL_findtable(name)
            /\ IF Conflict(name) THEN Raise(stack) /\ UNCHANGED loaded
               ELSE loaded' = [loaded EXCEPT ![name] = "table"] /\ UNCHANGED <<stack, failed>>
    /\ UNCHANGED <<preload, handle, udata, closing>>

-----------------------------------------------------------------------------
(* What else scripts and libraries do. *)

(* package.loaded [name] = nil, to load it again; a chunk that runs may do it, even with
   its own name. *)
Clear(name) ==
    /\ Running /\ loaded[name] # "nil"
    /\ loaded' = [loaded EXCEPT ![name] = "nil"]
    /\ stack' = [i \in 1..Len(stack) |->
                   IF stack[i].name = name THEN [stack[i] EXCEPT !.cleared = TRUE] ELSE stack[i]]
    /\ failed' = failed \ {name}
    /\ UNCHANGED <<preload, globals, handle, udata, closing>>

(* package.preload [name] = function *)
Preload(name) ==
    /\ Running /\ name \in Preloads \ preload
    /\ preload' = preload \cup {name}
    /\ UNCHANGED <<loaded, globals, handle, udata, stack, closing, failed>>

SetGlobal(name) ==
    /\ Running /\ name \in Assigned /\ globals[name] = "nil"
    /\ Len(name) > 1 => globals[Parent(name)] = "table"
    /\ globals' = [globals EXCEPT ![name] = "other"]
    /\ UNCHANGED <<loaded, preload, handle, udata, stack, closing, failed>>

(* package.loadlib (lib, "luaopen_" .. name) *)
ll_loadlib(p, name) ==
    /\ Running
    /\ \E opens \in BOOLEAN :
        LET r == ll_loadfunc([handle |-> handle, udata |-> udata], p, name, opens)
        IN  handle' = r.s.handle /\ udata' = r.s.udata
    /\ UNCHANGED <<loaded, preload, globals, stack, closing, failed>>

(* A function of an open library makes a userdata whose __gc is in the library. *)
NewObject(p) ==
    /\ Running /\ handle[p] = "open"
    /\ Cardinality({i \in 1..Len(udata) : udata[i].k = "object"}) < MaxObjects
    /\ udata' = Append(udata, ObjectOf(p))
    /\ UNCHANGED <<loaded, preload, globals, handle, stack, closing, failed>>

(* The collector finalizes a userdata that nothing refers to.  The registry refers to
   those of libraries. *)
CollectObject ==
    /\ Running
    /\ \E i \in 1..Len(udata) :
        /\ udata[i].k = "object" /\ handle[udata[i].lib] = "open"
        /\ udata' = RemoveAt(udata, i)
    /\ UNCHANGED <<loaded, preload, globals, handle, stack, closing, failed>>

-----------------------------------------------------------------------------
(* lua_close *)

lua_close ==
    /\ Running /\ stack = <<>>
    /\ closing' = TRUE
    /\ UNCHANGED <<loaded, preload, globals, handle, udata, stack, failed>>

FinalizedAt_Oldest == 1

(* luaC_separateudata and GCTM take the newest first. *)
FinalizedAt == Len(udata)

(* gctm, or the finalizer of an object; an error in it is dropped. *)
Finalize ==
    /\ closing /\ udata # <<>>
    /\ LET u == udata[FinalizedAt]
       IN  handle' = IF u.k = "library" THEN [handle EXCEPT ![u.lib] = "NULL"] ELSE handle
    /\ udata' = RemoveAt(udata, FinalizedAt)
    /\ UNCHANGED <<loaded, preload, globals, stack, closing, failed>>

Next ==
    \/ \E name \in Names :
        \/ \E safe \in BOOLEAN : ll_require(name, safe)
        \/ ll_module(name) \/ Clear(name) \/ Preload(name) \/ SetGlobal(name)
    \/ \E v \in {"nil", "false", "value"} : Return(v)
    \/ ChunkFails
    \/ \E p \in Libraries : NewObject(p) \/ \E name \in Names : ll_loadlib(p, name)
    \/ CollectObject \/ lua_close \/ Finalize

Spec == Init /\ [][Next]_vars
-----------------------------------------------------------------------------
(* Properties *)

TypeOK ==
    /\ loaded \in [Names -> {"nil", "false", "sentinel", "true", "value", "table"}]
    /\ globals \in [Names -> {"nil", "other", "table"}]
    /\ handle \in [Libraries -> {"unregistered", "NULL", "open"}]
    /\ \A p \in Libraries :
        handle[p] # "unregistered" /\ ~closing =>
            Cardinality({i \in 1..Len(udata) : udata[i] = Lib(p)}) = 1
    /\ Len(stack) <= MaxDepth

(* require marks a module with the sentinel while its chunk runs; the mark is left only
   where a chunk failed: "loop or previous error" is then one of the two.  A chunk whose
   module was cleared since it began accounts for no mark. *)
SentinelMeansLoading ==
    \A name \in Names : loaded[name] = "sentinel" =>
        name \in failed \/ \E i \in 1..Len(stack) : stack[i].name = name /\ ~stack[i].cleared

(* However modules require each other and fail, a chunk runs inside itself only where a
   script cleared its module after the outer one began. *)
NoReentry ==
    \A i, j \in 1..Len(stack) : i < j /\ stack[i].name = stack[j].name => stack[i].cleared

(* A module that is loaded is not loaded again, nor is its value lost, unless a script
   clears it or calls module with its name; or its chunk returns that began before the
   module was cleared and loaded by another. *)
LoadedOnce ==
    [][\A name \in Names :
        loaded[name] \in {"true", "value"} /\ loaded'[name] # loaded[name] =>
            \/ Clear(name) \/ loaded'[name] = "table"
            \/ stack # <<>> /\ Chunk = name /\ stack[Len(stack)].cleared]_vars

(* A module that module or luaL_register made is the global of its name: every part of
   the name is a table. *)
ModulesAreGlobal ==
    \A name \in Names : loaded[name] = "table" => \A p \in Parts(name) : globals[p] = "table"

(* The library with the finalizer of a userdata is not unloaded before the userdata is
   finalized, although lua_close finalizes the libraries too. *)
LibrariesOutliveObjects ==
    \A i \in 1..Len(udata) : udata[i].k = "object" => handle[udata[i].lib] = "open"

(* What scripts may rely on about modules: see the parts. *)
ModulesSound ==
    TypeOK /\ SentinelMeansLoading /\ NoReentry /\ ModulesAreGlobal /\ LibrariesOutliveObjects
=============================================================================
