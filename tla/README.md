# A TLA+ verification of luapb

luapb lets Lua scripts encode and decode Protocol Buffers messages with a schema loaded at run
time. It installs three Lua functions: `luapb_register(file)` loads a compiled descriptor set,
`luapb_encode(name, table)` turns a Lua table into bytes, `luapb_decode(name, bytes)` turns bytes
into a table. The repository carries what that stands on: its own C++ (`src/src`), the LuaBridge
headers that bind C++ to Lua (`src/LuaBridge`) and the Lua 5.1 runtime (`src/lua`). All three are
verified here. The protobuf library (3.0.0) is not in the repository and is modelled from how
`Stream.cpp` and `DescPool.cpp` use it.

## 1. Inventory

| Part | State it keeps | Operations | Correct when |
|---|---|---|---|
| Descriptor registry, `DescPool.cpp`, `Utility.cpp` | `_pool`, `_msgMap`, `_enumMap` | register, release, two lookups | the maps hold the types of the live pool, all of them, and nothing else |
| Encoder, `Encoder.cpp`, `ByteSize.cpp`, `Stream.cpp` | two recursive traversals of a table, one buffer | measure, allocate, write | the second traversal fills exactly what the first has measured |
| Decoder, `Decoder.cpp`, `Stream.cpp` | position, limit and depth of a stream, a recursion of tables | tags, values, sub-messages | it reads forward inside the message it is in, ends, and returns what the bytes say |
| Tables, `ltable.c` | array part, hash part with chains, a free pointer | get, set, next, length | it is a map; a traversal meets every key once |
| Collector, `lgc.c`, `lfunc.c`, `lstring.c` | colours, gray lists, the sweep, `tmudata` | steps of a cycle, barriers | nothing reachable is freed; finalizers run once, in time |
| Calls, `ldo.c`, `lbaselib.c` | the C stack, `errorJmp`, `nCcalls`, `CallInfo` arrays, thread status | call, error, protected call, hook, resume, yield | an error lands in a live frame and leaves nothing behind |
| Stack, `ldo.c`, `lapi.c`, `lvm.c` | the value stack of a thread, frames, open upvalues | growth, calls, returns, API | it moves and shrinks unnoticed |
| Modules, `loadlib.c`, `lauxlib.c` | `package.loaded`, `preload`, libraries | `require`, `module`, `loadlib`, `lua_close` | no chunk runs inside itself unless it was cleared meanwhile; code outlives what needs it |
| io, `liolib.c` | handles, default files, iterators | open, close, lines, `__gc` | every file is closed once, the right way |
| String matching, `lstrlib.c` | captures of a backtracking search | `find`, `match`, `gmatch`, `gsub` | the best match, nothing lost |
| LuaBridge registration, `Namespace.h`, `CFunctions.h` | class tables and what is on the Lua stack | begin and end of namespaces and classes, members | the stack is balanced; lookups find the nearest member |
| LuaBridge objects, `Userdata.h`, `TypeList.h`, `RefCounted*.h` | userdata, reference counts, containers | pass, return, assign, collect | an object is destroyed once, by its last owner |
| LuaBridge references, `LuaRef.h`, `Iterator.h`, `lauxlib.c` | registry slots and their free list | make, copy, assign, call through, destroy | a slot has one owner |

How they interact. The three functions of luapb share the registry and run on the thread of one
Lua state. Encoder and decoder reach Lua through LuaBridge's references and iterators, these through
the API, that through the value stack; every allocation may run a step of the collector, a step may
run finalizers, and those are Lua or C++ code again. An error is a `longjmp` across all of it. So what
is hard here is not preemption but re-entrance:

* **steps that come in between**: a barrier, a hook, a metamethod, a finalizer or a reallocated stack
  between two statements that nobody wrote to be separated (collector, stack, calls);
* **errors in the middle** of a registration, an argument list, a loader or an encoding;
* **long legal sequences** that reach a state with two owners or none (references, containers, files,
  namespaces, chains of a hash part);
* **two computations that must agree**: the two passes of the encoder, the key count of a rehash;
* **arbitrary input**: bytes to decode, patterns and subjects to match;
* **liveness**: cycles, searches and decoding that must end, garbage that must be freed.

`PROJECT.json` lists each as a hazard at its line, with the properties that watch it.

## 2. Modules

| Module | Stands for | Kind |
|---|---|---|
| `DescPool` | the registry | state machine |
| `Wire`; `Encoder`, `Decoder` extend it | `Stream.cpp`; the two directions | operators; state machines |
| `LuaTable`, refines `LuaMap` | `ltable.c`; a map with a traversal | state machine; its specification |
| `LuaGC` | `lgc.c` and who calls its barriers | state machine |
| `LuaDo` | `ldo.c`, coroutines of `lbaselib.c` | state machine |
| `LuaStack`, refines `LuaFrames` | value stack; calls with values of their own | state machine; its specification |
| `LuaRequire`, `LuaIo`, `LuaPattern` | `loadlib.c`, `liolib.c`, `lstrlib.c` | state machines |
| `LuaBridge` | registration and lookup | state machine |
| `LuaObjects`, `LuaRefs` | lifetimes in both directions | state machines |
| `MC...` | | instances for TLC |
| `...Proofs` | | theorems |

Names ending in `_Something` (`PopLimit_Missing`, `TagSize_Unshifted`) are deliberate faults, one in
front of the definition it varies. No specification uses them; `PROJECT.json` pairs each with the
property that has to notice it.

**DescPool.** `pool`, `msgMap`, `enumMap` are the three globals. A descriptor is a pair of the address of
the pool that owns it and its name, so an entry that outlives its pool is visible as such even when
the allocator gives the address out again. A file on disk is missing, malformed, or a sequence of
file protos. The pool is created first and stays on every failure; the loop stops at the first file
that protobuf rejects and keeps what came before.

**Wire, Encoder.** Varints are real: groups of seven bits, sign extension to ten bytes. A Lua value is
a record of what the API makes of it. The recursive calls of `RawByteSize` and `RawEncode` are two
stacks of frames, one action is one loop iteration; `out` is what lies between `mData` and
`mPointer`, and nothing in the model keeps it within `mSize`. A Lua error in the second pass sets
`leaked`; once the heap behind the buffer is overwritten the process may die.

**Decoder.** `pos`, `limit`, `legit`, `depth` are the `CodedInputStream`; one action is one iteration of
`for (;;)`. All the failures the code ignores are there: a failed read leaves its default; `BeginMessage` may
fail before it stores a limit and the nested call runs all the same; `EndMessage` may return early.
The history variable `faults` names what went wrong unnoticed, so that properties can say what holds
until then.

**LuaTable.** An action is one call (`Set`, `Next`, a traversal's step, the collector's
dead keys) with all the moves it makes: `Brent`'s relinking, `rehash` with `numusearray` and `computesizes`,
`resize` with the slice that vanishes. `luaH_getn` doubles and bisects as in the code, with MAX_INT as
a constant. `ImplementsMap` forgets the layout.

**LuaGC.** The cycle is a machine of `singlestep`s between actions of the program, and how far a step goes is
left open. Whites, black and fixed bits, the gray lists, the sweep positions, `tmudata`, open
upvalues and interned strings are the code's. The program stores, allocates, drops, makes threads and
closes upvalues through the code's barriers. What it can reach, by which the collector is judged, includes
the upvalues of closures, open and closed, and what they hold.

**LuaDo.** `cstack` is the C stack as a sequence of activations of `luaD_call`, `luaV_execute`, protected
calls, hooks, the parser and `lua_resume`; `thread` holds each `lua_State`'s fields. `Uses` says which
operations a program has.

**LuaStack.** The block of the stack has an identity, so that a pointer into a block that was
reallocated is visible. Registers, varargs, tail calls, metamethods, hooks and 12 operations of the API
move values; where `luaC_checkGC` can run, a collection may shrink the stack.

**LuaRequire, LuaIo, LuaPattern.** One action is one call by a script or one step of a `for`; in `LuaPattern`
it is one call of `match`, whose recursion is a recursive operator. A frame of `LuaRequire` is a call of `require`
whose chunk runs; that chunk can call `require`, which may answer, fail with the loop error or run another, and
can set `package.loaded` of any module to nil, its own too. After that the code loads the module once
more, inside itself: the history field `cleared` of a frame tells this case from a loop that `require` missed.

**LuaBridge, LuaObjects, LuaRefs.** Tables of LuaBridge are a heap of records and the Lua stack is a sequence
of them. A namespace and a member may have the same name: then `beginNamespace` leaves on the stack what is no table
(`NotATable`), and the next function asserts (`AssertTable`). A class may be opened again where it is, and asserts too.
Objects have an identity that is never reused; `Intrusive` picks the container, `Mixing`,
`Nils`, `Unlinks` and `Allows` admit the uses of section 5. `LuaRefs` has the values of the function around a statement
on its stack; what a statement pushes and pops itself is left out.

Compositions. `MCLibraries`, `MCLifetimes`, `MCReclaim`, `MCLuaStack`, `MCLuaDo` and `MCLuaBridge` each run several instances
or several programs side by side: a behaviour is one of them (`part`), the others stay as they are. Where
a theorem is about a module (`LuaRequire`, `LuaIo`, `LuaDo`, `LuaRefs`, `LuaBridge`), its MC module extends it, so that TLC and the
proofs are about the same definitions.

## 3. Runs

All finish within five minutes on two workers.

| Run | Instance | Distinct states |
|---|---|---|
| `registry` | four file protos (one imports, one collides, one is invalid), sequences of up to 3, 2 addresses | 217 |
| `encoder` | all field types, 682 calls: tables of 1-2 entries in both orders, lists, messages three deep | 22 k |
| `decoder` | 7 400 byte strings and 304 encodings of messages; recursion limit 3 | 29 k |
| `tables` | four integers and a string over array and hash part; three colliding keys; MAXBITS 3 | 17 k |
| `collector` | four programs of 2-4 objects of every type | 1 742 k |
| `reclaim` | three programs of 2-3 objects (two tables and userdata that refer to each other; a coroutine, a closure and its upvalue; weak tables and full collections), 1 file, 2 objects of C++, fair collector | 138 k |
| `calls` | one coroutine with all kinds of calls; two that resume each other; C limit 2 + 2, 3 frames | 935 k |
| `stack` | growth and collections; the API; the same with metamethods and collections; three deep | 80 k |
| `registration` | two classes in nested namespaces that share a name with members, 2 members and a third that ends the program; three classes, every chain of bases, 2 members | 200 k |
| `lifetimes` | 3 objects, 2 userdata, 2 containers of either kind; 2 references or one with a sequence | 388 k |
| `libraries` | 3 modules and a library, chunks two deep; 2 files; patterns of up to 4 items on strings of up to 3 letters | 891 k |
| `encoder_singular` | the calls with a singular sub-message | violated |

Why the bounds are enough. Registry: a failure halfway needs two files, what follows a release two
registrations. Encoder: an entry's size depends on that entry and the sums on their order; two levels of
lists are needed for a length that contains a length and a body of 127/128 bytes for one that grows.
Decoder: to see a wrongly restored limit takes three open messages. Tables: an array part of four
crosses two powers of two, and a chain of three is the shortest that Brent's variation can break.
Collector: a lost object needs one black, one white and one gray object; what a weak table does wrong
needs its key and its value. Calls: the limits are the code's in proportion (an overflow zone of half the
limit), each is reached. Stack: with a basic size of 4 every second call outgrows it. Registration:
depth 2 has a class in a namespace in a namespace, and a chain of three classes has a nearest and a
farther base. Lifetimes: a third object is what an assignment leaves when two are linked. Reclaiming: with two
objects one can refer to the other, be turned gray again by a barrier, and be dropped and reached again, by a
finalizer or as the same string. Libraries: two
chunks that run make a loop of two modules, as the call that closes it raises an error or returns and runs none;
a module that requires itself, or itself again after it was cleared, takes one or two; a third module can fail under them; patterns of four items hold a repetition inside a
capture before another.

Which properties a run checks is in its configuration. Some are conjunctions of parts that are described
and named one by one in their module: `OwnershipSound` and `ReferencesSound` (lifetimes), `UnwindingSound`
(calls), `StructureSound` (tables), `ColoursSound` and `FinalizersSound` (collector), `PointersSound` (stack),
`RegistrationSound` and `LookupsSound` (registration), `ModulesSound`, `FilesSound`, `SearchesSound` and
`IterationsSound` (libraries), `NestingSound` (decoder).

What the properties say is written above each in its module. The ones a reader should start with:
`BufferNeverOverrun` and `DecodesMessages` (luapb itself); `ImplementsMap` and `ImplementsFrames` (refinements);
`NothingReachableDies` and `FinalizedBeforeFree` (collector); `JumpBufferLive` and `CcallsCounted` (errors);
`NothingDangles` and `FreeListSound` (who owns what); `LookupIsNearest`; `MatchIsBest` (against all the ways a
pattern can match, ordered as the manual orders them); `LibrariesOutliveObjects`.

Fairness. `EveryDecodeEnds` assumes weak fairness of the steps inside a call: a C++ function that
has begun keeps running on its thread. `GarbageIsFreed` assumes that there is no end of `singlestep`s, which are possible in
every state: a program that goes on
allocating pays for collection (`luaC_checkGC` runs a step whenever `totalbytes` passes the threshold).
`ForgottenFilesClose` and `LuaObjectsDestroyed` assume that the collector gets to each object nothing refers to, which
is what `GarbageIsFreed` and `FinalizedBeforeFree` say. No fairness is assumed of scripts.

`CHECK_DEADLOCK FALSE` stands where the system may stop: a process that died (encoder, decoder), a
state that was closed, a program that has used up its objects, calls or registrations.

## 4. The finding

`encoder_singular`: `Stream.h` 13 calls the buffer one "of determined size, written directly". A singular sub-message is
measured without its length varint (`ByteSize.cpp` 42-43) and written with it (`Encoder.cpp` 38-39): the second
pass writes past the buffer.

## 5. Statements that do not hold

These were found while modelling and are kept as formulas or constants, so that each can be reproduced by
a configuration of the module with that property and setting.

| Statement | Module, property, setting | The code |
|---|---|---|
| the buffer suffices for 64-bit integers | `MCEncoder`, `SizeSufficesAlways`, calls with an int64 field | measured as varint (`Stream.cpp` 267-286), written as text (62-72) |
| the buffer is filled | `SizeMatchesAlways`, calls with an unknown enumerator | measured with its tag, not written (`Stream.cpp` 91-95, 317-321) |
| unknown fields are passed over | `MCDecoder`, `WireFormatDecodes`, `UnknownInputs` | the payload is not skipped (`Decoder.cpp` 17-19) |
| packed lists decode | `WireFormatDecodes`, `PackedInputs` | the wire type is dropped (`Stream.cpp` 251) |
| a barrier meets no black object between cycles (`lgc.c` 665) | `LuaGC`, `BarrierAssertion`, userdata with environments | userdata that wait in `tmudata` keep their black |
| "initial state" (`lbaselib.c` 502) | `LuaDo`, `SuspendedIsInitial` | a finished coroutine whose results did not fit counts as new |
| LUA_ERRERR follows a reported overflow (`ldo.c` 374) | `LuaDo`, `OverflowIsReported` | a resume steps over the one count at which it is raised |
| "or add to an existing class registration" (`Namespace.h` 451) | `LuaBridge`, `ReopeningWorks` | the tables are looked for under the visible table, which does not have them (485) |
| a namespace is made or opened (`Namespace.h` 877) | `LuaBridge`, ~failed, Members and Spaces that share a name | what is there and no table stays on the stack (893), and the next call asserts (890, 1008) |
| "Add or replace a data member" (`Namespace.h` 644) | `ReadOnlyIsReadOnly` | a read-only member leaves the old setter (662) |
| p = p->next is safe | `LuaObjects`, `NothingDangles`, Intrusive FALSE, Unlinks TRUE | `RefCountedPtr.h` 147 releases before it reads |
| lifetime models mix (`Manual.html` 1378) | `NothingDangles`, Mixing TRUE | a container deletes an object inside a userdata |
| an object without references is deleted | `NothingIsLost` | a `longjmp` skips the containers of other arguments |
| a reference parameter refers to the argument | `ReferenceReachesObject` | it refers to a copy (`TypeList.h` 102) |
| nil raises an error (`Userdata.h` 310) | `NilIsRefused`, Nils TRUE | it becomes a null `this` |
| r = r keeps the reference | `LuaRefs`, `ReferencesMaintained`, Allows {"self"} | `LuaRef.h` 713 releases first |
| t["a"]["b"] | Allows {"nested"} | the proxy outlives its temporary (358) |
| v[3] = v[1] (`Manual.html` 1629) | `FreeListSound`, Allows {"proxies"} | the implicit operator= copies a reference (173) |
| rawget leaves the values of the function around it | `ReferencesMaintained`, Allows {"rawget"} | an unnamed `StackPop` pops at once, from an empty stack too (371) |
| append adds an element | `AppendAdds`, a number at index 0 | `luaL_ref` takes it for its free list (389) |
| tostring converts its reference | `TostringConverts` | it reads the bottom of the stack (729) |
| assignment "may invoke metamethods" | `AssignmentMayInvoke` | `lua_rawset` (179) |
| ci->top <= stack_last (`ldo.c` 292) | `LuaStack`, `FramesFit`, a vararg function with 3 parameters; `needsarg`; a hook between instructions with open results | `ldo.c` 276, 219 and 194 |

## 6. Theorems

`DescPoolProofs`, `EncoderProofs`, `DecoderProofs`, `LuaRequireProofs`, `LuaIoProofs`, `LuaDoProofs`,
`LuaBridgeProofs` and `LuaRefsProofs` hold them. Each has the same three steps: the initial states satisfy an inductive
invariant, every action keeps it (one lemma per action, or per operator that several actions share), and
it implies the property.

| Theorem | For every | Property |
|---|---|---|
| `MapsAlwaysMirrorPool`, `RegistryTypeCorrect`, `RegisteredAlwaysComplete` | set of protos, file and addresses | the maps hold the types of the live pool, and all of them once registration has succeeded |
| `EncoderTypeCorrect` | schema, finite family of acyclic tables | frames, sizes and bytes are well typed |
| `OnlyFloatsLeak` | the same | the first pass has raised every error but that of a float |
| `BufferCorrect`, `BufferFilledExactly` | the same, without the entries of section 5 | no write past the buffer; every byte written; every head gives its body's length |
| `DecoderTypeCorrect`, `DecoderNesting`, `DecoderProgresses` | schema, input and recursion limit | limits nest, depth counts frames, every iteration uses a byte or returns |
| `ModulesAlwaysSound`, `LoadedOnceAlways` | set of modules and libraries, depth of `require` | `ModulesSound`: among others, a chunk that runs inside itself was cleared while it ran; a loaded value changes only where a script changes it |
| `FilesAlwaysSound` | set of handles and streams | one owner per open file, closed once and in its own way |
| `JumpsAlwaysLive` | number of threads, limits, program | `JumpBufferLive` |
| `UnwindingAlwaysSound` | the same | `UnwindingSound`: what `luaD_pcall` and `lua_resume` put back is what was there |
| `FramesAlwaysMatch` | the same | `FramesMatchActivations`: a thread's CallInfos are those of its activations |
| `YieldAlwaysReachesResume` | the same | `YieldReachesResume` |
| `RegistrationAlwaysSound` | set of classes, members and namespaces, order of registrations | `RegistrationSound`: each object owns what is on the Lua stack, which ends as it began; nothing is thrown, and no assertion fails but that a namespace is a table and that of a class that is opened again |
| `ClassChecksAlwaysExact` | the same, any depth of derivation | `ClassCheckIsExact`: an object is of its class and of the bases of that class, and of no other |
| `LookupsAlwaysSound` | the same | `LookupsSound`: the nearest and last registration is found and accepts the object it was found on |
| `ReferencesAlwaysSound` | set of variables, tables and values, registry that is large enough; programs that are `WellDefined` | `ReferencesSound`: no slot is leaked or has two owners, the free list ends, every reference reads what it was given |
| `AppendOnlyAdds` | the same, without numbers at index 0 | `AppendAdds`: append fills an empty place and keeps the rest |

Why the invariants are needed.

* `RegistryInv` adds that without a pool nothing is built (`PoolInv`), so that a registration always starts from
  empty maps, and that a pool whose registration has succeeded holds every file of its set (`AllBuilt`).
* `EncoderInv` relates the second pass to what the first has measured: `MemoInv` says that `memo` holds prefix
  sums of the sizes of a table's entries, `SizingInv` that the first pass works on tables with growing numbers,
  none of them measured yet, `WritingInv` that the second visits what was measured. `LayoutInv` places every open frame in the buffer: it began where its
  parent's prefix sum says and has written what `memo` gives for its entries so far; with `WriteValueLen`,
  `TagSizeIgnoresType` and `HeadLen` (a value, a tag and a head are as long as their sizes say) each step keeps
  it, and `FilledInv` carries it to the string that is returned.
* `StreamInv` bounds the position by the limit and the limit by the input; `AfterVarintBounds`, `ValueBounds`
  and `BeginMessageBounds` do so for each read, `IterationFrames` says which frames an iteration can push or pop.
  `NestingInv` adds the limits that the frames have saved: they are what `PopLimit` restores.
* `RequireInv` says that each module whose chunk runs is marked unless it was cleared since (`FramesMarked`) and that a library's userdata is
  older than the objects whose finalizers are in it (`LibsInv`), which is why `lua_close`, calling finalizers
  from the newest, unloads last.
* `IoInv` counts owners: no two handles have the same open stream, and the default files, the loops and the
  standard files refer to handles that exist.
* `Sound` of `LuaDoProofs` is about the whole C stack: there is a snapshot for every activation of what its thread must look
  like whenever everything above it is gone (`Level`): its frames, its C calls, whether hooks are allowed, its innermost
  target. An activation that goes on with the thread of the one below adds to that snapshot what it brings
  (`Stays`), `lua_resume` begins a new one (`Starts`), so that a jump drops activations of the failing thread alone (`Aims`). The thread
  that runs looks like the snapshot on top (`Matches`), the ones that have resumed another like the one below that
  `lua_resume` (`Waiting`), and the others are `Idle`. `nCcalls` is the snapshot's count exactly, unless an
  error is being handled below: then it may be more, as the code does not decrement it before it has jumped (`Counts`). C
  code never stands right above a target (`Fits`), so that `lua_yield`, which leaves two activations, cannot leave
  one. `FramesUpToIs` and `CcallsUpToIs` unfold the recursive functions of the properties by a least
  counterexample.
* `Sound` of `LuaBridgeProofs` ties each table to what it was made for. The nine tables of a class lie together from the place
  that `registry` names (`At`), and `Wired` says what connects them; the blocks of two classes, the tables of
  namespaces and `_G` are apart (`IsRegistry`, `IsSpace`), so that what one registration writes no other reads. `Stocked` says
  which of the nine hold a member, and that it is the last registration that is visible there; `ParentsKnown` and
  `Lineage` that `__parent` follows `base`, which has no cycle. `StackInv` says which tables are on the stack, from the
  bottom, with something that is no table on top at most. A class is found only where it was put, and the table there
  has no `__class` (`IsSpace`, `Wired`): opening it again asserts and changes nothing. The recursive functions `Chain` and `Ancestors` are shown to follow the same lineage (`ChainIs`, `AncestorsAre`), by
  a function that satisfies their equation and the least place at which another could differ; with that the first hit along
  a chain is the nearest class with an entry (`SearchIsNearest`).
* `Sound` of `LuaRefsProofs` has two parameters, because a statement is a sequence of operations and in between
  some references are about to be replaced and a proxy's key occupies a slot: all other references own
  their slots and read what they were given, and the registry is sound (`RegistrySound`). That is stated without the
  recursive function of `FreeSlots`: there are a sequence of free slots, each linked to the one before, and a
  number of slots ever taken, all of them free or owned (`FreeList`). `Takes` and `Gives` are `luaL_ref` and `luaL_unref` on
  it; when the list is empty every slot that was taken is owned, which is why any border `lua_objlen` may
  return is the right one (`OneBorderWhenEmpty`). `RegistryReads` unfolds `FreeSlots` and finds that sequence, backwards.

Assumptions on constants are named where they are declared and evaluated by TLC: `ProtosAssumption`,
`ContentsAssumption`, `AddrsAssumption` (files are sequences of known protos, an allocation is not null);
`SchemaAssumption`, `RegisteredAssumption`, `PairsAssumption`, `CallsAssumption`, `GarbageAssumption`,
`InputsAssumption`, `LimitAssumption` (fields have known types and their sub-messages are in the schema, tables
are finite and acyclic, input is bytes); `NamesAssumption`, `BoundsAssumption`, `StdAssumption`, `LimitsAssumption`
(the main thread exists, limits are positive); `RefsAssumption` (the
registry has a slot for every reference and for a statement's temporaries, as Lua's registry grows). `WellDefined` is a
hypothesis of the theorems on references: the program does none of what section 5 lists for `LuaRefs` as going
wrong; the runs make the same restriction, by `Allows`. The theorems on `LuaBridge` have no hypothesis. Its `NamesAssumption` says that a
class has a name of its own, and that no name is one of the fields LuaBridge keeps for itself.

What stays with TLC.

* Liveness (`EveryDecodeEnds`, `GarbageIsFreed`, `FinalizersRelease`) and everything that needs
  `ENABLED`. `IterationsProgress` is the variant behind `EveryDecodeEnds`, and it is proved.
* What depends on induction over data: the collector's reachability, the chains of `LuaTable`, what a message decodes to
  (`DecodesMessages`).
* `LuaObjects` and `LuaPattern`, whose backtracking and destructors are recursive operators.
* The refinements, `LuaStack` and `LuaGC`, which have no theorem yet.

## 7. What is not modelled

`ByteSize` (not exported), the binding and the error log (no state), LuaBridge's conversions (`Stack.h`, no state), the
Lua compiler (its output is data for the interpreter), the instructions of `luaV_execute` that only compute
values, `string.format`, the other standard libraries, allocation failure, the 64 MB limit of `CodedInputStream`,
tables that contain themselves when encoded (the code recurses until the C stack is gone), messages of
2^31 bytes. Hazards without a property have a note in `PROJECT.json`.

## 8. Plan

What could be proved next: `FinalizersSound` of `LuaGC`, which needs no reachability (a userdata waits in one list at a
time), once there are lemmas on `SelectSeq`; and the refinements step by step, `LuaStack` of `LuaFrames` first.
