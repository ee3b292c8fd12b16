------------------------------ MODULE LuaStack -------------------------------
(***************************************************************************)
(* The stack of a Lua thread (lua/ldo.c, with the functions of lapi.c,     *)
(* lvm.c, lfunc.c and lgc.c that use it): one array for the values of all  *)
(* active calls, which a call, a hook or a push may move to a larger block *)
(* and a garbage collection to a smaller one.                              *)
(*                                                                         *)
(* A pointer into the array is <<block, offset>>: every reallocation makes *)
(* a new block, and a pointer with another block's number points to freed  *)
(* memory.  What the array holds above top is nobody's and left out: a top *)
(* that goes up without a store uncovers Junk.  Every call has one thread. *)
(***************************************************************************)
EXTENDS Integers, SequencesExt, FiniteSetsExt

CONSTANTS
    Values, Protos,     \* see LuaFrames
    MaxFrames,          \* bound: calls in each other
    MaxValues,          \* bound: values of a C function, and indices
    MaxTailCalls,       \* bound: tail calls of one frame
    MaxUpvalues,        \* bound: open upvalues
    LUA_MINSTACK, BASIC_STACK_SIZE, EXTRA_STACK, LUAI_MAXCSTACK,
    Uses                \* of "gc", "hook", "open hook", "api", "tm": what programs do

SizesAssumption ==
    /\ LUA_MINSTACK \in 1..(BASIC_STACK_SIZE - 2)
    /\ EXTRA_STACK \in Nat /\ LUAI_MAXCSTACK \in Nat

VARIABLE L      \* the lua_State

Nil == "nil"
Junk == "junk"
Arg == "arg"
C == [lua |-> FALSE]
Kinds == Protos \cup {C}

Max2(a, b) == IF a > b THEN a ELSE b
Filled(s, n, v) == s \o [i \in 1..(n - Len(s)) |-> v]
First(s, n) == SubSeq(s, 1, IF n < Len(s) THEN n ELSE Len(s))

Ptr(l, o) == <<l.block, o>>              \* restorestack
Offset(p) == p[2]                        \* savestack
Top(l) == Len(l.stack)
SetTop(l, n) == [l EXCEPT !.stack = Filled(First(@, n), n, Junk)]
Use(l, p) == [l EXCEPT !.stale = @ \/ p[1] # l.block]
Store(l, p, v) ==
    IF p[1] # l.block THEN Use(l, p) ELSE [l EXCEPT !.stack[Offset(p) + 1] = v]
Ci(l) == Last(l.ci)
SetCiTop(l, o) == [l EXCEPT !.ci[Len(l.ci)].top = Ptr(l, o)]

Init ==     \* stack_init
    L = [stack |-> <<Nil>>, size |-> BASIC_STACK_SIZE + EXTRA_STACK,
         last |-> BASIC_STACK_SIZE - 1, block |-> 0, base |-> <<0, 1>>,
         ci |-> <<[func |-> <<0, 0>>, base |-> <<0, 1>>, top |-> <<0, 1 + LUA_MINSTACK>>,
                   kind |-> C, nresults |-> 0, tailcalls |-> 0, into |-> <<"host">>]>>,
         openupval |-> {}, stale |-> FALSE]
-----------------------------------------------------------------------------
(* The array. *)

correctstack_SkipsUpvalues(l, block) ==
    LET Moved(p) == <<block, Offset(p)>>
    IN  [l EXCEPT !.block = block, !.base = Moved(@),
                  !.ci = [i \in DOMAIN @ |-> [@[i] EXCEPT !.func = Moved(@), !.base = Moved(@),
                                                          !.top = Moved(@)]]]

correctstack(l, block) ==
    LET Moved(p) == <<block, Offset(p)>>
    IN  [l EXCEPT !.block = block, !.base = Moved(@),
                  !.openupval = {[u EXCEPT !.v = Moved(@)] : u \in @},
                  !.ci = [i \in DOMAIN @ |-> [@[i] EXCEPT !.func = Moved(@), !.base = Moved(@),
                                                          !.top = Moved(@)]]]

luaD_reallocstack(l, newsize) ==
    correctstack([l EXCEPT !.size = newsize + 1 + EXTRA_STACK, !.last = newsize,
                           !.stack = First(@, newsize + 1 + EXTRA_STACK)], l.block + 1)

luaD_growstack(l, n) ==
    luaD_reallocstack(l, IF n <= l.size THEN 2 * l.size ELSE l.size + n)

luaD_checkstack_OffByOne(l, n) == IF l.last - Top(l) < n - 1 THEN luaD_growstack(l, n) ELSE l

luaD_checkstack(l, n) == IF l.last - Top(l) <= n THEN luaD_growstack(l, n) ELSE l

(* What the collector does to the stack of the thread it traverses. *)
checkstacksizes_Used(l, used) ==
    IF 2 * used < l.size + BASIC_STACK_SIZE THEN luaD_reallocstack(l, l.size \div 2) ELSE l

checkstacksizes(l, used) ==
    IF 4 * used < l.size /\ 2 * (BASIC_STACK_SIZE + EXTRA_STACK) < l.size
    THEN luaD_reallocstack(l, l.size \div 2) ELSE l

traversestack(l) ==
    checkstacksizes(l, Max({Top(l)} \cup {Offset(l.ci[i].top) : i \in DOMAIN l.ci}))

luaC_checkGC(l, gc) == IF gc THEN traversestack(l) ELSE l

luaF_close(l, level) ==
    [l EXCEPT !.openupval = {u \in @ : Offset(u.v) < Offset(level)}]

(* Hooks. *)

Hooks == {"none"} \cup (IF "hook" \in Uses THEN {"hook"} ELSE {})
                  \cup (IF {"hook", "gc"} \subseteq Uses THEN {"collect"} ELSE {})
Collects == IF "gc" \in Uses THEN BOOLEAN ELSE {FALSE}

(* A hook function finds LUA_MINSTACK free values, may start a collection, and leaves
   top and ci->top as they were. *)
luaD_callhook(l, hook) ==
    IF hook = "none" THEN l
    ELSE SetCiTop(luaC_checkGC(SetCiTop(luaD_checkstack(l, LUA_MINSTACK), Top(l) + LUA_MINSTACK),
                               hook = "collect"),
                  Offset(Ci(l).top))
-----------------------------------------------------------------------------
(* Calls. *)

tryfuncTM_KeepsFunc(l, func) ==
    LET l1 == luaD_checkstack(l, 1)
    IN  Store([l1 EXCEPT !.stack = InsertAt(@, func + 1, Junk)], Ptr(l, func), "function")

tryfuncTM(l, func) ==
    LET l1 == luaD_checkstack(l, 1)
    IN  Store([l1 EXCEPT !.stack = InsertAt(@, func + 1, Junk)], Ptr(l1, func), "function")

adjust_varargs_DropsParameters(l, p, actual) ==
    LET l1 == SetTop(l, Top(l) + p.num)
    IN  [l1 EXCEPT !.stack = @ \o (IF p.needsarg THEN <<Arg>> ELSE <<>>)]

(* The fixed parameters move above the extra arguments. *)
adjust_varargs(l, p, actual) ==
    LET args  == Top(l) - actual
        nils  == [l EXCEPT !.stack = Filled(@, args + p.num, Nil)]
        fixed == SubSeq(nils.stack, args + 1, args + p.num)
        moved == [i \in DOMAIN nils.stack |->
                    IF i \in (args + 1)..(args + p.num) THEN Nil ELSE nils.stack[i]]
    IN  [nils EXCEPT !.stack = moved \o fixed \o (IF p.needsarg THEN <<Arg>> ELSE <<>>)]

luaD_precall_KeepsFunc(l, func, kind, tm, nresults, into, gc, hook) ==
    LET l1   == IF tm THEN tryfuncTM(l, func) ELSE l
        l2   == luaD_checkstack(l1, IF kind.lua THEN kind.max ELSE LUA_MINSTACK)
        l3   == IF ~kind.lua THEN l2
                ELSE IF kind.vararg
                THEN adjust_varargs(luaC_checkGC(l2, gc /\ kind.needsarg), kind, Top(l2) - func - 1)
                ELSE [l2 EXCEPT !.stack = First(@, func + 1 + kind.num)]
        base == IF kind.lua /\ kind.vararg THEN Max2(Top(l2), func + 1 + kind.num) ELSE func + 1
        top  == IF kind.lua THEN base + kind.max ELSE Top(l3) + LUA_MINSTACK
        ci   == [func |-> Ptr(l1, func), base |-> Ptr(l3, base), top |-> Ptr(l3, top),
                 kind |-> kind, nresults |-> nresults, tailcalls |-> 0, into |-> into]
    IN  luaD_callhook([l3 EXCEPT !.ci = Append(@, ci), !.base = ci.base,
                                 !.stack = IF kind.lua THEN Filled(@, top, Nil) ELSE @], hook)

(* The function at offset func, with its arguments up to top; into is the code that
   waits for its results. *)
luaD_precall(l, func, kind, tm, nresults, into, gc, hook) ==
    LET l1   == IF tm THEN tryfuncTM(l, func) ELSE l
        l2   == luaD_checkstack(l1, IF kind.lua THEN kind.max ELSE LUA_MINSTACK)
        l3   == IF ~kind.lua THEN l2
                ELSE IF kind.vararg
                THEN adjust_varargs(luaC_checkGC(l2, gc /\ kind.needsarg), kind, Top(l2) - func - 1)
                ELSE [l2 EXCEPT !.stack = First(@, func + 1 + kind.num)]
        base == IF kind.lua /\ kind.vararg THEN Max2(Top(l2), func + 1 + kind.num) ELSE func + 1
        top  == IF kind.lua THEN base + kind.max ELSE Top(l3) + LUA_MINSTACK
        ci   == [func |-> Ptr(l3, func), base |-> Ptr(l3, base), top |-> Ptr(l3, top),
                 kind |-> kind, nresults |-> nresults, tailcalls |-> 0, into |-> into]
    IN  luaD_callhook([l3 EXCEPT !.ci = Append(@, ci), !.base = ci.base,
                                 !.stack = IF kind.lua THEN Filled(@, top, Nil) ELSE @], hook)

Adjusted(results, wanted) ==
    IF wanted = -1 THEN results ELSE Filled(First(results, wanted), wanted, Nil)

luaD_poscall_KeepsFirst(l, first, hook) ==
    LET l1 == Use(luaD_callhook(l, hook), Ptr(l, first))
        ci == Ci(l1)
    IN  [Use(l1, ci.func) EXCEPT
          !.ci = Front(@), !.base = Last(Front(l1.ci)).base,
          !.stack = First(@, Offset(ci.func))
                    \o Adjusted(SubSeq(@, first + 1, Len(@)), ci.nresults)]

luaD_poscall(l, first, hook) ==
    LET l1 == luaD_callhook(l, hook)        \* callrethooks saves first as an offset
        ci == Ci(l1)
    IN  [Use(l1, ci.func) EXCEPT
          !.ci = Front(@), !.base = Last(Front(l1.ci)).base,
          !.stack = First(@, Offset(ci.func))
                    \o Adjusted(SubSeq(@, first + 1, Len(@)), ci.nresults)]

callTMres(l, res, gc) ==        \* from its call of luaD_call on
    LET l1 == luaC_checkGC(l, gc)
    IN  Store(SetTop(l1, Top(l1) - 1), Ptr(l1, res), Last(l1.stack))

(* The rest of the caller's operation, once f has put its results in place. *)
Resumed(l, f, gc) ==
    CASE f.into[1] = "lua_call" ->
            LET l1 == luaC_checkGC(l, gc)
            IN  IF f.nresults = -1 /\ Top(l1) >= Offset(Ci(l1).top) THEN SetCiTop(l1, Top(l1)) ELSE l1
      [] f.into[1] = "OP_CALL" ->
            IF f.nresults = -1 THEN l ELSE SetTop(l, Offset(Ci(l).top))
      [] f.into[1] = "callTMres" -> callTMres(l, Offset(l.base) + f.into[2], gc)

(* OP_RETURN of the values from register a up to top. *)
Returned_LeavesUpvalues(l, a, gc, hook) ==
    Resumed(luaD_poscall(l, Offset(l.base) + a, hook), Ci(l), gc)

Returned(l, a, gc, hook) ==
    Resumed(luaD_poscall(luaF_close(l, l.base), Offset(l.base) + a, hook), Ci(l), gc)

(* OP_TAILCALL moves the frame of the function it called over its own. *)
MoveDown_LeavesUpvalues(l) ==
    LET new   == Ci(l)
        ci    == l.ci[Len(l.ci) - 1]
        func  == Offset(ci.func)
        pfunc == Offset(new.func)
        base  == Ptr(l, func + Offset(new.base) - pfunc)
        stack == First(l.stack, func) \o SubSeq(l.stack, pfunc + 1, Top(l))
    IN  [l EXCEPT
          !.stack = stack, !.base = base,
          !.ci = Append(SubSeq(@, 1, Len(@) - 2),
                        [ci EXCEPT !.base = base, !.top = Ptr(l, Len(stack)), !.kind = new.kind,
                                   !.tailcalls = @ + 1])]

MoveDown_SwapsFrames(l) ==
    LET new   == Ci(l)
        ci    == l.ci[Len(l.ci) - 1]
        func  == Offset(ci.func)
        pfunc == Offset(new.func)
        base  == Ptr(l, func + pfunc - Offset(new.base))
        stack == First(l.stack, func) \o SubSeq(l.stack, pfunc + 1, Top(l))
    IN  [luaF_close(l, ci.base) EXCEPT
          !.stack = stack, !.base = base,
          !.ci = Append(SubSeq(@, 1, Len(@) - 2),
                        [ci EXCEPT !.base = base, !.top = Ptr(l, Len(stack)), !.kind = new.kind,
                                   !.tailcalls = @ + 1])]

MoveDown(l) ==
    LET new   == Ci(l)
        ci    == l.ci[Len(l.ci) - 1]
        func  == Offset(ci.func)
        pfunc == Offset(new.func)
        base  == Ptr(l, func + Offset(new.base) - pfunc)
        stack == First(l.stack, func) \o SubSeq(l.stack, pfunc + 1, Top(l))
    IN  [luaF_close(l, ci.base) EXCEPT
          !.stack = stack, !.base = base,
          !.ci = Append(SubSeq(@, 1, Len(@) - 2),
                        [ci EXCEPT !.base = base, !.top = Ptr(l, Len(stack)), !.kind = new.kind,
                                   !.tailcalls = @ + 1])]
-----------------------------------------------------------------------------
(* All pointers of the thread point into its array. *)
Current(l) ==
    /\ ~l.stale /\ l.base[1] = l.block
    /\ \A u \in l.openupval : u.v[1] = l.block
    /\ \A i \in DOMAIN l.ci :
        {p[1] : p \in {l.ci[i].func, l.ci[i].base, l.ci[i].top}} = {l.block}

(* The blocks of a step have numbers of their own: the first is block 0 if nothing
   points to another. *)
Becomes(l) == L' = IF Current(l) THEN correctstack(l, 0) ELSE l

(* A C function and the API.  What it may do with an index or a number of values is
   what the api_check macros ask. *)

InC == ~Ci(L).kind.lua
Base == Offset(L.base)
Size == Top(L) - Base       \* lua_gettop
Api == InC /\ "api" \in Uses
HasRoom == Size < MaxValues /\ Top(L) < Offset(Ci(L).top)

Valid(i) == i \in 1..Size \/ -i \in 1..Size
index2adr(i) == IF i > 0 THEN Base + i ELSE Top(L) + 1 + i      \* its position in stack

SetStack(s) == L' = [L EXCEPT !.stack = s]

Push(v, gc) ==              \* lua_pushlstring
    /\ InC /\ HasRoom
    /\ LET l == luaC_checkGC(L, gc) IN Becomes([l EXCEPT !.stack = Append(@, v)])
lua_pushvalue(i) == Api /\ HasRoom /\ Valid(i) /\ SetStack(Append(L.stack, L.stack[index2adr(i)]))
lua_settop(n) ==
    /\ Api /\ Base + n <= Offset(Ci(L).top)
    /\ SetStack(Filled(First(L.stack, Base + n), Base + n, Nil))
lua_pop(n) == InC /\ n \in 1..Size /\ SetStack(First(L.stack, Top(L) - n))
lua_remove(i) == Api /\ Valid(i) /\ SetStack(RemoveAt(L.stack, index2adr(i)))
lua_insert_Swaps(i) ==
    /\ Api /\ Valid(i)
    /\ SetStack([L.stack EXCEPT ![index2adr(i)] = Last(L.stack), ![Top(L)] = L.stack[index2adr(i)]])
lua_insert(i) ==
    /\ Api /\ Valid(i)
    /\ SetStack(InsertAt(Front(L.stack), index2adr(i), Last(L.stack)))
lua_replace(i) ==
    /\ Api /\ Valid(i)
    /\ SetStack(Front([L.stack EXCEPT ![index2adr(i)] = Last(L.stack)]))

lua_checkstack(n) ==
    /\ Api /\ Size + n <= LUAI_MAXCSTACK
    /\ LET l == luaD_checkstack(L, n) IN Becomes(SetCiTop(l, Max2(Offset(Ci(l).top), Top(L) + n)))

Calls == Len(L.ci) < MaxFrames
Metas == IF "tm" \in Uses THEN BOOLEAN ELSE {FALSE}

lua_call(n, kind, tm, nresults, gc, hook) ==
    /\ InC /\ Calls /\ n < Size
    /\ nresults = -1 \/ Offset(Ci(L).top) - Top(L) >= nresults - n     \* checkresults
    /\ Becomes(luaD_precall(L, Top(L) - n - 1, kind, tm, nresults, <<"lua_call">>, gc, hook))

(* Bound: a C function takes no more than MaxValues values. *)
Bounded(l) == Ci(l).kind.lua \/ Top(l) - Offset(l.base) <= MaxValues

(* The C function returns its last n values.  The instruction after an OP_TAILCALL of
   a C function is an OP_RETURN of all its results. *)
Return(n, gc, hook) ==
    /\ InC /\ Len(L.ci) > 1 /\ n \in 0..Size
    /\ LET l == luaD_poscall(L, Top(L) - n, hook)
       IN  Becomes(IF Ci(L).into[1] = "OP_TAILCALL"
                   THEN Returned(l, Offset(Ci(L).func) - Offset(l.base), gc, hook)
                   ELSE Resumed(l, Ci(L), gc))
    /\ Bounded(L')
-----------------------------------------------------------------------------
(* A Lua function.  A call with B = 0, or a return with B = 0, takes the values up to
   top, which the instruction before it has set. *)

InLua == Ci(L).kind.lua
Open == InLua /\ Top(L) # Offset(Ci(L).top)
Closed == InLua /\ ~Open
Registers == 0..(Size - 1)
Takes(a, n) == InLua /\ a \in 0..(Ci(L).kind.max - 1) /\ n <= Size - a /\ (Open => n = Size - a)

(* The registers above a call's have no variable: the compiler closes blocks. *)
NoVariables(a) == \A u \in L.openupval : Offset(u.v) < Base + a

(* OP_MOVE, OP_LOADK and the like; with gc, OP_NEWTABLE, OP_CONCAT or OP_CLOSURE. *)
SetRegister(a, v, gc) == Closed /\ Becomes(luaC_checkGC(Store(L, Ptr(L, Base + a), v), gc))

luaF_findupval(a) ==
    /\ Closed /\ Cardinality(L.openupval) < MaxUpvalues
    /\ L' = [L EXCEPT !.openupval = @ \cup {[v |-> Ptr(L, Base + a), frame |-> Len(L.ci),
                                            tailcalls |-> Ci(L).tailcalls, register |-> a]}]

OP_CLOSE(a) == Closed /\ L' = luaF_close(L, Ptr(L, Base + a))

OP_VARARG(a, b) ==
    /\ Closed /\ Ci(L).kind.vararg /\ a + b <= Size
    /\ LET n == Base - Offset(Ci(L).func) - Ci(L).kind.num - 1
       IN  L' = [L EXCEPT !.stack = [i \in DOMAIN @ |->
                    LET j == i - Base - a IN
                    IF j \notin 1..b THEN @[i] ELSE IF j <= n THEN @[Base - n + j] ELSE Nil]]

(* return with "..." at the end: OP_VARARG and OP_RETURN, both with B = 0 *)
ReturnVarArgs(a, n, gc, hook) ==
    /\ Closed /\ Ci(L).kind.vararg /\ a + n < Size
    /\ LET nvar == Base - Offset(Ci(L).func) - Ci(L).kind.num - 1
           l    == luaD_checkstack(L, nvar)
       IN  Becomes(Returned([l EXCEPT !.stack = First(@, Base + a + n)
                                                \o SubSeq(@, Base - nvar + 1, Base)], a, gc, hook))
    /\ Bounded(L')

OP_CALL(a, n, kind, tm, nresults, gc, hook) ==
    /\ Calls /\ Takes(a, n + 1) /\ NoVariables(a)
    /\ nresults # -1 => a + nresults <= Ci(L).kind.max
    /\ Becomes(luaD_precall(SetTop(L, Base + a + 1 + n), Base + a, kind, tm, nresults,
                            <<"OP_CALL">>, gc, hook))

OP_TAILCALL(a, n, kind, tm, gc, hook) ==
    /\ Calls /\ Takes(a, n + 1) /\ Ci(L).tailcalls < MaxTailCalls
    /\ LET l == luaD_precall(SetTop(L, Base + a + 1 + n), Base + a, kind, tm, -1, <<"OP_TAILCALL">>,
                             gc, hook)
       IN  Becomes(IF kind.lua THEN MoveDown(l) ELSE l)

OP_RETURN(a, n, gc, hook) ==
    Takes(a, n) /\ Becomes(Returned(SetTop(L, Base + a + n), a, gc, hook)) /\ Bounded(L')

(* An instruction with a metamethod, which is given register a and a constant. *)
Metamethod(a, kind, v, gc, hook) ==
    /\ Closed /\ Calls /\ "tm" \in Uses
    /\ LET l == luaD_checkstack(L, 3)
       IN  Becomes(luaD_precall([l EXCEPT !.stack = @ \o <<"function", L.stack[Base + a + 1], v>>],
                                Top(l), kind, FALSE, 1, <<"callTMres", a>>, gc, hook))

(* A line or count hook, between two instructions. *)
traceexec(hook) ==
    /\ InLua /\ hook # "none" /\ (Open => "open hook" \in Uses)
    /\ Becomes(luaD_callhook(L, hook))

Wanted == {-1, 0, 1}

Next ==
    \/ \E v \in Values :
        \E gc \in Collects : Push(v, gc) \/ \E a \in Registers : SetRegister(a, v, gc)
    \/ \E i \in (-MaxValues..MaxValues) \ {0} :
        lua_pushvalue(i) \/ lua_remove(i) \/ lua_insert(i) \/ lua_replace(i)
    \/ \E n \in 0..MaxValues : lua_settop(n) \/ lua_pop(n) \/ (n > 0 /\ lua_checkstack(n))
    \/ \E a \in Registers :
        OP_CLOSE(a) \/ luaF_findupval(a) \/ \E b \in 1..Size : OP_VARARG(a, b)
    \/ \E hook \in Hooks :
        \/ traceexec(hook)
        \/ \E gc \in Collects :
            \/ \E n \in 0..Size : Return(n, gc, hook)
            \/ \E a, n \in 0..Size :
                OP_RETURN(a, n, gc, hook) \/ ReturnVarArgs(a, n, gc, hook)
            \/ \E kind \in Kinds :
                \/ \E tm \in Metas, n \in 0..Size :
                    \/ \E nresults \in Wanted :
                        \/ lua_call(n, kind, tm, nresults, gc, hook)
                        \/ \E a \in Registers : OP_CALL(a, n, kind, tm, nresults, gc, hook)
                    \/ \E a \in Registers : OP_TAILCALL(a, n, kind, tm, gc, hook)
                \/ \E a \in Registers, v \in Values : Metamethod(a, kind, v, gc, hook)

Spec == Init /\ [][Next]_L
-----------------------------------------------------------------------------
(* Types of the fields of lua_State that this module models. *)
Pointers == Nat \X Nat
TypeOK ==
    /\ L.size \in Nat /\ L.last \in Nat /\ L.block \in Nat /\ L.stale \in BOOLEAN
    /\ L.stack \in Seq(Values \cup {Nil, Junk, Arg, "function"}) /\ L.base \in Pointers
    /\ \A i \in DOMAIN L.ci :
        /\ {L.ci[i].func, L.ci[i].base, L.ci[i].top} \subseteq Pointers
        /\ L.ci[i].kind \in Kinds /\ L.ci[i].nresults \in Wanted
    /\ \A u \in L.openupval : u.v \in Pointers

(* Whatever moves the array, nothing is read or written through a pointer into an old
   block, and no pointer of the thread is left behind (savestack and correctstack). *)
NoStalePointer == Current(L)

(* A function has the registers or the LUA_MINSTACK values it may use without a check:
   lua_assert(ci->top <= L->stack_last) of luaD_precall, luaD_callhook and traversestack. *)
FramesFit ==
    /\ L.last = L.size - EXTRA_STACK - 1
    /\ Top(L) <= L.last
    /\ \A i \in DOMAIN L.ci : Offset(L.ci[i].top) <= L.last

(* An open upvalue is the register of the call whose variable it is: it moves with the
   stack, and a return, a tail call or the end of a block closes it before another call
   may use that register. *)
UpvaluesNameRegisters ==
    \A u \in L.openupval :
        /\ u.frame <= Len(L.ci)
        /\ L.ci[u.frame].tailcalls = u.tailcalls
        /\ Offset(u.v) = Offset(L.ci[u.frame].base) + u.register

(* Every call has values of its own: what it finds, changes and gives back is what
   LuaFrames says, whoever moves the stack in between. *)
Frames ==
    [i \in DOMAIN L.ci |->
        LET ci   == L.ci[i]
            base == Offset(ci.base)
            top  == IF i = Len(L.ci) THEN Top(L) ELSE Offset(L.ci[i + 1].func)
        IN  [vals     |-> SubSeq(L.stack, base + 1, top),
             extra    |-> IF ci.kind.lua
                          THEN IF ci.kind.vararg
                               THEN SubSeq(L.stack, Offset(ci.func) + ci.kind.num + 2, base) ELSE <<>>
                          ELSE <<>>,
             kind     |-> ci.kind,
             nresults |-> ci.nresults,
             into     |-> ci.into]]

Abstract == INSTANCE LuaFrames WITH frames <- Frames
FramesStep == Abstract!Next \/ UNCHANGED Frames
ImplementsFrames == Abstract!Init /\ [][FramesStep]_L

(* Every pointer into the stack is one into its block, and those of upvalues are at the
   variables they are for. *)
PointersSound == TypeOK /\ NoStalePointer /\ UpvaluesNameRegisters
=============================================================================
