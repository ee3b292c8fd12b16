------------------------------ MODULE LuaFrames ------------------------------
(***************************************************************************)
(* What the stack of a Lua thread promises to its functions: every call    *)
(* has values of its own, gets the arguments of its caller and gives it    *)
(* the results the caller wants.  LuaStack implements it with one array    *)
(* (lua/ldo.c, lua/lapi.c, lua/lvm.c).                                     *)
(***************************************************************************)
EXTENDS Integers, SequencesExt

CONSTANTS
    Values,      \* values that functions make
    Protos,      \* Lua functions: [lua, num, max, vararg, needsarg]
    MaxFrames,   \* calls in each other
    MaxValues    \* values of a C function

Nil == "nil"
Junk == "junk"      \* what a register holds that the compiler would not read
Arg == "arg"        \* the table of extra arguments of an old vararg function
C == [lua |-> FALSE]
Kinds == Protos \cup {C}

VARIABLE frames

Filled(s, n, v) == s \o [i \in 1..(n - Len(s)) |-> v]
First(s, n) == SubSeq(s, 1, IF n < Len(s) THEN n ELSE Len(s))
Rest(s, n) == SubSeq(s, n + 1, Len(s))
Adjusted(results, wanted) ==
    IF wanted = -1 THEN results ELSE Filled(First(results, wanted), wanted, Nil)

Top == frames[Len(frames)]
Below(n) == SubSeq(frames, 1, Len(frames) - n)
SetVals(vals) == frames' = Append(Below(1), [Top EXCEPT !.vals = vals])

(* An index of the API, from the bottom or from the top. *)
Indices == (-MaxValues..MaxValues) \ {0}
Valid(i) == i \in 1..Len(Top.vals) \/ -i \in 1..Len(Top.vals)
At(i) == IF i > 0 THEN i ELSE Len(Top.vals) + 1 + i

Init == frames = <<[vals |-> <<>>, extra |-> <<>>, kind |-> C, nresults |-> 0, into |-> <<"host">>]>>
-----------------------------------------------------------------------------
(* The API, in a C function. *)

Push(v) == ~Top.kind.lua /\ SetVals(Append(Top.vals, v))
PushValue(i) == ~Top.kind.lua /\ Valid(i) /\ SetVals(Append(Top.vals, Top.vals[At(i)]))
SetTop(n) == ~Top.kind.lua /\ SetVals(Filled(First(Top.vals, n), n, Nil))
Pop(n) == ~Top.kind.lua /\ SetVals(First(Top.vals, Len(Top.vals) - n))
RemoveValue(i) == ~Top.kind.lua /\ Valid(i) /\ SetVals(RemoveAt(Top.vals, At(i)))
InsertValue(i) ==
    /\ ~Top.kind.lua /\ Valid(i)
    /\ SetVals(InsertAt(First(Top.vals, Len(Top.vals) - 1), At(i), Last(Top.vals)))
ReplaceValue(i) ==
    /\ ~Top.kind.lua /\ Valid(i)
    /\ SetVals(First([Top.vals EXCEPT ![At(i)] = Last(Top.vals)], Len(Top.vals) - 1))

(* Registers, in a Lua function.  Between a call with all its results and the
   instruction that takes them, the frame ends with the results. *)
SetRegister(a, v) == Top.kind.lua /\ SetVals([Top.vals EXCEPT ![a + 1] = v])
VarArg(a, b) ==
    /\ Top.kind.lua
    /\ SetVals([r \in DOMAIN Top.vals |->
                 IF r \in (a + 1)..(a + b) THEN Adjusted(Top.extra, b)[r - a] ELSE Top.vals[r]])

(* Calls. *)
Enter(kind, args, nresults, into) ==
    IF ~kind.lua THEN [vals |-> args, extra |-> <<>>, kind |-> kind, nresults |-> nresults, into |-> into]
    ELSE [vals     |-> Filled(Filled(First(args, kind.num), kind.num, Nil)
                              \o (IF kind.needsarg THEN <<Arg>> ELSE <<>>), kind.max, Nil),
          extra    |-> IF kind.vararg THEN Rest(args, kind.num) ELSE <<>>,
          kind     |-> kind,
          nresults |-> nresults,
          into     |-> into]

(* The function is at func, or has a __call that is given it too. *)
Arguments(func, n, tm) == SubSeq(Top.vals, IF tm THEN func ELSE func + 1, func + n)

Call(n, kind, tm, nresults) ==
    /\ ~Top.kind.lua
    /\ LET func == Len(Top.vals) - n
       IN  frames' = Below(1) \o <<[Top EXCEPT !.vals = First(@, func - 1)],
                                   Enter(kind, Arguments(func, n, tm), nresults, <<"lua_call">>)>>

OpCall(a, n, kind, tm, nresults) ==
    /\ Top.kind.lua
    /\ frames' = Below(1) \o <<[Top EXCEPT !.vals = First(@, a)],
                               Enter(kind, Arguments(a + 1, n, tm), nresults, <<"OP_CALL">>)>>

OpTailCall(a, n, kind, tm) ==
    /\ Top.kind.lua
    /\ frames' = IF kind.lua
                 THEN Append(Below(1), Enter(kind, Arguments(a + 1, n, tm), Top.nresults, Top.into))
                 ELSE Below(1) \o <<[Top EXCEPT !.vals = First(@, a)],
                                    Enter(kind, Arguments(a + 1, n, tm), -1, <<"OP_TAILCALL">>)>>

Metamethod(a, kind, v) ==
    /\ Top.kind.lua
    /\ frames' = Append(frames, Enter(kind, <<Top.vals[a + 1], v>>, 1, <<"callTMres", a>>))

(* What the callers fs have when the callee f gives the results. *)
Delivered(fs, f, results) ==
    LET caller == Last(fs)
        got    == caller.vals \o Adjusted(results, f.nresults)
        vals   == IF f.into[1] = "callTMres"
                  THEN [caller.vals EXCEPT ![f.into[2] + 1] = Adjusted(results, 1)[1]]
                  ELSE IF f.into[1] = "OP_CALL" /\ f.nresults # -1
                  THEN Filled(got, caller.kind.max, Junk) ELSE got
    IN  Append(Front(fs), [caller EXCEPT !.vals = vals])

Returned(results) ==
    IF Top.into[1] = "OP_TAILCALL"
    THEN Delivered(Below(2), frames[Len(frames) - 1], results)
    ELSE Delivered(Below(1), Top, results)

Return(n) ==
    /\ Len(frames) > 1 /\ ~Top.kind.lua
    /\ frames' = Returned(Rest(Top.vals, Len(Top.vals) - n))

OpReturn(a, n) ==
    /\ Top.kind.lua
    /\ frames' = Returned(SubSeq(Top.vals, a + 1, a + n))

ReturnVarArgs(a, n) ==
    /\ Top.kind.lua /\ Top.kind.vararg
    /\ frames' = Returned(SubSeq(Top.vals, a + 1, a + n) \o Top.extra)

Registers == 0..(Len(Top.vals) - 1)
Wanted == {-1, 0, 1}

NextInC ==
    \/ \E v \in Values : Push(v)
    \/ \E i \in Indices : PushValue(i) \/ RemoveValue(i) \/ InsertValue(i) \/ ReplaceValue(i)
    \/ \E n \in 0..MaxValues : SetTop(n)
    \/ \E n \in 0..Len(Top.vals) : Pop(n) \/ Return(n)
    \/ \E n \in 0..(Len(Top.vals) - 1), kind \in Kinds, tm \in BOOLEAN, nresults \in Wanted :
        Call(n, kind, tm, nresults)

NextInLua ==
    \E a \in 0..Len(Top.vals) :
        \/ \E n \in 0..(Len(Top.vals) - a) : OpReturn(a, n) \/ VarArg(a, n) \/ ReturnVarArgs(a, n)
        \/ a \in Registers /\ \E v \in Values : SetRegister(a, v) \/ \E kind \in Kinds : Metamethod(a, kind, v)
        \/ \E n \in 0..(Len(Top.vals) - a - 1), kind \in Kinds, tm \in BOOLEAN :
            OpTailCall(a, n, kind, tm) \/ \E nresults \in Wanted : OpCall(a, n, kind, tm, nresults)

Next == IF Top.kind.lua THEN NextInLua ELSE NextInC

Spec == Init /\ [][Next]_frames
=============================================================================
