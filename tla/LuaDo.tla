-------------------------------- MODULE LuaDo --------------------------------
(***************************************************************************)
(* Calls, errors and coroutines of Lua: lua/ldo.c with the functions of    *)
(* lapi.c, ldebug.c, lvm.c and lbaselib.c that enter it.                   *)
(*                                                                         *)
(* One C stack carries every Lua thread.  cstack lists its activations     *)
(* from the host program up, each with the thread it works for:            *)
(*   body    C code: the host, or a C function in luaD_precall             *)
(*   hook    C code: a debug hook in luaD_callhook                         *)
(*   exec    luaV_execute, which runs the top n frames of its thread       *)
(*   parser  f_parser, n syntactic levels deep                             *)
(*   call    luaD_call           pcall   luaD_pcall, with what it saved    *)
(*   resume  lua_resume          error   luaG_errormsg, before the handler *)
(*   handler luaG_errormsg, waiting for the error handler                  *)
(* The last activation is the one that runs: when it is call, pcall,       *)
(* resume or handler, the function it called has just returned.            *)
(*                                                                         *)
(* Values are left out: frames say only which kind of function they run.   *)
(***************************************************************************)
EXTENDS Integers, Sequences, SequencesExt

CONSTANTS
    Threads, Main,
    LUAI_MAXCCALLS,   \* nested C calls
    Slack,            \* LUAI_MAXCCALLS >> 3: more of them while an error is handled
    LUAI_MAXCALLS,    \* nested calls of one thread
    BASIC_CI_SIZE,
    Uses              \* which of "hook", "load", "xpcall", "metamethod" the program uses

Coroutines == Threads \ {Main}

ASSUME LimitsAssumption ==
    /\ Main \in Threads
    /\ LUAI_MAXCCALLS \in Nat \ {0} /\ Slack \in Nat \ {0}
    /\ LUAI_MAXCALLS \in Nat /\ BASIC_CI_SIZE \in 2..LUAI_MAXCALLS

VARIABLES
    thread,   \* the lua_State of every thread
    cstack    \* activations of the C stack; empty once the process has exited

vars == <<thread, cstack>>

Statuses == {"none", "ok", "yield", "errrun", "errerr", "errsyntax"}

(* ci lists the kind of function of every CallInfo.  jmp is the position in cstack
   of the lua_longjmp that errorJmp points to, 0 for NULL; errfunc says whether an
   error function is set; values, whether a coroutine has values on its stack while
   it runs no function; started is a history variable. *)
preinit_state(status) ==
    [status |-> status, ci |-> <<"base">>, sizeci |-> BASIC_CI_SIZE, nCcalls |-> 0,
     baseCcalls |-> 0, errfunc |-> FALSE, jmp |-> 0, allowhook |-> TRUE,
     values |-> status = "ok", started |-> FALSE]

Init ==
    /\ thread = [t \in Threads |-> preinit_state(IF t = Main THEN "ok" ELSE "none")]
    /\ cstack = <<[op |-> "body", t |-> Main]>>

-----------------------------------------------------------------------------
(* A machine is a record of both variables. *)

Machine == [thread |-> thread, cstack |-> cstack]
Becomes(s) == thread' = s.thread /\ cstack' = s.cstack

IsRunning(ops) == cstack # <<>> /\ Last(cstack).op \in ops
Running == Last(cstack)
IsC == IsRunning({"body", "hook"})

Push(s, a) == [s EXCEPT !.cstack = Append(@, a)]
Pop(s) == [s EXCEPT !.cstack = Front(@)]

restore_stack_limit(L) ==
    IF L.sizeci > LUAI_MAXCALLS /\ Len(L.ci) < LUAI_MAXCALLS
    THEN [L EXCEPT !.sizeci = LUAI_MAXCALLS] ELSE L

CatchInPcall_KeepsHooksOff(L, a) ==
    restore_stack_limit([L EXCEPT !.nCcalls = a.nCcalls, !.ci = SubSeq(@, 1, a.nci),
                                  !.errfunc = a.errfunc, !.jmp = a.previous])

CatchInPcall_KeepsCcalls(L, a) ==
    restore_stack_limit([L EXCEPT !.ci = SubSeq(@, 1, a.nci), !.allowhook = a.allowhook,
                                  !.errfunc = a.errfunc, !.jmp = a.previous])

(* luaD_pcall after an error. *)
CatchInPcall(L, a) ==
    restore_stack_limit([L EXCEPT !.nCcalls = a.nCcalls, !.ci = SubSeq(@, 1, a.nci),
                                  !.allowhook = a.allowhook, !.errfunc = a.errfunc,
                                  !.jmp = a.previous])

(* lua_resume after an error: the coroutine is dead, auxresume moves its message. *)
CatchInResume(L, a, errcode) ==
    [L EXCEPT !.status = errcode, !.nCcalls = @ - 1, !.jmp = a.previous]

(* The long jump drops every activation above its target; without a target the
   panic function runs and the process exits. *)
luaD_throw(s, t, errcode) ==
    LET j == s.thread[t].jmp
    IN  IF j = 0 THEN [s EXCEPT !.cstack = <<>>]
        ELSE LET a == s.cstack[j]
             IN  [thread |-> [s.thread EXCEPT ![t] =
                                 IF a.op = "pcall" THEN CatchInPcall(@, a)
                                 ELSE CatchInResume(@, a, errcode)],
                  cstack |-> SubSeq(s.cstack, 1, j - 1)]

(* luaG_runerror and lua_error, up to luaG_errormsg. *)
luaG_runerror(s, t) == Push(s, [op |-> "error", t |-> t])

luaD_rawrunprotected_KeepsJmp(s, t, a) == Push(s, a)

(* The activation a becomes the target of t's errors. *)
luaD_rawrunprotected(s, t, a) ==
    [Push(s, a) EXCEPT !.thread[t].jmp = Len(s.cstack) + 1]

growCI_Unchecked(s, t, ok) == ok

(* growCI: double the array of CallInfos; the second overflow is not reported. *)
growCI(s, t, ok) ==
    LET size == s.thread[t].sizeci
    IN  IF size > LUAI_MAXCALLS THEN luaD_throw(s, t, "errerr")
        ELSE IF 2 * size > LUAI_MAXCALLS
        THEN luaG_runerror([s EXCEPT !.thread[t].sizeci = 2 * size], t)
        ELSE [ok EXCEPT !.thread[t].sizeci = 2 * size]

(* inc_ci, when ok is the machine with the new frame. *)
inc_ci(s, t, ok) ==
    IF Len(s.thread[t].ci) = s.thread[t].sizeci THEN growCI(s, t, ok) ELSE ok

(* A C function runs at once; the frame of a Lua function is run by Execute. *)
luaD_precall(s, t, fn, Execute(_)) ==
    LET entered == [s EXCEPT !.thread[t].ci = Append(@, fn)]
    IN  inc_ci(s, t, IF fn = "C" THEN Push(entered, [op |-> "body", t |-> t])
                                 ELSE Execute(entered))

luaV_execute(s, t, nexeccalls) == Push(s, [op |-> "exec", t |-> t, n |-> nexeccalls])

luaD_poscall(s, t) == [s EXCEPT !.thread[t].ci = Front(@)]

luaD_call_Unlimited(s, t, fn) ==
    luaD_precall(Push(s, [op |-> "call", t |-> t]), t, fn, LAMBDA e : luaV_execute(e, t, 1))

luaD_call(s, t, fn) ==
    LET n       == s.thread[t].nCcalls + 1
        counted == [s EXCEPT !.thread[t].nCcalls = n]
    IN  IF n = LUAI_MAXCCALLS THEN luaG_runerror(counted, t)
        ELSE IF n >= LUAI_MAXCCALLS + Slack THEN luaD_throw(counted, t, "errerr")
        ELSE luaD_precall(Push(counted, [op |-> "call", t |-> t]), t, fn,
                          LAMBDA e : luaV_execute(e, t, 1))

(* luaD_pcall up to the call of its function. *)
luaD_pcall(s, t, ef) ==
    LET L     == s.thread[t]
        saved == [op |-> "pcall", t |-> t, nCcalls |-> L.nCcalls, nci |-> Len(L.ci),
                  allowhook |-> L.allowhook, errfunc |-> L.errfunc, previous |-> L.jmp]
    IN  [luaD_rawrunprotected(s, t, saved) EXCEPT !.thread[t].errfunc = ef]

(* luaV_execute returns when the last of its frames does. *)
LeaveFrame(s) ==
    IF Last(s.cstack).n = 1 THEN Pop(s)
    ELSE [s EXCEPT !.cstack[Len(s.cstack)].n = @ - 1]

-----------------------------------------------------------------------------
(* What Lua code does *)

Kinds == {"Lua", "C"}

(* OP_CALL: a Lua function runs in the same luaV_execute. *)
OpCall(fn) ==
    /\ IsRunning({"exec"})
    /\ Becomes(luaD_precall(Machine, Running.t, fn,
                            LAMBDA e : [e EXCEPT !.cstack[Len(cstack)].n = @ + 1]))

(* OP_TAILCALL of a Lua function: the new frame replaces that of the caller. *)
OpTailCall ==
    /\ IsRunning({"exec"})
    /\ Becomes(luaD_precall(Machine, Running.t, "Lua", LAMBDA e : luaD_poscall(e, Running.t)))

(* Metamethods and iterators of a generic for. *)
CallMetamethod(fn) ==
    /\ "metamethod" \in Uses
    /\ IsRunning({"exec"})
    /\ Becomes(luaD_call(Machine, Running.t, fn))

OpReturn ==
    /\ IsRunning({"exec"})
    /\ Becomes(LeaveFrame(luaD_poscall(Machine, Running.t)))

(* traceexec: a count or line hook. *)
CallHook ==
    /\ "hook" \in Uses
    /\ IsRunning({"exec"})
    /\ thread[Running.t].allowhook
    /\ Becomes(Push([Machine EXCEPT !.thread[Running.t].allowhook = FALSE],
                    [op |-> "hook", t |-> Running.t]))

-----------------------------------------------------------------------------
(* What C code does *)

lua_call(fn) ==
    /\ IsC
    /\ Becomes(luaD_call(Machine, Running.t, fn))

lua_pcall(fn, ef) ==
    /\ ef => "xpcall" \in Uses
    /\ IsC
    /\ Becomes(luaD_call(luaD_pcall(Machine, Running.t, ef), Running.t, fn))

(* lua_error, from C code or from an instruction. *)
lua_error ==
    /\ IsRunning({"body", "hook", "exec"})
    /\ Becomes(luaG_runerror(Machine, Running.t))

(* A C function, other than the host, returns to luaD_precall. *)
CReturn ==
    /\ IsRunning({"body"})
    /\ Len(thread[Running.t].ci) > 1
    /\ Becomes(Pop(luaD_poscall(Machine, Running.t)))

HookReturn ==
    /\ IsRunning({"hook"})
    /\ Becomes(Pop([Machine EXCEPT !.thread[Running.t].allowhook = TRUE]))

YieldRaises_Never(L) == FALSE

YieldRaises(L) == L.nCcalls > L.baseCcalls

(* lua_yield in a C function, which returns -1 through luaD_precall and
   luaV_execute, or in a hook, after which luaV_execute returns. *)
lua_yield ==
    /\ IsC
    /\ LET t == Running.t
       IN  /\ Len(thread[t].ci) > 1
           /\ Becomes(IF YieldRaises(thread[t]) THEN luaG_runerror(Machine, t)
                      ELSE [Pop(Pop(Machine)) EXCEPT !.thread[t].status = "yield",
                                                     !.thread[t].allowhook = TRUE])

-----------------------------------------------------------------------------
(* luaG_errormsg, luaD_call and luaD_pcall, once what they called is over *)

CallHandler(fn) ==
    /\ IsRunning({"error"})
    /\ thread[Running.t].errfunc
    /\ Becomes(luaD_call(Push(Pop(Machine), [op |-> "handler", t |-> Running.t]), Running.t, fn))

ThrowError ==
    /\ \/ IsRunning({"error"}) /\ ~thread[Running.t].errfunc
       \/ IsRunning({"handler"})
    /\ Becomes(luaD_throw(Machine, Running.t, "errrun"))

FinishCall ==
    /\ IsRunning({"call"})
    /\ Becomes(Pop([Machine EXCEPT !.thread[Running.t].nCcalls = @ - 1]))

FinishedPcall_KeepsHandler(s, a) == Pop([s EXCEPT !.thread[a.t].jmp = a.previous])

FinishedPcall(s, a) ==
    Pop([s EXCEPT !.thread[a.t].jmp = a.previous, !.thread[a.t].errfunc = a.errfunc])

FinishPcall ==
    /\ IsRunning({"pcall"})
    /\ Becomes(FinishedPcall(Machine, Running))

-----------------------------------------------------------------------------
(* The parser, a protected call that counts its levels as C calls *)

lua_load ==
    /\ "load" \in Uses
    /\ IsC
    /\ Becomes(Push(luaD_pcall(Machine, Running.t, thread[Running.t].errfunc),
                    [op |-> "parser", t |-> Running.t, n |-> 0]))

(* A level deeper, or a syntax error: too many levels, or any other. *)
enterlevel ==
    /\ IsRunning({"parser"})
    /\ LET t == Running.t
           n == thread[t].nCcalls + 1
           s == [Machine EXCEPT !.thread[t].nCcalls = n]
       IN  Becomes(IF n > LUAI_MAXCCALLS THEN luaD_throw(s, t, "errsyntax")
                   ELSE [s EXCEPT !.cstack[Len(cstack)].n = @ + 1])

SyntaxError ==
    /\ IsRunning({"parser"})
    /\ Becomes(luaD_throw(Machine, Running.t, "errsyntax"))

leavelevel ==
    /\ IsRunning({"parser"})
    /\ Running.n > 0
    /\ Becomes([Machine EXCEPT !.thread[Running.t].nCcalls = @ - 1,
                               !.cstack[Len(cstack)].n = @ - 1])

(* generic_reader calls the function that load was given. *)
CallReader ==
    /\ IsRunning({"parser"})
    /\ Becomes(luaD_call(Machine, Running.t, "Lua"))

ParserReturn ==
    /\ IsRunning({"parser"})
    /\ Running.n = 0
    /\ Becomes(Pop(Machine))

-----------------------------------------------------------------------------
(* Coroutines *)

luaB_cocreate(co) ==
    /\ IsC
    /\ thread[co].status = "none"
    /\ thread' = [thread EXCEPT ![co] = preinit_state("ok")]
    /\ UNCHANGED cstack

costatus_NoFrames(L, co) ==
    LET C == thread[co]
    IN  IF L = co THEN "running"
        ELSE IF C.status = "yield" THEN "suspended"
        ELSE IF C.status # "ok" THEN "dead"
        ELSE "suspended"

(* The status of co as seen from L. *)
costatus(L, co) ==
    LET C == thread[co]
    IN  IF L = co THEN "running"
        ELSE IF C.status = "yield" THEN "suspended"
        ELSE IF C.status # "ok" THEN "dead"
        ELSE IF Len(C.ci) > 1 THEN "normal"
        ELSE IF ~C.values THEN "dead"
        ELSE "suspended"

resume_OneFrame(s, co) ==
    IF s.thread[co].status = "ok"
    THEN luaD_precall(s, co, "Lua", LAMBDA e : luaV_execute(e, co, 1))
    ELSE LET back == IF Last(s.thread[co].ci) = "C" THEN luaD_poscall(s, co) ELSE s
         IN  luaV_execute([back EXCEPT !.thread[co].status = "ok"], co, 1)

(* The function resume, under lua_resume's protection. *)
resume(s, co) ==
    LET Frames(e) == Len(e.thread[co].ci) - 1
    IN  IF s.thread[co].status = "ok"
        THEN luaD_precall(s, co, "Lua", LAMBDA e : luaV_execute(e, co, Frames(e)))
        ELSE LET back == IF Last(s.thread[co].ci) = "C" THEN luaD_poscall(s, co) ELSE s
             IN  luaV_execute([back EXCEPT !.thread[co].status = "ok"], co, Frames(back))

(* lua_resume up to the call of resume.  resume_error overwrites the function of a
   coroutine that has not started. *)
lua_resume(s, co) ==
    LET n == s.thread[co].nCcalls + 1
        L == [s.thread[co] EXCEPT !.nCcalls = n, !.baseCcalls = n, !.values = FALSE,
                                  !.started = TRUE]
    IN  IF n > LUAI_MAXCCALLS
        THEN [s EXCEPT !.thread[co].values = @ /\ s.thread[co].status # "ok"]
        ELSE resume(luaD_rawrunprotected([s EXCEPT !.thread[co] = L], co,
                        [op |-> "resume", t |-> co, previous |-> L.jmp]), co)

(* auxresume: coroutine.resume, or a function that coroutine.wrap returned. *)
auxresume(co) ==
    /\ IsC
    /\ thread[co].status # "none"
    /\ costatus(Running.t, co) = "suspended"
    /\ Becomes(lua_resume([Machine EXCEPT !.thread[co].nCcalls = thread[Running.t].nCcalls], co))

(* lua_resume returns without an error; auxresume moves the results unless L has no
   room for them: then it raises an error and they stay where they are. *)
FinishResume(room) ==
    /\ IsRunning({"resume"})
    /\ LET co == Running.t
           s  == Pop([Machine EXCEPT !.thread[co].nCcalls = @ - 1,
                                     !.thread[co].jmp = Running.previous])
           L  == Last(s.cstack).t
       IN  Becomes(IF room THEN s
                   ELSE luaG_runerror([s EXCEPT !.thread[co].values = TRUE], L))

-----------------------------------------------------------------------------
LuaStep ==
    \/ \E fn \in Kinds : OpCall(fn) \/ CallMetamethod(fn)
    \/ OpTailCall
    \/ OpReturn
    \/ CallHook

CStep ==
    \/ \E fn \in Kinds : lua_call(fn) \/ \E ef \in BOOLEAN : lua_pcall(fn, ef)
    \/ CReturn
    \/ HookReturn
    \/ lua_yield
    \/ lua_load
    \/ \E co \in Coroutines : luaB_cocreate(co) \/ auxresume(co)

ParserStep == enterlevel \/ leavelevel \/ SyntaxError \/ CallReader \/ ParserReturn

Finish ==
    \/ \E fn \in Kinds : CallHandler(fn)
    \/ ThrowError
    \/ FinishCall
    \/ FinishPcall
    \/ \E room \in BOOLEAN : FinishResume(room)

Next == LuaStep \/ CStep \/ ParserStep \/ Finish \/ lua_error

Spec == Init /\ [][Next]_vars

-----------------------------------------------------------------------------
(* Properties *)

Activations(t, ops) == {i \in DOMAIN cstack : cstack[i].t = t /\ cstack[i].op \in ops}

(* Every thread is a lua_State; its CallInfo array is never longer than the size
   that one overflow of LUAI_MAXCALLS leaves it with. *)
TypeOK ==
    \A t \in Threads :
        LET L == thread[t]
        IN  /\ L.status \in Statuses
            /\ L.ci \in Seq({"base", "Lua", "C"}) /\ Head(L.ci) = "base"
            /\ Len(L.ci) <= L.sizeci /\ L.sizeci <= 2 * LUAI_MAXCALLS
            /\ {L.nCcalls, L.baseCcalls} \subseteq 0..LUAI_MAXCCALLS + Slack
            /\ L.jmp \in 0..Len(cstack)
            /\ {L.errfunc, L.allowhook, L.values} \subseteq BOOLEAN

(* errorJmp of every thread is the innermost setjmp that is still active for it,
   so an error never jumps into a C frame that has returned. *)
JumpBufferLive ==
    cstack # <<>> =>
        \A t \in Threads :
            LET targets == Activations(t, {"pcall", "resume"})
            IN  thread[t].jmp = IF targets = {} THEN 0
                                ELSE CHOOSE i \in targets : \A j \in targets : j <= i

(* What an activation runs of its thread's frames, and what it counts in nCcalls. *)
FramesOf(a) == IF a.op = "exec" THEN a.n ELSE IF a.op = "body" THEN 1 ELSE 0
KindOf(a) == IF a.op = "exec" THEN "Lua" ELSE "C"
CcallsOf(a) == IF a.op \in {"call", "resume"} THEN 1 ELSE IF a.op = "parser" THEN a.n ELSE 0

(* The frames of t that the first i activations run; every thread has the base frame. *)
FramesUpTo(t) ==
    LET upto[i \in DOMAIN cstack] ==
            IF i = 1 THEN 1 ELSE upto[i - 1] + IF cstack[i].t = t THEN FramesOf(cstack[i]) ELSE 0
    IN  [i \in DOMAIN cstack |-> upto[i]]

(* The frames of a thread that is on the C stack are those its activations of
   luaV_execute and its C functions run, in order: no error, yield or resume
   leaves a frame nobody runs or a luaV_execute that returns too early. *)
FramesMatchActivations ==
    cstack # <<>> =>
        \A t \in Threads : (Activations(t, {"exec", "body", "resume"}) # {} /\ thread[t].status = "ok") =>
            LET upto == FramesUpTo(t)
            IN  /\ Len(thread[t].ci) = upto[Len(cstack)]
                /\ \A i \in 2..Len(cstack) : \A k \in (upto[i - 1] + 1)..upto[i] :
                        thread[t].ci[k] = KindOf(cstack[i])

(* The nested calls, resumes and parser levels of the first i activations. *)
CcallsUpTo ==
    LET upto[i \in 0..Len(cstack)] ==
            IF i = 0 THEN 0 ELSE upto[i - 1] + CcallsOf(cstack[i])
    IN  [i \in 0..Len(cstack) |-> upto[i]]

(* nCcalls of the running thread counts at least every nested call, resume and
   parser level of the whole C stack, those of other threads included: LUAI_MAXCCALLS
   bounds the C stack whatever mix of them a program uses. *)
CcallsCounted ==
    LET counted == CcallsUpTo[Len(cstack)]
    IN  cstack # <<>> =>
            counted <= thread[Running.t].nCcalls /\ counted < LUAI_MAXCCALLS + Slack

(* A call that returns, normally or through pcall, leaves nCcalls as it was: the
   host program is back at zero, so no error uses up the limit for good. *)
CcallsRestored ==
    Len(cstack) = 1 => thread[Main].nCcalls = 0

(* A coroutine that has yielded left no activation between lua_yield and the
   lua_resume it goes back to (no C-call boundary is crossed), and no handler. *)
YieldReachesResume ==
    \A t \in Threads : thread[t].status = "yield" =>
        /\ ~thread[t].errfunc
        /\ \/ Activations(t, {"exec", "body", "hook", "call", "pcall", "resume"}) = {}
           \/ Running = [op |-> "resume", t |-> t, previous |-> 0]

(* Hooks are off exactly while a hook of the thread runs, errors included. *)
HooksOffInHook ==
    cstack # <<>> => \A t \in Threads :
        (thread[t].status \in {"ok", "yield"}) =>
            (thread[t].allowhook <=> Activations(t, {"hook"}) = {})

(* The error function in force is that of the innermost protected call: a handler
   never outlives its xpcall. *)
HandlerIsInnermost ==
    cstack # <<>> => \A t \in Threads :
        (thread[t].errfunc /\ thread[t].status = "ok") => Activations(t, {"pcall"}) # {}

(* coroutine.status tells the truth: "normal" are the coroutines that wait for one
   they resumed, and a "suspended" one is in no state lua_resume would refuse. *)
StatusIsTrue ==
    cstack # <<>> => \A co \in Coroutines :
        LET status == costatus(Running.t, co)
            active == Activations(co, {"resume"}) # {}
        IN  /\ status = "running" => active
            /\ status = "normal" => active
            /\ status = "suspended" => (~active \/ Running.op = "resume")
            /\ status = "suspended" => thread[co].status = "yield" \/ Len(thread[co].ci) = 1

(* luaD_call raises LUA_ERRERR as an "error while handing stack error": calls beyond
   LUAI_MAXCCALLS are only made while an error is handled. *)
OverflowIsReported ==
    (cstack # <<>> /\ thread[Running.t].nCcalls > LUAI_MAXCCALLS) =>
        \E i \in DOMAIN cstack : cstack[i].op \in {"error", "handler"}

(* costatus calls a coroutine without frames but with values one in its "initial
   state": it has not run. *)
SuspendedIsInitial ==
    cstack # <<>> => \A co \in Coroutines :
        (costatus(Running.t, co) = "suspended" /\ thread[co].status = "ok") =>
            ~thread[co].started

(* Whatever way a call ends, by a return, an error or a yield, it leaves the counters,
   the hooks, the handler and the status as they were: see the parts. *)
UnwindingSound ==
    TypeOK /\ CcallsCounted /\ CcallsRestored /\ HooksOffInHook /\ HandlerIsInnermost /\ StatusIsTrue
=============================================================================
