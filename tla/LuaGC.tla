------------------------------- MODULE LuaGC -------------------------------
(***************************************************************************)
(* Lua's incremental collector, lua/lgc.c, with the barriers, interning    *)
(* (lstring.c) and upvalues (lfunc.c) it has to get along with.  Every     *)
(* value that luapb keeps, a LuaRef or a table under construction, lives   *)
(* by it.                                                                  *)
(*                                                                         *)
(* Mutator and collector alternate on one OS thread, a singlestep of the   *)
(* collector between any two operations of the program.  How many steps    *)
(* luaC_step takes, which depends on bytes allocated, is left open.        *)
(*                                                                         *)
(* An object is a record:                                                  *)
(*   table     ref its key, val its value (one entry), tag its weak mode   *)
(*   userdata  ref its environment, tag "gc" if its metatable has __gc     *)
(*   closure   ref its upvalue                                             *)
(*   upval     ref the thread it is open in, nil once closed; val when     *)
(*             closed (the value is then its own)                          *)
(*   thread    val the one slot of its stack                               *)
(*   string    tag its contents                                            *)
(* Metatables are left out: they are references like env.                  *)
(***************************************************************************)
EXTENDS Integers, Sequences, FiniteSets

CONSTANTS
    Addr,      \* addresses objects are allocated at
    Main,      \* the main thread, which is never collected
    nil,
    Free,      \* what is at an address without an object
    Programs   \* records of what a program makes and how much of it:
               \*   memory    its addresses are 1..memory
               \*   tables    "list" and the weak "v" with numbers as keys,
               \*             "pairs" and the weak "k" and "kv" with objects as keys
               \*   udata     "gc", "plain"
               \*   contents  of its strings 1..n, each in its own bucket
               \*   threads   coroutines at a time, with closures over their locals
               \*   stack     objects the program holds at a time
               \*   full      it asks for full collections

AddrAssumption ==
    /\ Addr \subseteq Nat /\ Main \notin Addr /\ nil \notin Addr \cup {Main}
    /\ \A p \in Programs : 1..p.memory \subseteq Addr

VARIABLES
    g,         \* global_State: heap, the lists and marks of the collector
    stack,     \* what the main thread's stack refers to
    program    \* which program is running

vars == <<g, stack, program>>

Gray == 2     \* marks: the two whites are 0 and 1
Black == 3
(* An object is always made at the lowest free address: addresses have no meaning. *)
FreeAddrs == {a \in 1..program.memory : g.heap[a] = Free}
IsNext(a) == a \in FreeAddrs /\ \A b \in FreeAddrs : a <= b

-----------------------------------------------------------------------------
(* Marking.  G below is a global_State. *)

Allocated(G) == {a \in Addr : G.heap[a] # Free}
Is(G, a, tt) == a # nil /\ G.heap[a].tt = tt
iswhite(G, a) == a # nil /\ G.heap[a].mark \in {0, 1}
isblack(G, a) == G.heap[a].mark = Black
isgray(G, a) == G.heap[a].mark = Gray
otherwhite(G) == 1 - G.currentwhite
isdead(G, a) == G.heap[a].mark = otherwhite(G)
makewhite(G, a) == [G EXCEPT !.heap[a].mark = G.currentwhite]

IsOpen(G, uv) == G.heap[uv].ref # nil
UpvalValue(G, uv) == IF IsOpen(G, uv) THEN G.heap[G.heap[uv].ref].val ELSE G.heap[uv].val

(* What reallymarkobject marks at once: userdata and upvalues are not kept gray
   until their turn comes, what they refer to is marked with them. *)
Immediate(G, a) ==
    {c \in (IF Is(G, a, "userdata") THEN {G.heap[a].ref}
            ELSE IF Is(G, a, "upval") THEN {UpvalValue(G, a)}
            ELSE {}) : iswhite(G, c)}

(* An upvalue may hold a userdata, and that one has an environment: two levels. *)
Cascade(G, S) ==
    LET white == {a \in S : iswhite(G, a)}
        one   == white \cup UNION {Immediate(G, a) : a \in white}
    IN  one \cup UNION {Immediate(G, a) : a \in one}

MarkOf(G, a) ==
    IF Is(G, a, "userdata") \/ (Is(G, a, "upval") /\ ~IsOpen(G, a)) THEN Black ELSE Gray

reallymarkobject(G, S) ==
    LET marked == Cascade(G, S)
    IN  [G EXCEPT
            !.heap = [a \in DOMAIN G.heap |->
                         IF a \in marked THEN [G.heap[a] EXCEPT !.mark = MarkOf(G, a)]
                         ELSE G.heap[a]],
            !.gray = @ \cup {a \in marked : G.heap[a].tt \in {"table", "closure", "thread"}}]

ObjectKeys(o) == o.tag \in {"pairs", "k", "kv"}
WeakKey(o) == o.tag \in {"k", "kv"}
WeakValue(o) == o.tag \in {"v", "kv"}

(* What traversetable, traverseclosure and traversestack mark. *)
Strong(G, s, a) ==
    LET o == G.heap[a]
    IN  IF a = Main THEN s
        ELSE (CASE o.tt = "table"   -> {IF WeakKey(o) THEN nil ELSE o.ref,
                                        IF WeakValue(o) THEN nil ELSE o.val}
                [] o.tt = "closure" -> {o.ref}
                [] o.tt = "thread"  -> {o.val}
                [] OTHER            -> {}) \ {nil}

IsWeak(G, a) == Is(G, a, "table") /\ G.heap[a].tag \in {"k", "v", "kv"}

(* Traverse the gray object a: threads stay gray and are traversed again in the atomic
   step, weak tables stay gray and are remembered for cleartable. *)
propagatemark(G, s, a) ==
    LET taken == [G EXCEPT
                     !.gray = @ \ {a},
                     !.weak = IF IsWeak(G, a) THEN @ \cup {a} ELSE @,
                     !.grayagain = IF Is(G, a, "thread") THEN @ \cup {a} ELSE @,
                     !.heap[a].mark = IF IsWeak(G, a) \/ Is(G, a, "thread") THEN Gray ELSE Black]
    IN  reallymarkobject(taken, Strong(G, s, a))

(* Traverse gray objects until none is left: all that is white and in reach of one is
   marked, and traversed in its turn. *)
propagateall(G, s) ==
    LET Found(T) == {b \in UNION {Strong(G, s, a) \cup Immediate(G, a) : a \in T} : iswhite(G, b)}
        after[n \in 0..Cardinality(Addr)] ==
            IF n = 0 THEN G.gray ELSE after[n - 1] \cup Found(after[n - 1])
        all == after[Cardinality(Addr)]
        Final(a) == IF IsWeak(G, a) \/ Is(G, a, "thread") THEN Gray
                    ELSE IF G.heap[a].tt \in {"table", "closure"} THEN Black ELSE MarkOf(G, a)
    IN  [G EXCEPT
            !.gray = {},
            !.weak = @ \cup {a \in all : IsWeak(G, a)},
            !.grayagain = @ \cup {a \in all : Is(G, a, "thread")},
            !.heap = [a \in DOMAIN G.heap |->
                         IF a \in all THEN [G.heap[a] EXCEPT !.mark = Final(a)] ELSE G.heap[a]]]

markroot(G) ==
    reallymarkobject([G EXCEPT !.gray = {}, !.grayagain = {}, !.weak = {},
                               !.gcstate = "propagate"], {Main})

-----------------------------------------------------------------------------
(* The atomic step *)

remarkupvals_Skipped(G) == G

(* Upvalues open in a thread that may be dead keep the values they share with it. *)
remarkupvals(G) ==
    LET open == {a \in Allocated(G) : Is(G, a, "upval") /\ IsOpen(G, a) /\ isgray(G, a)}
    IN  reallymarkobject(G, {UpvalValue(G, a) : a \in open})

luaC_separateudata_Again(G) ==
    LET white == SelectSeq(G.udata, LAMBDA u : iswhite(G, u))
        dead  == SelectSeq(white, LAMBDA u : G.heap[u].tag = "gc")
    IN  [G EXCEPT !.udata = SelectSeq(G.udata, LAMBDA u : \A i \in DOMAIN dead : dead[i] # u),
                  !.tmudata = @ \o dead]

luaC_separateudata_OneOnly(G) ==
    LET white == SelectSeq(G.udata, LAMBDA u : iswhite(G, u) /\ ~G.heap[u].fin)
        dead  == SelectSeq(white, LAMBDA u : G.heap[u].tag = "gc")
    IN  [G EXCEPT
            !.heap = [a \in DOMAIN G.heap |->
                         IF \E i \in DOMAIN white : white[i] = a
                         THEN [G.heap[a] EXCEPT !.fin = TRUE] ELSE G.heap[a]],
            !.udata = SelectSeq(G.udata, LAMBDA u : dead = <<>> \/ u # Head(dead)),
            !.tmudata = @ \o (IF dead = <<>> THEN <<>> ELSE <<Head(dead)>>)]

(* Userdata about to die with a __gc metamethod move to tmudata, in list order; the
   finalized bit is set for those without one too. *)
luaC_separateudata(G) ==
    LET white == SelectSeq(G.udata, LAMBDA u : iswhite(G, u) /\ ~G.heap[u].fin)
        dead  == SelectSeq(white, LAMBDA u : G.heap[u].tag = "gc")
    IN  [G EXCEPT
            !.heap = [a \in DOMAIN G.heap |->
                         IF \E i \in DOMAIN white : white[i] = a
                         THEN [G.heap[a] EXCEPT !.fin = TRUE] ELSE G.heap[a]],
            !.udata = SelectSeq(G.udata, LAMBDA u : \A i \in DOMAIN dead : dead[i] # u),
            !.tmudata = @ \o dead]

marktmu_Skipped(G) == G

marktmu(G) ==
    LET tmu == {G.tmudata[i] : i \in DOMAIN G.tmudata}
        whitened == [G EXCEPT !.heap = [a \in DOMAIN G.heap |->
                         IF a \in tmu THEN [G.heap[a] EXCEPT !.mark = G.currentwhite]
                         ELSE G.heap[a]]]
    IN  reallymarkobject(whitened, tmu)

iscleared_KeepsFinalized(G, a, iskey) == iswhite(G, a) /\ ~Is(G, a, "string")

(* Strings are never removed from weak tables; a userdata that is being finalized is
   removed as a value and kept as a key. *)
iscleared(G, a, iskey) ==
    /\ a # nil /\ ~Is(G, a, "string")
    /\ iswhite(G, a) \/ (Is(G, a, "userdata") /\ ~iskey /\ G.heap[a].fin)

cleartable(G) ==
    LET Cleared(a) == iscleared(G, G.heap[a].ref, TRUE) \/ iscleared(G, G.heap[a].val, FALSE)
        kept == {a \in G.weak : ~Cleared(a)}
        strings == {a \in UNION {{G.heap[t].ref, G.heap[t].val} : t \in kept} :
                        Is(G, a, "string")}
        New(a) == IF a \in G.weak \ kept THEN [G.heap[a] EXCEPT !.ref = nil, !.val = nil]
                  ELSE IF a \in strings THEN [G.heap[a] EXCEPT !.mark = Gray]
                  ELSE G.heap[a]
    IN  [G EXCEPT !.heap = [a \in DOMAIN G.heap |-> New(a)]]

Flipped_SameWhite(G) ==
    [cleartable(G) EXCEPT !.sweepstrgc = 1, !.sweepgc = 0, !.gcstate = "sweepstring"]

Flipped(G) ==
    [cleartable(G) EXCEPT !.currentwhite = otherwhite(G), !.sweepstrgc = 1, !.sweepgc = 0,
                          !.gcstate = "sweepstring"]

-----------------------------------------------------------------------------
(* Sweeping.  The list is rootgc, then the main thread, then udata; sweepgc counts
   the objects of it that have been passed. *)

List(G) == G.rootgc \o <<Main>> \o G.udata

LinkRoot(G, a) ==
    [G EXCEPT !.rootgc = <<a>> \o @, !.sweepgc = IF @ = 0 THEN 0 ELSE @ + 1]

LinkUdata_SkipsOne(G, a) == [G EXCEPT !.udata = <<a>> \o @, !.sweepgc = @ + 1]

LinkUdata(G, a) ==
    [G EXCEPT !.udata = <<a>> \o @,
              !.sweepgc = IF @ <= Len(G.rootgc) + 1 THEN @ ELSE @ + 1]

Open(G, th) == {a \in Allocated(G) : Is(G, a, "upval") /\ G.heap[a].ref = th}

(* The forward barrier: black o is about to refer to white v. *)
luaC_barrierf(G, o, v) ==
    IF G.gcstate = "propagate" THEN reallymarkobject(G, {v}) ELSE makewhite(G, o)

luaC_barrier(G, o, v) ==
    IF iswhite(G, v) /\ isblack(G, o) THEN luaC_barrierf(G, o, v) ELSE G

luaC_barriert_None(G, t, v) == G

luaC_barriert(G, t, v) ==
    IF iswhite(G, v) /\ isblack(G, t)
    THEN [G EXCEPT !.heap[t].mark = Gray, !.grayagain = @ \cup {t}]
    ELSE G

luaC_linkupval_NoBarrier(G, uv) ==
    LET linked == LinkRoot(G, uv)
    IN  IF ~isgray(G, uv) THEN linked
        ELSE IF G.gcstate = "propagate" THEN [linked EXCEPT !.heap[uv].mark = Black]
        ELSE makewhite(linked, uv)

luaC_linkupval(G, uv) ==
    LET linked == LinkRoot(G, uv)
    IN  IF ~isgray(G, uv) THEN linked
        ELSE IF G.gcstate = "propagate"
        THEN luaC_barrier([linked EXCEPT !.heap[uv].mark = Black], uv, UpvalValue(G, uv))
        ELSE makewhite(linked, uv)

(* Close the upvalue that is open in th (there is one slot, hence at most one). *)
luaF_close(G, th) ==
    IF Open(G, th) = {} THEN G
    ELSE LET uv == CHOOSE a \in Open(G, th) : TRUE
         IN  IF isdead(G, uv) THEN [G EXCEPT !.heap[uv] = Free]
             ELSE luaC_linkupval([G EXCEPT !.heap[uv].val = G.heap[th].val,
                                           !.heap[uv].ref = nil], uv)

Unlinked_Not(G, a) == G

Unlinked(G, a) ==
    [G EXCEPT !.rootgc = SelectSeq(@, LAMBDA b : b # a),
              !.udata = SelectSeq(@, LAMBDA b : b # a)]

freeobj(G, a) ==
    LET closed == IF Is(G, a, "thread") THEN luaF_close(G, a) ELSE G
    IN  [closed EXCEPT !.heap[a] = Free]

(* sweeplist, one object: first the upvalues open in it if it is a thread. *)
sweeplist(G) ==
    LET a == List(G)[G.sweepgc + 1]
        swept == [G EXCEPT !.heap = [b \in DOMAIN G.heap |->
                     IF b \notin Open(G, a) THEN G.heap[b]
                     ELSE IF isdead(G, b) THEN Free
                     ELSE [G.heap[b] EXCEPT !.mark = G.currentwhite]]]
    IN  IF a = Main \/ ~isdead(G, a)
        THEN [makewhite(swept, a) EXCEPT !.sweepgc = @ + 1]
        ELSE freeobj(Unlinked(swept, a), a)

StringsOf(G, c) == {a \in Allocated(G) : Is(G, a, "string") /\ G.heap[a].tag = c}

SweepBucket(G, c) ==
    [G EXCEPT !.heap = [a \in DOMAIN G.heap |->
        IF a \notin StringsOf(G, c) THEN G.heap[a]
        ELSE IF isdead(G, a) THEN Free
        ELSE [G.heap[a] EXCEPT !.mark = G.currentwhite]]]

-----------------------------------------------------------------------------
Init ==
    /\ g = [heap |-> [a \in Addr \cup {Main} |->
                         IF a = Main THEN [tt |-> "thread", mark |-> 0, ref |-> nil, val |-> nil,
                                           tag |-> "", fin |-> FALSE, runs |-> 0]
                         ELSE Free],
            gray |-> {}, grayagain |-> {}, weak |-> {}, rootgc |-> <<>>, udata |-> <<>>,
            tmudata |-> <<>>, currentwhite |-> 0, gcstate |-> "pause",
            sweepgc |-> 0, sweepstrgc |-> 1, full |-> "no"]
    /\ stack = {}
    /\ program \in Programs

(* The program.  It runs between steps; inside luaC_fullgc only finalizers run. *)

Object(tt, ref, tag) ==
    [tt |-> tt, mark |-> g.currentwhite, ref |-> ref, val |-> nil, tag |-> tag,
     fin |-> FALSE, runs |-> 0]

NewTable(mode) ==
    \E a \in Addr :
        /\ IsNext(a)
        /\ g' = LinkRoot([g EXCEPT !.heap[a] = Object("table", nil, mode)], a)
        /\ stack' = stack \cup {a}

NewThread ==
    /\ Cardinality({a \in Allocated(g) : Is(g, a, "thread")}) < program.threads
    /\ \E a \in Addr :
        /\ IsNext(a)
        /\ g' = LinkRoot([g EXCEPT !.heap[a] = Object("thread", nil, "")], a)
        /\ stack' = stack \cup {a}

luaS_newudata(tag) ==
    \E a \in Addr :
        /\ IsNext(a)
        /\ g' = LinkUdata([g EXCEPT !.heap[a] = Object("userdata", nil, tag)], a)
        /\ stack' = stack \cup {a}

Resurrect_Not(G, a) == G

(* A dead object met before the sweep gets to it is given the white of the living. *)
Resurrect(G, a) == IF isdead(G, a) THEN makewhite(G, a) ELSE G

luaS_newlstr(c) ==
    \/ \E a \in StringsOf(g, c) :
        /\ g' = Resurrect(g, a)
        /\ stack' = stack \cup {a}
    \/ /\ StringsOf(g, c) = {}
       /\ \E a \in Addr :
            /\ IsNext(a)
            /\ g' = [g EXCEPT !.heap[a] = Object("string", nil, c)]
            /\ stack' = stack \cup {a}

(* OP_CLOSURE over a local of th: luaF_findupval finds the open upvalue or makes one. *)
NewClosure(th) ==
    \E c \in Addr :
        /\ IsNext(c)
        /\ \/ \E uv \in Open(g, th) :
                g' = LinkRoot([Resurrect(g, uv) EXCEPT !.heap[c] = Object("closure", uv, "")], c)
           \/ /\ Open(g, th) = {}
              /\ \E uv \in FreeAddrs \ {c} :
                   /\ \A b \in FreeAddrs \ {c} : uv <= b
                   /\ g' = LinkRoot([g EXCEPT !.heap[c] = Object("closure", uv, ""),
                                              !.heap[uv] = Object("upval", th, "")], c)
        /\ stack' = stack \cup {c}

(* t = {[k] = v}: the barriers of newkey and of the store. *)
SetTable(t, k, v) ==
    /\ g' = luaC_barriert(luaC_barriert([g EXCEPT !.heap[t].ref = IF v = nil THEN nil ELSE k,
                                                  !.heap[t].val = v], t, k), t, v)
    /\ UNCHANGED stack

SetEnv(u, t) ==
    /\ g' = luaC_barrier([g EXCEPT !.heap[u].ref = t], u, t)
    /\ UNCHANGED stack

(* OP_SETUPVAL: through an open upvalue the assignment goes to the thread's stack. *)
SetUpval(c, v) ==
    LET uv == g.heap[c].ref
    IN  /\ g' = IF IsOpen(g, uv) THEN [g EXCEPT !.heap[g.heap[uv].ref].val = v]
                ELSE luaC_barrier([g EXCEPT !.heap[uv].val = v], uv, v)
        /\ UNCHANGED stack

SetLocal(th, v) ==
    /\ g' = [g EXCEPT !.heap[th].val = v]
    /\ UNCHANGED stack

CloseUpvals(th) ==
    /\ Open(g, th) # {}
    /\ g' = luaF_close(g, th)
    /\ UNCHANGED stack

(* What the program can read out of an object. *)
Readable(G, a) ==
    (CASE G.heap[a].tt = "table"    -> {G.heap[a].ref, G.heap[a].val}
       [] G.heap[a].tt = "userdata" -> {G.heap[a].ref}
       [] G.heap[a].tt = "closure"  -> {UpvalValue(G, G.heap[a].ref)}
       [] G.heap[a].tt = "thread"   -> {G.heap[a].val}
       [] OTHER                     -> {}) \ {nil}

Push(a) ==
    /\ a \notin stack
    /\ stack' = stack \cup {a}
    /\ UNCHANGED g

Pop(a) ==
    /\ stack' = stack \ {a}
    /\ UNCHANGED g

OnStack(tt) == {a \in stack : g.heap[a].tt = tt}

Mutate ==
    /\ g.full = "no"
    /\ \/ \E mode \in program.tables : NewTable(mode)
       \/ \E tag \in program.udata : luaS_newudata(tag)
       \/ \E c \in program.contents : luaS_newlstr(c)
       \/ NewThread
       \/ \E th \in OnStack("thread") : NewClosure(th) \/ CloseUpvals(th)
       \/ \E t \in OnStack("table"), k, v \in stack \cup {nil} :
            (k = nil \/ ObjectKeys(g.heap[t])) /\ SetTable(t, k, v)
       \/ \E u \in OnStack("userdata"), t \in OnStack("table") : SetEnv(u, t)
       \/ \E c \in OnStack("closure"), v \in stack \cup {nil} : SetUpval(c, v)
       \/ \E th \in OnStack("thread"), v \in stack \cup {nil} : SetLocal(th, v)
       \/ \E a \in stack : Pop(a)
       \/ \E a \in stack : \E b \in Readable(g, a) : Push(b)
    /\ Cardinality(stack') <= program.stack

(* The collector, one singlestep. *)

StartCycle ==
    /\ g.gcstate = "pause"
    /\ g' = markroot(g)
    /\ UNCHANGED stack

Propagate ==
    /\ g.gcstate = "propagate"
    /\ \E a \in g.gray : g' = propagatemark(g, stack, a)
    /\ UNCHANGED stack

(* atomic: values of open upvalues, then weak tables, then what barriers and threads
   left gray, then the userdata to be finalized and what they need; then the flip. *)
Atomic ==
    /\ g.gcstate = "propagate" /\ g.gray = {}
    /\ \E barriers \in {propagateall(remarkupvals(g), stack)} :
       \E weakly \in {propagateall([barriers EXCEPT !.gray = barriers.weak, !.weak = {}], stack)} :
       \E again \in {propagateall([weakly EXCEPT !.gray = weakly.grayagain,
                                                 !.grayagain = {}], stack)} :
       \E saved \in {propagateall(marktmu(luaC_separateudata(again)), stack)} :
           g' = Flipped(saved)
    /\ UNCHANGED stack

SweepString ==
    /\ g.gcstate = "sweepstring"
    /\ LET c == g.sweepstrgc
           swept == SweepBucket(g, c)
       IN  g' = [swept EXCEPT !.sweepstrgc = c + 1,
                              !.gcstate = IF c + 1 \in program.contents THEN @ ELSE "sweep"]
    /\ UNCHANGED stack

Sweep ==
    /\ g.gcstate = "sweep"
    /\ \E swept \in {sweeplist(g)} :
        g' = IF swept.sweepgc < Len(List(swept)) THEN swept
             ELSE [swept EXCEPT !.gcstate = "finalize",
                                !.full = IF @ = "marking" THEN "no" ELSE @]
    /\ UNCHANGED stack

(* GCTM: the userdata goes back to its list, white, and its finalizer is called. *)
Finalize ==
    /\ g.gcstate = "finalize" /\ g.full = "no" /\ g.tmudata # <<>>
    /\ LET u == Head(g.tmudata)
       IN  /\ g' = [makewhite(LinkUdata(g, u), u) EXCEPT !.tmudata = Tail(@),
                                                        !.heap[u].runs = @ + 1]
           /\ stack' = stack \cup {u}

EndCycle ==
    /\ g.gcstate = "finalize" /\ g.full = "no" /\ g.tmudata = <<>>
    /\ g' = [g EXCEPT !.gcstate = "pause"]
    /\ UNCHANGED stack

(* luaC_fullgc: a cycle in its mark phase is given up, its marks are swept away ... *)
FullBegin ==
    /\ program.full /\ g.full = "no"
    /\ g' = [IF g.gcstate \in {"pause", "propagate"}
             THEN [g EXCEPT !.sweepstrgc = 1, !.sweepgc = 0, !.gray = {}, !.grayagain = {},
                            !.weak = {}, !.gcstate = "sweepstring"]
             ELSE g EXCEPT !.full = "sweeping"]
    /\ UNCHANGED stack

(* ... and a new cycle begins, before the finalizers that are due have been called. *)
FullRestart ==
    /\ g.full = "sweeping" /\ g.gcstate = "finalize"
    /\ g' = markroot([g EXCEPT !.full = "marking"])
    /\ UNCHANGED stack

singlestep ==
    \/ StartCycle \/ Propagate \/ Atomic \/ SweepString \/ Sweep
    \/ Finalize \/ EndCycle \/ FullRestart

Next == (Mutate \/ singlestep \/ FullBegin) /\ UNCHANGED program

(* luaC_step is called again and again by allocations: the collector makes progress. *)
Spec == Init /\ [][Next]_vars /\ WF_vars(singlestep /\ UNCHANGED program)

-----------------------------------------------------------------------------
(* Properties *)

(* Marks, lists and references are those of allocated objects. *)
TypeOK ==
    /\ g.gray \cup g.grayagain \cup g.weak \subseteq Allocated(g) \cup {Main}
    /\ g.gcstate \in {"pause", "propagate", "sweepstring", "sweep", "finalize"}
    /\ \A a \in Allocated(g) : g.heap[a].mark \in 0..3
    /\ \A i \in DOMAIN List(g) : List(g)[i] \in Allocated(g) \cup {Main}
    /\ stack \subseteq Addr
    /\ g.sweepgc \in 0..Len(List(g))

Waiting == {g.tmudata[i] : i \in DOMAIN g.tmudata}

(* Everything the program can reach, through weak references as well, the upvalues of its
   closures, and everything waiting for its finalizer. *)
ReachableFrom(S) ==
    LET Upvalue(a) == IF Is(g, a, "closure") THEN {g.heap[a].ref} ELSE {}
        Held(T) == UNION {Readable(g, a) \cup Upvalue(a) : a \in {b \in T : g.heap[b] # Free}}
        after[n \in 0..Cardinality(Addr)] ==
            IF n = 0 THEN S ELSE LET before == after[n - 1] IN before \cup Held(before)
    IN  after[Cardinality(Addr)]

Reachable == ReachableFrom(stack \cup Waiting)

(* No object the program can still get hold of is freed, or is about to be: sweeplist
   never frees it and luaC_barrierf's assertion !isdead(g, v) holds. *)
NothingReachableDies ==
    \A a \in Reachable : g.heap[a] # Free /\ ~isdead(g, a)

(* While marking, a black object refers to no white one by a strong reference; only
   userdata left waiting by an earlier cycle do, marktmu marks those afresh. *)
Tricolor ==
    g.gcstate = "propagate" =>
        \A a \in Allocated(g) \ Waiting :
            isblack(g, a) => \A b \in Strong(g, stack, a) \cup Immediate(g, a) : ~iswhite(g, b)

(* Between cycles, and while finalizers run, no object is black but those that wait
   for their finalizer: no other meets the barriers, which assert they are not needed. *)
NoBlackAtRest ==
    g.gcstate \in {"pause", "finalize"} =>
        \A a \in Allocated(g) :
            isblack(g, a) => g.gcstate = "finalize" /\ a \in Waiting

(* The assertion of luaC_barrierf: outside of a cycle no store needs a barrier. *)
BarrierAssertion ==
    g.gcstate \in {"pause", "finalize"} =>
        \A u \in OnStack("userdata"), t \in OnStack("table") : ~(isblack(g, u) /\ iswhite(g, t))

(* A finalizer runs at most once, however often its userdata is brought back to life. *)
FinalizedOnce == \A a \in Allocated(g) : g.heap[a].runs <= 1

(* No userdata with a finalizer is freed before the finalizer has run. *)
FinalizedBeforeFree ==
    [][\A a \in Allocated(g) :
          Is(g, a, "userdata") /\ g.heap[a].tag = "gc" /\ g.heap[a].runs = 0
          => g'.heap[a] # Free]_vars

(* The atomic step takes the userdata it hands to their finalizers out of the values of
   weak tables, whoever else still refers to them. *)
WeakValuesGone ==
    [][g.gcstate = "propagate" /\ g'.currentwhite # g.currentwhite =>
          \A t \in Allocated(g)' :
              LET o == g'.heap[t]
              IN  o.tt = "table" /\ WeakValue(o) /\ o.mark # g.currentwhite => o.val \notin Waiting']_vars

(* Unless the program reaches it again, garbage is freed. *)
GarbageIsFreed ==
    \A a \in Addr :
        (g.heap[a] # Free /\ a \notin Reachable) ~> (g.heap[a] = Free \/ a \in Reachable)

(* What the collector relies on when it marks and when it rests: see the parts. *)
ColoursSound == TypeOK /\ Tricolor /\ NoBlackAtRest

(* The finalizer of a userdata runs once, and before the userdata is freed. *)
FinalizersSound == []FinalizedOnce /\ FinalizedBeforeFree
=============================================================================
