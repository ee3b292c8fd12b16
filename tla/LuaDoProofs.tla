----------------------------- MODULE LuaDoProofs -----------------------------
(***************************************************************************)
(* Proofs about calls, errors and coroutines, for any number of threads,   *)
(* every limit and every program.                                          *)
(***************************************************************************)
EXTENDS LuaDo, FiniteSetTheorems, SequenceTheorems, WellFoundedInduction, TLAPS

IsTarget(a) == a.op \in {"pcall", "resume"}

-----------------------------------------------------------------------------
(* What the invariant says of the C stack c: every activation i has a snapshot g[i] of what
   its thread must look like whenever everything above i is gone.

     count     nested C calls up to i, of all threads
     start     what count was when the thread was resumed; base, its baseCcalls since
     clean     no error is being handled below: nCcalls is exact
     ci        frames of the thread
     hooks     its allowhook
     guarded   there is a protected call of the thread, which a handler may belong to
     jmp       its innermost target                                               *)

IsAct(a) == {"op", "t"} \subseteq DOMAIN a /\ a.t \in Threads

IsFrames(ci) == ci \in Seq({"base", "Lua", "C"}) /\ Len(ci) >= 1 /\ ci[1] = "base"

IsSnap(x) ==
    /\ x.count \in Nat /\ x.start \in Nat /\ x.start <= x.count /\ x.base \in Nat /\ x.jmp \in Nat
    /\ x.clean \in BOOLEAN /\ x.hooks \in BOOLEAN /\ x.guarded \in BOOLEAN
    /\ IsFrames(x.ci)

(* nCcalls of a thread that looks like x, plus d calls that have no activation yet. *)
Counts(nCcalls, base, x, d) ==
    /\ nCcalls \in Nat /\ base = x.base
    /\ x.count + d <= nCcalls /\ nCcalls < LUAI_MAXCCALLS + Slack + d
    /\ x.clean => nCcalls = x.count + d
    /\ x.count + d - x.start <= nCcalls - base

(* The frames e begin with f. *)
Begins(f, e) == Len(f) <= Len(e) /\ \A k \in 1..Len(f) : e[k] = f[k]

(* The frames e are f and n more of the same kind. *)
Extends(f, e, n, kind) ==
    /\ Len(e) = Len(f) + n
    /\ \A k \in 1..Len(f) : e[k] = f[k]
    /\ \A k \in (Len(f) + 1)..Len(e) : e[k] = kind

(* What luaD_pcall saves. *)
Saved(a, x0) ==
    /\ Counts(a.nCcalls, x0.base, x0, 0)
    /\ a.nci = Len(x0.ci) /\ a.previous = x0.jmp
    /\ a.allowhook \in BOOLEAN /\ a.errfunc \in BOOLEAN
    /\ a.allowhook <=> x0.hooks
    /\ a.errfunc => x0.guarded

(* a goes on with the thread of a0, below it, or starts another. *)
Stays(a0, x0, a, x) ==
    /\ a.t = a0.t /\ x.start = x0.start /\ x.base = x0.base
    /\ x.hooks <=> (x0.hooks /\ a.op # "hook")
    /\ a.op = "hook" => x0.hooks
    /\ x.guarded <=> (x0.guarded \/ a.op = "pcall")
    /\ Extends(x0.ci, x.ci, FramesOf(a), KindOf(a))
    /\ a.op = "exec" => a = [op |-> "exec", t |-> a.t, n |-> a.n] /\ a.n \in Nat \ {0}
    /\ a.op = "parser" => a = [op |-> "parser", t |-> a.t, n |-> a.n] /\ a.n \in Nat
    /\ a.op = "pcall" => Saved(a, x0)

Starts(x0, a, x) ==
    /\ a = [op |-> "resume", t |-> a.t, previous |-> 0] /\ a.t # Main
    /\ x.start = x.count /\ x.ci = <<"base">> /\ x.hooks /\ ~x.guarded

(* What may be right below what: C code runs in a call or in luaV_execute, never right
   above a target, so that lua_yield, which drops two activations, drops none. *)
Fits(op0, op) ==
    /\ op \in {"body", "hook", "exec", "parser", "call", "pcall", "resume", "error", "handler"}
    /\ op = "body" => op0 \in {"call", "exec"}
    /\ op = "hook" => op0 = "exec"
    /\ op = "exec" => op0 \in {"call", "resume"}
    /\ op = "parser" => op0 = "pcall"
    /\ op \in {"pcall", "resume"} => op0 \in {"body", "hook"}

Enters(a0, x0, a, x, i) ==
    /\ Fits(a0.op, a.op)
    /\ x.count = x0.count + CcallsOf(a)
    /\ x.jmp = IF IsTarget(a) THEN i ELSE x0.jmp
    /\ x.clean <=> (x0.clean /\ a.op \notin {"error", "handler"})
    /\ IF a.op = "resume" THEN Starts(x0, a, x) ELSE Stays(a0, x0, a, x)

IsHost(a, x) ==
    /\ a.op = "body" /\ a.t = Main
    /\ x.count = 0 /\ x.base = 0 /\ x.jmp = 0 /\ x.clean /\ x.hooks /\ ~x.guarded /\ x.ci = <<"base">>

(* The innermost target of the thread of i: nothing of another thread lies above it. *)
Aims(c, g, i) ==
    LET j == g[i].jmp
    IN  /\ j \in 0..i
        /\ j > 0 => IsTarget(c[j]) /\ c[j].t = c[i].t
        /\ g[i].guarded => j > 0 /\ c[j].op = "pcall"
        /\ \A k \in (j + 1)..i : c[k].t = c[i].t /\ ~IsTarget(c[k])

(* The other activations of its thread. *)
Agrees(c, g, i) ==
    /\ g[i].hooks <=> \A k \in 1..i : c[k].t = c[i].t => c[k].op # "hook"
    /\ c[i].t # Main => \E r \in 1..i : c[r].t = c[i].t /\ c[r].op = "resume"
    /\ \A k \in 1..i : c[k].t = c[i].t =>
        /\ g[k].start = g[i].start /\ g[k].base = g[i].base
        /\ Begins(g[k].ci, g[i].ci)

(* A thread is resumed when it has no activation, and has none above the next resume. *)
Fresh(c, i) ==
    \A r \in 2..i : c[r].op = "resume" => \A k \in 1..(r - 1) : c[k].t # c[i].t

Level(c, g, i) ==
    /\ IsAct(c[i]) /\ IsSnap(g[i])
    /\ IF i = 1 THEN IsHost(c[1], g[1]) ELSE Enters(c[i - 1], g[i - 1], c[i], g[i], i)
    /\ Aims(c, g, i) /\ Agrees(c, g, i) /\ Fresh(c, i)

Shape(c, n, g) == \A i \in 1..n : Level(c, g, i)

-----------------------------------------------------------------------------
(* What it says of the threads. *)

HasFields(L) ==
    DOMAIN L = {"status", "ci", "sizeci", "nCcalls", "baseCcalls", "errfunc", "jmp",
                "allowhook", "values", "started"}

IsThread(L) ==
    /\ HasFields(L)
    /\ L.status \in Statuses
    /\ IsFrames(L.ci) /\ L.sizeci \in 2..(2 * LUAI_MAXCALLS) /\ Len(L.ci) <= L.sizeci
    /\ L.nCcalls \in 0..(LUAI_MAXCCALLS + Slack) /\ L.baseCcalls \in 0..(LUAI_MAXCCALLS + Slack)
    /\ L.errfunc \in BOOLEAN /\ L.allowhook \in BOOLEAN /\ L.values \in BOOLEAN
    /\ L.jmp \in Nat

(* A thread that looks like the snapshot x. *)
Matches(t, L, x, d) ==
    /\ IsThread(L) /\ Counts(L.nCcalls, L.baseCcalls, x, d) /\ L.jmp = x.jmp
    /\ t # Main => ~L.values
    /\ L.status = "ok" /\ L.ci = x.ci
    /\ L.allowhook <=> x.hooks
    /\ L.errfunc => x.guarded

(* lua_yield leaves the frames of Lua functions, and that of a C function. *)
Yielded(L) ==
    /\ L.status = "yield" /\ ~L.errfunc /\ L.allowhook
    /\ Len(L.ci) >= 2
    /\ \A k \in 2..(Len(L.ci) - 1) : L.ci[k] = "Lua"
    /\ L.ci[Len(L.ci)] = "Lua" \/ (L.ci[Len(L.ci)] = "C" /\ Len(L.ci) >= 3)

(* A coroutine that has yielded to the resume with the snapshot x. *)
Returns(L, x) ==
    /\ IsThread(L) /\ Counts(L.nCcalls, L.baseCcalls, x, 0) /\ L.jmp = x.jmp
    /\ ~L.values
    /\ Yielded(L)

(* A thread without activations. *)
Idle(L) ==
    /\ IsThread(L) /\ L.jmp = 0
    /\ L.status = "ok" => L.ci = <<"base">> /\ L.allowhook /\ ~L.errfunc
    /\ L.status = "yield" => Yielded(L)

(* All threads but the one that runs. *)
Waiting(c, n, g, T) ==
    /\ \A i \in 1..(n - 1) : c[i + 1].op = "resume" => Matches(c[i].t, T[c[i].t], g[i], 0)
    /\ \A u \in Threads : (\A i \in 1..n : c[i].t # u) => Idle(T[u])

IsStack(c) == \E S : c \in Seq(S)

IsMachine(s) ==
    /\ s = [thread |-> s.thread, cstack |-> s.cstack]
    /\ s.thread = [t \in Threads |-> s.thread[t]]
    /\ IsStack(s.cstack)

(* t runs on top of the C stack c. *)
Runs(T, c, g, t) ==
    /\ IsStack(c) /\ Len(c) > 0 /\ c[Len(c)].t = t
    /\ Shape(c, Len(c), g) /\ Waiting(c, Len(c), g, T)

At(s, g, t, d) ==
    /\ IsMachine(s) /\ Runs(s.thread, s.cstack, g, t)
    /\ Matches(t, s.thread[t], g[Len(s.cstack)], d)

AtYield(s, g, t) ==
    /\ IsMachine(s) /\ Runs(s.thread, s.cstack, g, t)
    /\ s.cstack[Len(s.cstack)].op = "resume"
    /\ Returns(s.thread[t], g[Len(s.cstack)])

(* The process has exited. *)
Exited(s) ==
    /\ IsMachine(s) /\ s.cstack = <<>>
    /\ \A t \in Threads : IsThread(s.thread[t]) /\ s.thread[t].jmp = 0
                          /\ (s.thread[t].status = "yield" => ~s.thread[t].errfunc)

Sound(s) == Exited(s) \/ \E g, t : At(s, g, t, 0) \/ AtYield(s, g, t)

-----------------------------------------------------------------------------
(* The C stack as a sequence. *)

(* The numbers are well-founded. *)
LEMMA LessIsWellFounded == IsWellFoundedOn({ss \in Nat \X Nat : ss[1] < ss[2]}, Nat)
BY NatLessThanWellFounded DEF OpToRel

(* A set of positions has a last one. *)
LEMMA HasLast ==
    ASSUME NEW n \in Nat, NEW S, S \subseteq 1..n, S # {}
    PROVE  \E i \in S : \A j \in S : j <= i
<1> DEFINE R == {ss \in Nat \X Nat : ss[1] < ss[2]}
           T == {n - i : i \in S}
<1>1. IsWellFoundedOn(R, Nat)
  BY LessIsWellFounded
<1>2. PICK i0 \in S : TRUE
  OBVIOUS
<1>3. n - i0 \in T
  BY <1>2
<1>4. T \subseteq Nat
  OBVIOUS
<1> HIDE DEF R, T
<1>5. PICK x \in T : \A y \in T : ~(<<y, x>> \in R)
  BY <1>1, <1>3, <1>4, WFMin
<1>6. \A y \in T : ~(y < x)
  BY <1>4, <1>5 DEF R
<1>7. PICK i \in S : x = n - i
  BY DEF T
<1>8. ASSUME NEW j \in S PROVE j <= i
  <2>1. n - j \in T
    BY DEF T
  <2> QED
    BY <2>1, <1>6, <1>7
<1> QED
  BY <1>8

LEMMA StackFacts ==
    ASSUME NEW c, IsStack(c)
    PROVE  /\ Len(c) \in Nat
           /\ c # <<>> <=> Len(c) > 0
           /\ Last(c) = c[Len(c)]
           /\ DOMAIN c = 1..Len(c)
<1>1. PICK S : c \in Seq(S)
  BY DEF IsStack
<1> QED
  BY <1>1, EmptySeq, LenProperties DEF Last

LEMMA AppendFacts ==
    ASSUME NEW c, IsStack(c), NEW a
    PROVE  /\ IsStack(Append(c, a))
           /\ Len(Append(c, a)) = Len(c) + 1
           /\ Append(c, a)[Len(c) + 1] = a
           /\ \A i \in 1..Len(c) : Append(c, a)[i] = c[i]
<1>1. PICK S : c \in Seq(S)
  BY DEF IsStack
<1> DEFINE T == S \cup {a}
<1>2. c \in Seq(T)
  BY <1>1, SeqMonotonic
<1>3. a \in T
  OBVIOUS
<1> HIDE DEF T
<1>4. /\ Append(c, a) \in Seq(T)
      /\ Len(Append(c, a)) = Len(c) + 1
      /\ Append(c, a)[Len(c) + 1] = a
      /\ \A i \in 1..Len(c) : Append(c, a)[i] = c[i]
  BY <1>2, <1>3, AppendProperties
<1> QED
  BY <1>4 DEF IsStack

LEMMA CutFacts ==
    ASSUME NEW c, IsStack(c), NEW n \in Nat, n <= Len(c)
    PROVE  /\ IsStack(SubSeq(c, 1, n))
           /\ Len(SubSeq(c, 1, n)) = n
           /\ \A i \in 1..n : SubSeq(c, 1, n)[i] = c[i]
<1>1. PICK S : c \in Seq(S)
  BY DEF IsStack
<1>2. Len(c) \in Nat
  BY StackFacts
<1>3. \A i \in 1..n : c[i] \in S
  <2>1. SUFFICES ASSUME NEW i \in 1..n PROVE c[i] \in S
    OBVIOUS
  <2>2. i \in 1..Len(c)
    BY <1>2
  <2> QED
    BY ONLY <1>1, <2>2, ElementOfSeq
<1>4. /\ SubSeq(c, 1, n) \in Seq(S)
      /\ Len(SubSeq(c, 1, n)) = IF 1 <= n THEN n - 1 + 1 ELSE 0
      /\ \A i \in 1..(n - 1 + 1) : SubSeq(c, 1, n)[i] = c[1 + i - 1]
  BY ONLY <1>3, SubSeqProperties, n \in Nat
<1>5. Len(SubSeq(c, 1, n)) = n /\ \A i \in 1..n : SubSeq(c, 1, n)[i] = c[i]
  BY ONLY <1>4, n \in Nat
<1> QED
  BY <1>4, <1>5 DEF IsStack

Turned(c, k, a, d) == d = [c EXCEPT ![k] = a]

LEMMA TurnFacts ==
    ASSUME NEW c, IsStack(c), NEW k \in 1..Len(c), NEW a, NEW d, Turned(c, k, a, d)
    PROVE  IsStack(d) /\ Len(d) = Len(c) /\ \A i \in 1..Len(c) : d[i] = IF i = k THEN a ELSE c[i]
<1>1. PICK S : c \in Seq(S)
  BY DEF IsStack
<1> DEFINE T == S \cup {a}
<1>2. c \in Seq(T)
  BY <1>1, SeqMonotonic
<1>3. a \in T
  OBVIOUS
<1> HIDE DEF T
<1>4. d \in Seq(T)
  BY <1>2, <1>3, ExceptSeq DEF Turned
<1>5. Len(d) = Len(c) /\ \A i \in 1..Len(c) : d[i] = IF i = k THEN a ELSE c[i]
  BY <1>2, <1>3, ExceptSeq DEF Turned
<1> QED
  BY <1>4, <1>5 DEF IsStack

-----------------------------------------------------------------------------
(* The levels of the C stack. *)

(* A level is about what is at and below it. *)
LEMMA SameLevel ==
    ASSUME NEW c, NEW g, NEW d, NEW h, NEW i \in Nat \ {0}, Level(c, g, i),
           \A k \in 1..i : d[k] = c[k] /\ h[k] = g[k]
    PROVE  Level(d, h, i)
<1>1. i \in 1..i /\ 1 \in 1..i /\ (i # 1 => i - 1 \in 1..i)
  OBVIOUS
<1>2. d[i] = c[i] /\ h[i] = g[i] /\ d[1] = c[1] /\ h[1] = g[1]
      /\ (i # 1 => d[i - 1] = c[i - 1] /\ h[i - 1] = g[i - 1])
  BY <1>1
<1>3. Aims(d, h, i)
  <2>1. Aims(c, g, i)
    BY DEF Level
  <2>2. PICK j : j = g[i].jmp
    OBVIOUS
  <2>3. j \in 0..i
    BY <2>1, <2>2 DEF Aims
  <2>4. (j > 0 => d[j] = c[j]) /\ \A k \in (j + 1)..i : d[k] = c[k]
    BY <2>3
  <2> QED
    BY <1>2, <2>1, <2>2, <2>4 DEF Aims
<1>4. Agrees(d, h, i)
  <2>1. Agrees(c, g, i)
    BY DEF Level
  <2> QED
    BY <1>2, <2>1 DEF Agrees
<1>5. Fresh(d, i)
  <2>1. Fresh(c, i)
    BY DEF Level
  <2>2. \A r \in 2..i : r \in 1..i /\ \A k \in 1..(r - 1) : k \in 1..i
    OBVIOUS
  <2> QED
    BY <1>2, <2>1, <2>2 DEF Fresh
<1>6. IsAct(d[i]) /\ IsSnap(h[i])
      /\ IF i = 1 THEN IsHost(d[1], h[1]) ELSE Enters(d[i - 1], h[i - 1], d[i], h[i], i)
  BY <1>2 DEF Level
<1> QED
  BY <1>3, <1>4, <1>5, <1>6 DEF Level

LEMMA SameShape ==
    ASSUME NEW c, NEW g, NEW d, NEW h, NEW n \in Nat, NEW k \in Nat, k <= n, Shape(c, n, g),
           \A i \in 1..k : d[i] = c[i] /\ h[i] = g[i]
    PROVE  Shape(d, k, h)
<1>1. SUFFICES ASSUME NEW i \in 1..k PROVE Level(d, h, i)
  BY DEF Shape
<1>2. i \in 1..n /\ i \in Nat \ {0} /\ \A m \in 1..i : m \in 1..k
  OBVIOUS
<1>3. Level(c, g, i)
  BY <1>2 DEF Shape
<1> QED
  BY <1>2, <1>3, SameLevel

(* One more activation of the thread that runs. *)
LEMMA NextLevel ==
    ASSUME NEW c, NEW g, NEW n \in Nat \ {0}, Level(c, g, n),
           IsAct(c[n + 1]), IsSnap(g[n + 1]), c[n + 1].op # "resume",
           Enters(c[n], g[n], c[n + 1], g[n + 1], n + 1)
    PROVE  Level(c, g, n + 1)
<1> DEFINE a == c[n + 1]
           x == g[n + 1]
<1>1. /\ IsAct(c[n]) /\ IsSnap(g[n]) /\ Aims(c, g, n) /\ Agrees(c, g, n) /\ Fresh(c, n)
      /\ n + 1 # 1 /\ n + 1 - 1 = n
  BY DEF Level
<1>2. Stays(c[n], g[n], a, x) /\ x.jmp = IF IsTarget(a) THEN n + 1 ELSE g[n].jmp
  BY DEF Enters
<1> HIDE DEF a, x
<1>3. a.t = c[n].t
  BY <1>2 DEF Stays
<1>4. Aims(c, g, n + 1)
  <2>1. CASE IsTarget(a)
    BY <1>1, <1>2, <1>3, <2>1 DEF Aims, a, x, IsTarget
  <2>2. CASE ~IsTarget(a)
    <3>1. PICK j : j = g[n].jmp
      OBVIOUS
    <3>2. /\ j \in 0..n /\ x.jmp = j
          /\ j > 0 => IsTarget(c[j]) /\ c[j].t = a.t
          /\ \A k \in (j + 1)..n : c[k].t = a.t /\ ~IsTarget(c[k])
      BY <1>1, <1>2, <1>3, <2>2, <3>1 DEF Aims
    <3>3. x.guarded => g[n].guarded
      BY <1>2, <2>2 DEF Stays, IsTarget
    <3>4. g[n].guarded => j > 0 /\ c[j].op = "pcall"
      BY <1>1, <3>1 DEF Aims
    <3>5. \A k \in (j + 1)..(n + 1) : k \in (j + 1)..n \/ k = n + 1
      BY <3>2
    <3>6. \A k \in (j + 1)..(n + 1) : c[k].t = a.t /\ ~IsTarget(c[k])
      BY <2>2, <3>2, <3>5 DEF a
    <3>7. j \in 0..(n + 1)
      BY <3>2
    <3> QED
      BY <3>2, <3>3, <3>4, <3>6, <3>7 DEF Aims, a, x
  <2> QED
    BY <2>1, <2>2
<1>5. Agrees(c, g, n + 1)
  <2>1. \A k \in 1..(n + 1) : k \in 1..n \/ k = n + 1
    OBVIOUS
  <2>2. \A k \in 1..n : k \in 1..(n + 1)
    OBVIOUS
  <2>3. n + 1 \in 1..(n + 1)
    OBVIOUS
  <2>4. x.hooks <=> \A k \in 1..(n + 1) : c[k].t = a.t => c[k].op # "hook"
    BY <1>1, <1>2, <1>3, <2>1, <2>2, <2>3 DEF Stays, Agrees, a
  <2>5. a.t # Main => \E r \in 1..(n + 1) : c[r].t = a.t /\ c[r].op = "resume"
    BY <1>1, <1>3, <2>2 DEF Agrees
  <2>6. ASSUME NEW k \in 1..(n + 1), c[k].t = a.t
        PROVE  /\ g[k].start = x.start /\ g[k].base = x.base
               /\ Begins(g[k].ci, x.ci)
    <3>1. Len(x.ci) \in Nat /\ Len(g[n].ci) \in Nat /\ Len(g[n].ci) <= Len(x.ci)
      <4>1. FramesOf(a) \in Nat
        BY <1>2 DEF Stays, FramesOf
      <4>2. Len(g[n].ci) \in Nat
        BY <1>1, LenProperties DEF IsSnap, IsFrames
      <4> QED
        BY <1>2, <4>1, <4>2 DEF Stays, Extends
    <3>2. CASE k = n + 1
      BY <3>1, <3>2 DEF x, Begins
    <3>3. CASE k # n + 1
      <4>1. k \in 1..n
        BY <3>3
      <4>2. /\ g[k].start = g[n].start /\ g[k].base = g[n].base
            /\ Begins(g[k].ci, g[n].ci)
        BY <1>1, <1>3, <2>6, <4>1 DEF Agrees
      <4>3. \A f \in 1..Len(g[n].ci) : x.ci[f] = g[n].ci[f]
        BY <1>2 DEF Stays, Extends
      <4>4. g[n].start = x.start /\ g[n].base = x.base
        BY <1>2 DEF Stays
      <4> QED
        BY <3>1, <4>2, <4>3, <4>4, SMTT(30) DEF Begins
    <3> QED
      BY <3>2, <3>3
  <2> QED
    BY <2>4, <2>5, <2>6 DEF Agrees, a, x
<1>6. Fresh(c, n + 1)
  <2>1. ASSUME NEW r \in 2..(n + 1), c[r].op = "resume", NEW k \in 1..(r - 1)
        PROVE  c[k].t # c[n + 1].t
    <3>1. r # n + 1
      BY <2>1
    <3>2. r \in 2..n
      BY <3>1
    <3> QED
      BY <1>1, <1>3, <2>1, <3>2 DEF Fresh, a
  <2> QED
    BY <2>1 DEF Fresh
<1> QED
  BY <1>1, <1>4, <1>5, <1>6 DEF Level

(* A thread is resumed that has no activation. *)
LEMMA ResumeLevel ==
    ASSUME NEW c, NEW g, NEW n \in Nat \ {0}, Level(c, g, n),
           IsAct(c[n + 1]), IsSnap(g[n + 1]), c[n + 1].op = "resume",
           Enters(c[n], g[n], c[n + 1], g[n + 1], n + 1),
           \A k \in 1..n : c[k].t # c[n + 1].t
    PROVE  Level(c, g, n + 1)
<1> DEFINE a == c[n + 1]
           x == g[n + 1]
<1>1. IsAct(c[n]) /\ IsSnap(g[n]) /\ n + 1 # 1 /\ n + 1 - 1 = n /\ n + 1 \in 1..(n + 1)
      /\ \A k \in 1..(n + 1) : k \in 1..n \/ k = n + 1
  BY DEF Level
<1>2. Starts(g[n], a, x) /\ x.jmp = n + 1
  BY DEF Enters, IsTarget
<1>3. Aims(c, g, n + 1)
  BY <1>2 DEF Aims, Starts, IsTarget
<1>4. Agrees(c, g, n + 1)
  <2>1. x.hooks /\ a.op # "hook"
    BY <1>2 DEF Starts
  <2>2. \A k \in 1..(n + 1) : c[k].t = a.t => k = n + 1
    BY <1>1
  <2>3. Len(x.ci) \in Nat
    BY LenProperties DEF IsSnap, IsFrames
  <2> HIDE DEF a, x
  <2>4. /\ x.hooks <=> \A k \in 1..(n + 1) : c[k].t = a.t => c[k].op # "hook"
        /\ a.t # Main => \E r \in 1..(n + 1) : c[r].t = a.t /\ c[r].op = "resume"
        /\ \A k \in 1..(n + 1) : c[k].t = a.t =>
            /\ g[k].start = x.start /\ g[k].base = x.base
            /\ Begins(g[k].ci, x.ci)
    BY <1>1, <2>1, <2>2, <2>3 DEF a, x, Begins
  <2> QED
    BY <2>4 DEF Agrees, a, x
<1>5. Fresh(c, n + 1)
  BY DEF Fresh
<1> QED
  BY <1>1, <1>3, <1>4, <1>5 DEF Level

LEMMA LevelFacts ==
    ASSUME NEW c, NEW n \in Nat, NEW g, Shape(c, n, g)
    PROVE  /\ \A i \in 1..n : IsAct(c[i]) /\ IsSnap(g[i]) /\ Aims(c, g, i) /\ Agrees(c, g, i) /\ Fresh(c, i)
           /\ n > 0 => IsHost(c[1], g[1])
           /\ \A i \in 2..n : Enters(c[i - 1], g[i - 1], c[i], g[i], i)
<1>1. \A i \in 1..n : Level(c, g, i)
  BY DEF Shape
<1>2. n > 0 => 1 \in 1..n
  OBVIOUS
<1>3. \A i \in 2..n : i \in 1..n /\ i # 1
  OBVIOUS
<1> QED
  BY <1>1, <1>2, <1>3 DEF Level

(* The topmost activation of a thread is the last or that under a resume of another. *)
LEMMA TopOfThread ==
    ASSUME NEW c, NEW n \in Nat, NEW g, Shape(c, n, g), NEW i \in 1..n
    PROVE  \E j \in i..n : /\ c[j].t = c[i].t
                           /\ \A k \in (j + 1)..n : c[k].t # c[i].t
                           /\ j < n => c[j + 1].op = "resume"
<1> DEFINE S == {j \in 1..n : c[j].t = c[i].t}
<1>1. S \subseteq 1..n /\ i \in S
  OBVIOUS
<1>2. PICK j \in S : \A k \in S : k <= j
  BY ONLY <1>1, HasLast, n \in Nat
<1>3. j \in 1..n /\ c[j].t = c[i].t /\ i <= j
  BY <1>1, <1>2
<1>4. \A k \in (j + 1)..n : c[k].t # c[i].t
  BY <1>2, <1>3
<1>5. ASSUME j < n PROVE c[j + 1].op = "resume"
  <2>1. j + 1 \in 2..n /\ j + 1 - 1 = j /\ j + 1 \in (j + 1)..n
    BY <1>3, <1>5
  <2>2. Enters(c[j], g[j], c[j + 1], g[j + 1], j + 1)
    <3>1. \A m \in 2..n : Enters(c[m - 1], g[m - 1], c[m], g[m], m)
      BY LevelFacts
    <3>2. Enters(c[j + 1 - 1], g[j + 1 - 1], c[j + 1], g[j + 1], j + 1)
      BY ONLY <2>1, <3>1
    <3> QED
      BY ONLY <2>1, <3>2
  <2>3. c[j + 1].t # c[j].t
    BY <1>3, <1>4, <2>1
  <2> QED
    BY <2>2, <2>3 DEF Enters, Stays
<1> QED
  BY <1>3, <1>4, <1>5

-----------------------------------------------------------------------------
(* What the running thread does to the C stack. *)

(* Only the running thread changes. *)
Others(T, U, t) == \A u \in Threads : u # t => U[u] = T[u]

(* Nothing below position k changes, and what is above is the thread's own. *)
Moves(c, n, g, d, m, h, t, k) ==
    /\ m \in Nat /\ k \in 1..n /\ k <= m
    /\ \A i \in k..n : c[i].t = t
    /\ \A i \in 1..(k - 1) : d[i] = c[i] /\ h[i] = g[i]
    /\ d[k].op = c[k].op
    /\ \A i \in k..m : d[i].t = t
    /\ \A i \in (k + 1)..m : d[i].op # "resume"

LEMMA MoveWaiting ==
    ASSUME NEW c, NEW n \in Nat, NEW g, Shape(c, n, g), NEW T, Waiting(c, n, g, T),
           NEW U, NEW t, Others(T, U, t),
           NEW d, NEW m, NEW h, NEW k, Moves(c, n, g, d, m, h, t, k)
    PROVE  Waiting(d, m, h, U)
<1> USE DEF Moves
<1>1. ASSUME NEW i \in 1..(m - 1), d[i + 1].op = "resume"
      PROVE  Matches(d[i].t, U[d[i].t], h[i], 0)
  <2>1. i + 1 \in 1..m /\ i + 1 \notin (k + 1)..m
    BY <1>1
  <2>2. i + 1 <= k
    BY <2>1
  <2>3. i \in 1..(k - 1) /\ i \in 1..(n - 1) /\ i + 1 \in 2..n
    BY <2>2
  <2>4. d[i] = c[i] /\ h[i] = g[i]
    BY <2>3
  <2>5. c[i + 1].op = "resume"
    <3>1. CASE i + 1 = k
      BY <1>1, <3>1
    <3>2. CASE i + 1 # k
      <4>1. i + 1 \in 1..(k - 1)
        BY <2>2, <2>3, <3>2
      <4> QED
        BY <1>1, <4>1
    <3> QED
      BY <3>1, <3>2
  <2>6. Matches(c[i].t, T[c[i].t], g[i], 0)
    BY <2>3, <2>5 DEF Waiting
  <2>7. c[i].t \in Threads /\ c[i].t # t
    <3>1. n \in 1..n /\ i \in 1..n /\ i \in 1..(i + 1 - 1) /\ n \in k..n
      BY <2>3
    <3>2. Fresh(c, n) /\ IsAct(c[i])
      BY <3>1, LevelFacts
    <3> QED
      BY <2>3, <2>5, <3>1, <3>2 DEF Fresh, IsAct
  <2> QED
    BY <2>4, <2>6, <2>7 DEF Others
<1>2. ASSUME NEW u \in Threads, \A i \in 1..m : d[i].t # u PROVE Idle(U[u])
  <2>1. k \in k..m /\ k \in 1..m
    OBVIOUS
  <2>2. u # t
    BY <1>2, <2>1
  <2>3. ASSUME NEW i \in 1..n PROVE c[i].t # u
    <3>1. CASE i \in k..n
      BY <2>2, <3>1
    <3>2. CASE i \notin k..n
      <4>1. i \in 1..(k - 1) /\ i \in 1..m
        BY <3>2
      <4> QED
        BY <1>2, <4>1
    <3> QED
      BY <3>1, <3>2
  <2> QED
    BY <2>2, <2>3 DEF Waiting, Others
<1> QED
  BY <1>1, <1>2 DEF Waiting

LEMMA RunsFacts ==
    ASSUME NEW T, NEW c, NEW g, NEW t, Runs(T, c, g, t)
    PROVE  /\ IsStack(c) /\ Len(c) \in Nat /\ Len(c) > 0 /\ Len(c) \in 1..Len(c)
           /\ c[Len(c)].t = t /\ t \in Threads
           /\ Shape(c, Len(c), g) /\ Waiting(c, Len(c), g, T) /\ IsSnap(g[Len(c)])
           /\ c # <<>> /\ Last(c) = c[Len(c)]
<1>1. IsStack(c) /\ Len(c) \in Nat /\ Len(c) > 0 /\ c # <<>> /\ Last(c) = c[Len(c)]
      /\ c[Len(c)].t = t /\ Shape(c, Len(c), g) /\ Waiting(c, Len(c), g, T)
  BY StackFacts DEF Runs
<1>2. Len(c) \in 1..Len(c)
  BY <1>1
<1> QED
  BY <1>1, <1>2, LevelFacts DEF IsAct

(* The stack is cut to k activations, which ends it where the thread itself runs. *)
LEMMA CutRuns ==
    ASSUME NEW T, NEW c, NEW g, NEW t, Runs(T, c, g, t), NEW U, Others(T, U, t),
           NEW k \in 1..Len(c), \A i \in k..Len(c) : c[i].t = t
    PROVE  Runs(U, SubSeq(c, 1, k), g, t)
<1> DEFINE n == Len(c)
           d == SubSeq(c, 1, k)
<1>1. IsStack(c) /\ n \in Nat /\ Shape(c, n, g) /\ Waiting(c, n, g, T)
  BY RunsFacts
<1>2. k \in Nat /\ k <= n /\ k > 0 /\ k \in 1..k /\ k <= k
  BY <1>1
<1>3. IsStack(d) /\ Len(d) = k /\ \A i \in 1..k : d[i] = c[i]
  BY <1>1, <1>2, CutFacts
<1> HIDE DEF d, n
<1>4. Shape(d, k, g)
  BY <1>1, <1>2, <1>3, SameShape
<1>5. d[k] = c[k] /\ d[k].op = c[k].op /\ c[k].t = t /\ \A i \in k..n : c[i].t = t
  BY <1>1, <1>2, <1>3 DEF n
<1>6. /\ \A i \in 1..(k - 1) : d[i] = c[i] /\ g[i] = g[i]
      /\ \A i \in k..k : d[i].t = t
      /\ \A i \in (k + 1)..k : d[i].op # "resume"
  BY <1>2, <1>3, <1>5
<1>7. k \in 1..n
  BY DEF n
<1>8. Waiting(d, k, g, U)
  <2>1. Moves(c, n, g, d, k, g, t, k)
    BY ONLY <1>2, <1>5, <1>6, <1>7 DEF Moves
  <2> QED
    BY ONLY <1>1, <2>1, Others(T, U, t), MoveWaiting
<1>9. Runs(U, d, g, t)
  BY <1>2, <1>3, <1>4, <1>5, <1>8 DEF Runs
<1> QED
  BY <1>9 DEF d

LEMMA SameRuns ==
    ASSUME NEW T, NEW c, NEW g, NEW t, Runs(T, c, g, t), NEW U, Others(T, U, t)
    PROVE  Runs(U, c, g, t)
<1> DEFINE n == Len(c)
<1>1. IsStack(c) /\ n \in Nat /\ n > 0 /\ n \in 1..n /\ Shape(c, n, g) /\ Waiting(c, n, g, T) /\ c[n].t = t
  BY RunsFacts
<1> HIDE DEF n
<1>2. /\ \A i \in n..n : c[i].t = t
      /\ \A i \in 1..(n - 1) : c[i] = c[i] /\ g[i] = g[i]
      /\ \A i \in (n + 1)..n : c[i].op # "resume"
      /\ c[n].op = c[n].op /\ n <= n
  BY <1>1
<1>3. Moves(c, n, g, c, n, g, t, n)
  BY ONLY <1>1, <1>2 DEF Moves
<1>4. Waiting(c, n, g, U)
  BY ONLY <1>1, <1>3, Others(T, U, t), MoveWaiting
<1> QED
  BY <1>1, <1>4 DEF Runs, n

(* The thread enters one more activation. *)
LEMMA PushRuns ==
    ASSUME NEW T, NEW c, NEW g, NEW t, Runs(T, c, g, t), NEW U, Others(T, U, t),
           NEW a, IsAct(a), a.op # "resume", NEW x, IsSnap(x),
           Enters(c[Len(c)], g[Len(c)], a, x, Len(c) + 1)
    PROVE  \E h : Runs(U, Append(c, a), h, t) /\ h[Len(c) + 1] = x
                  /\ \A i \in 1..Len(c) : h[i] = g[i]
<1> DEFINE n == Len(c)
           d == Append(c, a)
<1>1. IsStack(c) /\ n \in Nat /\ n > 0 /\ n \in 1..n /\ Shape(c, n, g) /\ Waiting(c, n, g, T) /\ c[n].t = t
  BY RunsFacts
<1>2. IsStack(d) /\ Len(d) = n + 1 /\ d[n + 1] = a /\ \A i \in 1..n : d[i] = c[i]
  BY <1>1, AppendFacts
<1>3. Enters(c[n], g[n], a, x, n + 1)
  OBVIOUS
<1> HIDE DEF n, d
<1>4. PICK h : h = [i \in 1..(n + 1) |-> IF i = n + 1 THEN x ELSE g[i]]
  OBVIOUS
<1>5. h[n + 1] = x /\ \A i \in 1..n : h[i] = g[i]
  BY <1>1, <1>4
<1>6. a.t = t
  BY <1>1, <1>3 DEF Enters, Stays
<1>7. Shape(d, n, h)
  <2>1. n \in Nat /\ n <= n /\ \A i \in 1..n : d[i] = c[i] /\ h[i] = g[i]
    BY <1>1, <1>2, <1>5
  <2> QED
    BY ONLY <1>1, <2>1, SameShape
<1>8. d[n] = c[n] /\ h[n] = g[n] /\ n \in Nat \ {0}
  BY <1>1, <1>2, <1>5
<1>9. Level(d, h, n + 1)
  <2>1. Level(d, h, n)
    BY <1>1, <1>7 DEF Shape
  <2>2. IsAct(d[n + 1]) /\ IsSnap(h[n + 1]) /\ d[n + 1].op # "resume"
        /\ Enters(d[n], h[n], d[n + 1], h[n + 1], n + 1)
    BY <1>2, <1>3, <1>5, <1>8
  <2> QED
    BY ONLY <1>8, <2>1, <2>2, NextLevel
<1>10. Shape(d, n + 1, h)
  <2>1. \A i \in 1..(n + 1) : i \in 1..n \/ i = n + 1
    BY <1>1
  <2> QED
    BY <1>7, <1>9, <2>1 DEF Shape
<1>11. Waiting(d, n + 1, h, U)
  <2>1. /\ \A i \in n..n : c[i].t = t
        /\ \A i \in 1..(n - 1) : d[i] = c[i] /\ h[i] = g[i]
        /\ \A i \in n..(n + 1) : i = n \/ i = n + 1
        /\ \A i \in (n + 1)..(n + 1) : i = n + 1
        /\ n <= n + 1 /\ n + 1 \in Nat
    BY <1>1, <1>2, <1>5
  <2>2. /\ \A i \in n..(n + 1) : d[i].t = t
        /\ \A i \in (n + 1)..(n + 1) : d[i].op # "resume"
        /\ d[n].op = c[n].op
    BY <1>1, <1>2, <1>6, <1>8, <2>1
  <2>3. Moves(c, n, g, d, n + 1, h, t, n)
    BY ONLY <1>1, <2>1, <2>2 DEF Moves
  <2> QED
    BY ONLY <1>1, <2>3, Others(T, U, t), MoveWaiting
<1>12. Runs(U, d, h, t)
  BY <1>1, <1>2, <1>6, <1>10, <1>11 DEF Runs
<1> QED
  BY <1>5, <1>12 DEF d, n

(* Another thread is resumed. *)
Resumes(c, a) == a.op = "resume" /\ \A i \in 1..Len(c) : c[i].t # a.t

Entering(T, c, g, t, a, U, x) ==
    /\ Runs(T, c, g, t) /\ Matches(t, T[t], g[Len(c)], 0)
    /\ IsAct(a) /\ Resumes(c, a) /\ Others(T, U, a.t)
    /\ IsSnap(x) /\ Enters(c[Len(c)], g[Len(c)], a, x, Len(c) + 1)

LEMMA EnterRuns ==
    ASSUME NEW T, NEW c, NEW g, NEW t, NEW a, NEW U, NEW x, Entering(T, c, g, t, a, U, x)
    PROVE  \E h : Runs(U, Append(c, a), h, a.t) /\ h[Len(c) + 1] = x
<1> DEFINE n == Len(c)
           d == Append(c, a)
<1>0. /\ Runs(T, c, g, t) /\ Matches(t, T[t], g[Len(c)], 0)
      /\ IsAct(a) /\ Resumes(c, a) /\ Others(T, U, a.t)
      /\ IsSnap(x) /\ Enters(c[Len(c)], g[Len(c)], a, x, Len(c) + 1)
  BY DEF Entering
<1> USE <1>0
<1>1. IsStack(c) /\ n \in Nat /\ n > 0 /\ n \in 1..n /\ Shape(c, n, g) /\ Waiting(c, n, g, T)
      /\ c[n].t = t /\ t \in Threads
  BY RunsFacts
<1>2. IsStack(d) /\ Len(d) = n + 1 /\ d[n + 1] = a /\ \A i \in 1..n : d[i] = c[i]
  BY <1>1, AppendFacts
<1>3. Enters(c[n], g[n], a, x, n + 1) /\ Matches(t, T[t], g[n], 0) /\ a.op = "resume" /\ \A i \in 1..n : c[i].t # a.t
  BY DEF Resumes
<1> HIDE DEF n, d
<1>4. PICK h : h = [i \in 1..(n + 1) |-> IF i = n + 1 THEN x ELSE g[i]]
  OBVIOUS
<1>5. h[n + 1] = x /\ \A i \in 1..n : h[i] = g[i]
  BY <1>1, <1>4
<1>6. Shape(d, n, h)
  <2>1. n \in Nat /\ n <= n /\ \A i \in 1..n : d[i] = c[i] /\ h[i] = g[i]
    BY <1>1, <1>2, <1>5
  <2> QED
    BY ONLY <1>1, <2>1, SameShape
<1>7. d[n] = c[n] /\ h[n] = g[n] /\ n \in Nat \ {0}
  BY <1>1, <1>2, <1>5
<1>8. Level(d, h, n + 1)
  <2>1. Level(d, h, n)
    BY <1>1, <1>6 DEF Shape
  <2>2. IsAct(d[n + 1]) /\ IsSnap(h[n + 1]) /\ d[n + 1].op = "resume"
        /\ Enters(d[n], h[n], d[n + 1], h[n + 1], n + 1) /\ \A k \in 1..n : d[k].t # d[n + 1].t
    BY <1>2, <1>3, <1>5, <1>7
  <2> QED
    BY ONLY <1>7, <2>1, <2>2, ResumeLevel
<1>9. Shape(d, n + 1, h)
  <2>1. \A i \in 1..(n + 1) : i \in 1..n \/ i = n + 1
    BY <1>1
  <2> QED
    BY <1>6, <1>8, <2>1 DEF Shape
<1>10. Waiting(d, n + 1, h, U)
  <2>1. \A i \in 1..n : i \in 1..(n - 1) \/ i = n
    BY <1>1
  <2>2. \A i \in 1..(n - 1) : i \in 1..n /\ i + 1 \in 1..n
    BY <1>1
  <2>3. \A i \in 1..n : IsAct(c[i])
    BY <1>1, LevelFacts
  <2>4. ASSUME NEW i \in 1..n, d[i + 1].op = "resume" PROVE Matches(d[i].t, U[d[i].t], h[i], 0)
    <3>1. d[i].t = c[i].t /\ h[i] = g[i] /\ U[c[i].t] = T[c[i].t]
      BY <1>2, <1>3, <1>5, <2>3 DEF Others, IsAct
    <3>2. CASE i = n
      BY <1>1, <1>3, <3>1, <3>2
    <3>3. CASE i # n
      <4>1. i \in 1..(n - 1) /\ c[i + 1].op = "resume"
        BY <1>2, <2>1, <2>2, <2>4, <3>3
      <4> QED
        BY <1>1, <3>1, <4>1 DEF Waiting
    <3> QED
      BY <3>2, <3>3
  <2>5. ASSUME NEW u \in Threads, \A i \in 1..(n + 1) : d[i].t # u PROVE Idle(U[u])
    <3>1. n + 1 \in 1..(n + 1) /\ \A i \in 1..n : i \in 1..(n + 1)
      BY <1>1
    <3>2. u # a.t /\ \A i \in 1..n : c[i].t # u
      BY <1>2, <2>5, <3>1
    <3> QED
      BY <1>1, <3>2 DEF Waiting, Others
  <2>6. PICK m : m = n + 1
    OBVIOUS
  <2>7. m - 1 = n
    BY <1>1, <2>6
  <2>8. /\ \A i \in 1..(m - 1) : d[i + 1].op = "resume" => Matches(d[i].t, U[d[i].t], h[i], 0)
        /\ \A u \in Threads : (\A i \in 1..m : d[i].t # u) => Idle(U[u])
    BY ONLY <2>4, <2>5, <2>6, <2>7
  <2> QED
    BY ONLY <2>6, <2>8 DEF Waiting
<1>11. Runs(U, d, h, a.t)
  BY <1>1, <1>2, <1>9, <1>10 DEF Runs
<1> QED
  BY <1>5, <1>11 DEF d, n

(* The thread leaves the lua_resume that it runs in, to the thread that called it. *)
LEMMA LeaveRuns ==
    ASSUME NEW T, NEW c, NEW g, NEW t, Runs(T, c, g, t),
           NEW j \in 2..Len(c), c[j].op = "resume", \A i \in j..Len(c) : c[i].t = t,
           NEW U, Others(T, U, t), Idle(U[t])
    PROVE  /\ Runs(U, SubSeq(c, 1, j - 1), g, c[j - 1].t)
           /\ Matches(c[j - 1].t, U[c[j - 1].t], g[j - 1], 0)
           /\ c[j - 1].t # t
<1> DEFINE n == Len(c)
           k == j - 1
           d == SubSeq(c, 1, k)
<1>1. IsStack(c) /\ n \in Nat /\ Shape(c, n, g) /\ Waiting(c, n, g, T)
  BY RunsFacts
<1>2. k \in Nat /\ k <= n /\ k > 0 /\ k \in 1..k /\ k \in 1..(n - 1) /\ j = k + 1 /\ j \in 1..n /\ j \in 2..j
      /\ \A i \in 1..k : i \in 1..n
  BY <1>1
<1>3. IsStack(d) /\ Len(d) = k /\ \A i \in 1..k : d[i] = c[i]
  BY <1>1, <1>2, CutFacts
<1>4. c[j].t = t /\ \A i \in j..n : c[i].t = t
  BY <1>2
<1>5. \A i \in 1..n : c[i].t \in Threads
  BY <1>1, LevelFacts DEF IsAct
<1>6. \A i \in 1..k : c[i].t # t
  <2>1. Fresh(c, j)
    BY <1>1, <1>2, LevelFacts
  <2> QED
    BY <1>2, <1>4, <2>1 DEF Fresh
<1> HIDE DEF d, n, k
<1>7. Shape(d, k, g)
  BY <1>1, <1>2, <1>3, SameShape
<1>8. Matches(c[k].t, U[c[k].t], g[k], 0)
  BY <1>1, <1>2, <1>5, <1>6 DEF Waiting, Others
<1>9. Waiting(d, k, g, U)
  <2>1. ASSUME NEW i \in 1..(k - 1), d[i + 1].op = "resume" PROVE Matches(d[i].t, U[d[i].t], g[i], 0)
    <3>1. i \in 1..k /\ i + 1 \in 1..k /\ i \in 1..(n - 1)
      BY <1>1, <1>2
    <3>2. d[i] = c[i] /\ c[i + 1].op = "resume" /\ c[i].t \in Threads /\ c[i].t # t
      BY <1>2, <1>3, <1>5, <1>6, <2>1, <3>1
    <3> QED
      BY <1>1, <3>1, <3>2 DEF Waiting, Others
  <2>2. ASSUME NEW u \in Threads, \A i \in 1..k : d[i].t # u PROVE Idle(U[u])
    <3>1. CASE u = t
      BY <3>1
    <3>2. CASE u # t
      <4>1. \A i \in 1..n : i \in 1..k \/ i \in j..n
        BY <1>2
      <4>2. \A i \in 1..n : c[i].t # u
        BY <1>3, <1>4, <2>2, <3>2, <4>1
      <4> QED
        BY <1>1, <3>2, <4>2 DEF Waiting, Others
    <3> QED
      BY <3>1, <3>2
  <2> QED
    BY <2>1, <2>2 DEF Waiting
<1>10. Runs(U, d, g, c[k].t)
  BY <1>2, <1>3, <1>7, <1>9 DEF Runs
<1>11. c[k].t # t
  BY <1>2, <1>6
<1> QED
  BY <1>8, <1>10, <1>11 DEF d, k

-----------------------------------------------------------------------------
(* Machines.  What an operation does is told by the state L it leaves the running thread
   in and by the stack C. *)

With(s, t, L, C) == [thread |-> [s.thread EXCEPT ![t] = L], cstack |-> C]

LEMMA WithFacts ==
    ASSUME NEW s, IsMachine(s), NEW t \in Threads, NEW L, NEW C
    PROVE  /\ With(s, t, L, C).thread[t] = L /\ With(s, t, L, C).cstack = C
           /\ Others(s.thread, With(s, t, L, C).thread, t)
           /\ IsStack(C) => IsMachine(With(s, t, L, C))
           /\ \A K, D : With(With(s, t, L, C), t, K, D) = With(s, t, K, D)
           /\ s = With(s, t, s.thread[t], s.cstack)
<1>1. s = [thread |-> s.thread, cstack |-> s.cstack] /\ s.thread = [u \in Threads |-> s.thread[u]]
  BY DEF IsMachine
<1>2. PICK r : r = With(s, t, L, C)
  OBVIOUS
<1>3. r.thread = [s.thread EXCEPT ![t] = L] /\ r.cstack = C
      /\ r = [thread |-> r.thread, cstack |-> r.cstack]
  BY <1>2 DEF With
<1>4. /\ r.thread = [u \in Threads |-> r.thread[u]]
      /\ r.thread[t] = L
      /\ \A u \in Threads : u # t => r.thread[u] = s.thread[u]
  BY <1>1, <1>3
<1>5. \A K, D : With(r, t, K, D) = With(s, t, K, D)
  <2>1. ASSUME NEW K PROVE [r.thread EXCEPT ![t] = K] = [s.thread EXCEPT ![t] = K]
    BY <1>1, <1>3
  <2> QED
    BY <2>1 DEF With
<1>6. s = With(s, t, s.thread[t], s.cstack)
  <2>1. [s.thread EXCEPT ![t] = s.thread[t]] = s.thread
    BY <1>1
  <2> QED
    BY <1>1, <2>1 DEF With
<1>7. IsStack(C) => IsMachine(r)
  BY <1>3, <1>4 DEF IsMachine
<1> QED
  BY <1>2, <1>3, <1>4, <1>5, <1>6, <1>7 DEF Others

(* The parts of a machine, which an assignment changes. *)
LEMMA Parts ==
    ASSUME NEW s, IsMachine(s), NEW t \in Threads, NEW T, T = s.thread, NEW C, C = s.cstack
    PROVE  s = [thread |-> T, cstack |-> C] /\ [T EXCEPT ![t] = T[t]] = T
BY DEF IsMachine

LEMMA PushIs ==
    ASSUME NEW T, NEW C, NEW a, NEW q, q = [thread |-> T, cstack |-> C]
    PROVE  Push(q, a) = [thread |-> T, cstack |-> Append(C, a)]
<1>1. PICK D : D = Append(q.cstack, a)
  OBVIOUS
<1>2. q.cstack = C
  OBVIOUS
<1>3. [q EXCEPT !.cstack = D] = [thread |-> T, cstack |-> D]
  OBVIOUS
<1>4. Push(q, a) = [q EXCEPT !.cstack = D]
  BY ONLY <1>1, Zenon DEF Push
<1> QED
  BY ONLY <1>1, <1>2, <1>3, <1>4

LEMMA PopIs ==
    ASSUME NEW T, NEW C, NEW q, q = [thread |-> T, cstack |-> C]
    PROVE  Pop(q) = [thread |-> T, cstack |-> Front(C)]
<1>1. PICK D : D = Front(q.cstack)
  OBVIOUS
<1>2. q.cstack = C
  OBVIOUS
<1>3. [q EXCEPT !.cstack = D] = [thread |-> T, cstack |-> D]
  OBVIOUS
<1>4. Pop(q) = [q EXCEPT !.cstack = D]
  BY ONLY <1>1, Zenon DEF Pop
<1> QED
  BY ONLY <1>1, <1>2, <1>3, <1>4

LEMMA FormSize ==
    ASSUME NEW s, IsMachine(s), NEW t \in Threads, NEW e, NEW L, L = s.thread[t], NEW c, c = s.cstack
    PROVE  [s EXCEPT !.thread[t].sizeci = e] = With(s, t, [L EXCEPT !.sizeci = e], c)
<1>1. PICK T, C : T = s.thread /\ C = s.cstack
  OBVIOUS
<1>2. s = [thread |-> T, cstack |-> C] /\ [T EXCEPT ![t] = T[t]] = T
  BY ONLY <1>1, IsMachine(s), t \in Threads, Parts
<1>3. L = T[t] /\ c = C
  BY <1>1
<1> QED
  BY ONLY <1>2, <1>3 DEF With

LEMMA StackForms ==
    ASSUME NEW s, IsMachine(s), NEW t \in Threads
    PROVE  /\ \A a : Push(s, a) = With(s, t, s.thread[t], Append(s.cstack, a))
           /\ Pop(s) = With(s, t, s.thread[t], Front(s.cstack))
<1>1. PICK T, C : T = s.thread /\ C = s.cstack
  OBVIOUS
<1>2. s = [thread |-> T, cstack |-> C] /\ [T EXCEPT ![t] = T[t]] = T
  BY <1>1 DEF IsMachine
<1>3. \A a : Push(s, a) = With(s, t, T[t], Append(C, a))
  BY ONLY <1>2, SMTT(30) DEF With, Push
<1>4. Pop(s) = With(s, t, T[t], Front(C))
  BY ONLY <1>2 DEF With, Pop
<1> QED
  BY ONLY <1>1, <1>3, <1>4

(* t runs in the machine s. *)
Live(s, g, t) == IsMachine(s) /\ Runs(s.thread, s.cstack, g, t)

LEMMA LiveFacts ==
    ASSUME NEW s, NEW g, NEW t, Live(s, g, t)
    PROVE  /\ IsMachine(s) /\ IsStack(s.cstack) /\ t \in Threads
           /\ Len(s.cstack) \in Nat /\ Len(s.cstack) > 0 /\ Len(s.cstack) \in 1..Len(s.cstack)
           /\ s.cstack # <<>> /\ Last(s.cstack) = s.cstack[Len(s.cstack)] /\ s.cstack[Len(s.cstack)].t = t
           /\ Shape(s.cstack, Len(s.cstack), g) /\ IsSnap(g[Len(s.cstack)])
BY RunsFacts DEF Live

(* The activation a of the thread of a0, which leaves it the frames e, and its snapshot. *)
Follows(a0, x0, a, e) ==
    /\ IsAct(a) /\ a.op # "resume" /\ a.t = a0.t /\ Fits(a0.op, a.op)
    /\ IsFrames(e) /\ Extends(x0.ci, e, FramesOf(a), KindOf(a))
    /\ a.op = "hook" => x0.hooks
    /\ a.op = "exec" => a = [op |-> "exec", t |-> a.t, n |-> a.n] /\ a.n \in Nat \ {0}
    /\ a.op = "parser" => a = [op |-> "parser", t |-> a.t, n |-> a.n] /\ a.n \in Nat
    /\ a.op = "pcall" => Saved(a, x0)

Above(x0, a, e, i) ==
    [count |-> x0.count + CcallsOf(a), start |-> x0.start, base |-> x0.base,
     clean |-> x0.clean /\ a.op \notin {"error", "handler"}, ci |-> e,
     hooks |-> x0.hooks /\ a.op # "hook", guarded |-> x0.guarded \/ a.op = "pcall",
     jmp |-> IF IsTarget(a) THEN i ELSE x0.jmp]

LEMMA AboveEnters ==
    ASSUME NEW a0, NEW x0, IsSnap(x0), NEW a, NEW e, Follows(a0, x0, a, e), NEW i \in Nat
    PROVE  IsSnap(Above(x0, a, e, i)) /\ Enters(a0, x0, a, Above(x0, a, e, i), i)
<1>1. PICK x : x = Above(x0, a, e, i)
  OBVIOUS
<1>2. /\ x.count = x0.count + CcallsOf(a) /\ x.start = x0.start /\ x.base = x0.base
      /\ x.clean = (x0.clean /\ a.op \notin {"error", "handler"}) /\ x.ci = e
      /\ x.hooks = (x0.hooks /\ a.op # "hook") /\ x.guarded = (x0.guarded \/ a.op = "pcall")
      /\ x.jmp = IF IsTarget(a) THEN i ELSE x0.jmp
  BY <1>1 DEF Above
<1>3. CcallsOf(a) \in Nat
  BY DEF CcallsOf, Follows
<1>4. IsSnap(x)
  BY <1>2, <1>3 DEF IsSnap, Follows
<1>5. Stays(a0, x0, a, x)
  BY <1>2 DEF Stays, Follows
<1>6. Enters(a0, x0, a, x, i)
  BY <1>2, <1>5 DEF Enters, Follows
<1> QED
  BY <1>1, <1>4, <1>6

LEMMA AtSame ==
    ASSUME NEW s, NEW g, NEW t, Live(s, g, t), NEW K, NEW d, Matches(t, K, g[Len(s.cstack)], d)
    PROVE  At(With(s, t, K, s.cstack), g, t, d)
<1>1. PICK r : r = With(s, t, K, s.cstack)
  OBVIOUS
<1>2. r.thread[t] = K /\ r.cstack = s.cstack /\ Others(s.thread, r.thread, t) /\ IsMachine(r)
  BY <1>1, LiveFacts, WithFacts
<1>3. Runs(r.thread, s.cstack, g, t)
  BY <1>2, SameRuns DEF Live
<1> QED
  BY <1>1, <1>2, <1>3 DEF At

LEMMA AtPush ==
    ASSUME NEW s, NEW g, NEW t, Live(s, g, t), NEW a, NEW e,
           Follows(s.cstack[Len(s.cstack)], g[Len(s.cstack)], a, e),
           NEW K, NEW d, Matches(t, K, Above(g[Len(s.cstack)], a, e, Len(s.cstack) + 1), d)
    PROVE  \E h : At(With(s, t, K, Append(s.cstack, a)), h, t, d)
                  /\ h[Len(s.cstack) + 1] = Above(g[Len(s.cstack)], a, e, Len(s.cstack) + 1)
<1> DEFINE c == s.cstack
           n == Len(c)
           C == Append(c, a)
<1>1. PICK x : x = Above(g[n], a, e, n + 1)
  OBVIOUS
<1>2. IsMachine(s) /\ IsStack(c) /\ n \in Nat /\ t \in Threads /\ IsSnap(g[n]) /\ n + 1 \in Nat
  BY LiveFacts
<1>3. IsSnap(x) /\ Enters(c[n], g[n], a, x, n + 1) /\ IsAct(a) /\ a.op # "resume"
  BY <1>1, <1>2, AboveEnters DEF Follows
<1>4. IsStack(C) /\ Len(C) = n + 1
  BY <1>2, AppendFacts
<1> HIDE DEF C
<1>5. PICK r : r = With(s, t, K, C)
  OBVIOUS
<1>6. r.thread[t] = K /\ r.cstack = C /\ Others(s.thread, r.thread, t) /\ IsMachine(r)
  BY <1>2, <1>4, <1>5, WithFacts
<1>7. \E h : Runs(r.thread, C, h, t) /\ h[n + 1] = x
  <2>1. Runs(s.thread, c, g, t)
    BY DEF Live
  <2> QED
    BY <1>3, <1>6, <2>1, PushRuns DEF C
<1>8. PICK h : Runs(r.thread, C, h, t) /\ h[n + 1] = x
  BY <1>7
<1>9. Matches(t, K, x, d)
  BY <1>1
<1>10. At(r, h, t, d)
  BY <1>4, <1>6, <1>8, <1>9 DEF At
<1> QED
  BY <1>1, <1>5, <1>8, <1>10 DEF C

(* What is right below an activation that is no resume belongs to the same thread. *)
LEMMA BelowFacts ==
    ASSUME NEW s, NEW g, NEW t, Live(s, g, t), s.cstack[Len(s.cstack)].op \notin {"body", "resume"} \/ Len(s.cstack) # 1,
           s.cstack[Len(s.cstack)].op # "resume"
    PROVE  LET n == Len(s.cstack)
           IN  /\ n > 1 /\ n - 1 \in Nat /\ n - 1 > 0 /\ n - 1 \in 1..n /\ n - 1 \in 1..(n - 1) /\ n - 1 + 1 = n
               /\ s.cstack[n - 1].t = t /\ IsAct(s.cstack[n - 1])
               /\ IsSnap(g[n - 1]) /\ Shape(s.cstack, n - 1, g)
               /\ Enters(s.cstack[n - 1], g[n - 1], s.cstack[n], g[n], n)
               /\ Stays(s.cstack[n - 1], g[n - 1], s.cstack[n], g[n])
               /\ Fits(s.cstack[n - 1].op, s.cstack[n].op)
<1> DEFINE c == s.cstack
           n == Len(c)
<1>1. n \in Nat /\ n > 0 /\ n \in 1..n /\ Shape(c, n, g) /\ c[n].t = t
  BY LiveFacts
<1>2. n > 1
  <2>1. ASSUME n = 1 PROVE FALSE
    <3>1. IsHost(c[1], g[1])
      BY <1>1, LevelFacts
    <3> QED
      BY <2>1, <3>1 DEF IsHost
  <2>2. n \in Nat /\ n > 0 /\ n # 1
    BY <1>1, <2>1
  <2> QED
    BY ONLY <2>2, SMTT(30)
<1> HIDE DEF n, c
<1>3. n - 1 \in Nat /\ n - 1 > 0 /\ n - 1 \in 1..n /\ n - 1 \in 1..(n - 1) /\ n - 1 + 1 = n /\ n \in 2..n /\ n - 1 <= n
  BY <1>1, <1>2
<1>4. IsSnap(g[n - 1]) /\ IsAct(c[n - 1]) /\ Enters(c[n - 1], g[n - 1], c[n], g[n], n)
  BY <1>1, <1>3, LevelFacts
<1>5. Stays(c[n - 1], g[n - 1], c[n], g[n]) /\ Fits(c[n - 1].op, c[n].op)
  BY <1>4 DEF Enters, n, c
<1>6. Shape(c, n - 1, g)
  BY <1>1, <1>3, SameShape
<1>7. c[n - 1].t = t
  BY <1>1, <1>5 DEF Stays
<1> QED
  BY <1>2, <1>3, <1>4, <1>5, <1>6, <1>7 DEF n, c

LEMMA AtPop ==
    ASSUME NEW s, NEW g, NEW t, Live(s, g, t), s.cstack[Len(s.cstack)].op # "resume",
           s.cstack[Len(s.cstack)].op # "body" \/ Len(s.cstack) # 1,
           NEW K, NEW d, Matches(t, K, g[Len(s.cstack) - 1], d)
    PROVE  /\ At(With(s, t, K, Front(s.cstack)), g, t, d)
           /\ Front(s.cstack) = SubSeq(s.cstack, 1, Len(s.cstack) - 1)
<1> DEFINE c == s.cstack
           n == Len(c)
           C == SubSeq(c, 1, n - 1)
<1>1. IsMachine(s) /\ IsStack(c) /\ n \in Nat /\ t \in Threads /\ c[n].t = t
  BY LiveFacts
<1>2. n > 1 /\ n - 1 \in Nat /\ n - 1 \in 1..n /\ n - 1 <= n /\ c[n - 1].t = t
  BY BelowFacts
<1>3. Front(c) = C
  BY DEF Front
<1>4. IsStack(C) /\ Len(C) = n - 1
  BY <1>1, <1>2, CutFacts
<1> HIDE DEF C
<1>5. PICK r : r = With(s, t, K, C)
  OBVIOUS
<1>6. r.thread[t] = K /\ r.cstack = C /\ Others(s.thread, r.thread, t) /\ IsMachine(r)
  BY <1>1, <1>4, <1>5, WithFacts
<1>7. Runs(r.thread, C, g, t)
  <2>1. Runs(s.thread, c, g, t)
    BY DEF Live
  <2>2. \A i \in (n - 1)..n : i = n - 1 \/ i = n
    BY <1>1
  <2>3. \A i \in (n - 1)..n : c[i].t = t
    BY <1>1, <1>2, <2>2
  <2> QED
    BY <1>2, <1>6, <2>1, <2>3, CutRuns DEF C
<1>8. At(r, g, t, d)
  BY <1>4, <1>6, <1>7 DEF At
<1> QED
  BY <1>3, <1>5, <1>8 DEF C

LEMMA AgreeRuns ==
    ASSUME NEW T, NEW c, NEW g, NEW t, Runs(T, c, g, t), NEW d, IsStack(d), Len(d) = Len(c),
           \A i \in 1..Len(c) : d[i] = c[i]
    PROVE  Runs(T, d, g, t)
<1> DEFINE n == Len(c)
<1>1. n \in Nat /\ n > 0 /\ n \in 1..n /\ Shape(c, n, g) /\ Waiting(c, n, g, T) /\ c[n].t = t
  BY RunsFacts
<1> HIDE DEF n
<1>2. n <= n /\ \A i \in 1..n : d[i] = c[i] /\ g[i] = g[i]
  BY <1>1 DEF n
<1>3. Shape(d, n, g)
  BY <1>1, <1>2, SameShape
<1>4. \A i \in 1..(n - 1) : i \in 1..n /\ i + 1 \in 1..n
  BY <1>1
<1>5. Waiting(d, n, g, T)
  BY <1>1, <1>2, <1>4 DEF Waiting
<1> QED
  BY <1>1, <1>2, <1>3, <1>5 DEF Runs, n

(* The last activation is replaced by another. *)
LEMMA AtTurn ==
    ASSUME NEW s, NEW g, NEW t, Live(s, g, t), s.cstack[Len(s.cstack)].op \notin {"body", "resume"},
           NEW a, NEW e, Follows(s.cstack[Len(s.cstack) - 1], g[Len(s.cstack) - 1], a, e),
           NEW K, NEW d, Matches(t, K, Above(g[Len(s.cstack) - 1], a, e, Len(s.cstack)), d),
           NEW C, C = [s.cstack EXCEPT ![Len(s.cstack)] = a] \/ C = Append(Front(s.cstack), a)
    PROVE  \E h : At(With(s, t, K, C), h, t, d)
<1> DEFINE c == s.cstack
           n == Len(c)
           F == SubSeq(c, 1, n - 1)
           D == Append(F, a)
<1>1. IsMachine(s) /\ IsStack(c) /\ n \in Nat /\ n \in 1..n /\ t \in Threads /\ c[n].t = t
  BY LiveFacts
<1>2. n > 1 /\ n - 1 \in Nat /\ n - 1 \in 1..n /\ n - 1 <= n /\ n - 1 > 0 /\ n - 1 + 1 = n /\ n - 1 \in 1..(n - 1)
      /\ c[n - 1].t = t /\ IsSnap(g[n - 1])
  BY BelowFacts
<1>3. IsStack(F) /\ Len(F) = n - 1 /\ \A i \in 1..(n - 1) : F[i] = c[i]
  BY <1>1, <1>2, CutFacts
<1>4. IsStack(D) /\ Len(D) = n /\ D[n] = a /\ \A i \in 1..(n - 1) : D[i] = c[i]
  BY <1>2, <1>3, AppendFacts
<1>5. C = [c EXCEPT ![n] = a] \/ C = D
  BY DEF Front
<1>6. PICK x : x = Above(g[n - 1], a, e, n)
  OBVIOUS
<1>7. IsSnap(x) /\ Enters(c[n - 1], g[n - 1], a, x, n) /\ IsAct(a) /\ a.op # "resume"
  BY <1>1, <1>2, <1>6, AboveEnters DEF Follows
<1>8. Matches(t, K, x, d)
  BY <1>6
<1>9. PICK r : r = With(s, t, K, C)
  OBVIOUS
<1>10. IsStack(C) /\ Len(C) = n /\ \A i \in 1..n : C[i] = D[i]
  <2>1. CASE C = [c EXCEPT ![n] = a]
    <3>1. IsStack(C) /\ Len(C) = n /\ \A i \in 1..n : C[i] = IF i = n THEN a ELSE c[i]
      <4>1. PICK m, b : m = n /\ b = c
        OBVIOUS
      <4>2. IsStack(b) /\ m \in 1..Len(b) /\ Turned(b, m, a, C)
        BY <1>1, <2>1, <4>1 DEF Turned
      <4>3. IsStack(C) /\ Len(C) = Len(b) /\ \A i \in 1..Len(b) : C[i] = IF i = m THEN a ELSE b[i]
        BY ONLY <4>2, TurnFacts
      <4> QED
        BY ONLY <4>1, <4>3
    <3>2. \A i \in 1..n : i = n \/ i \in 1..(n - 1)
      BY <1>1
    <3> HIDE DEF D, F, n, c
    <3> QED
      BY <1>4, <3>1, <3>2
  <2>2. CASE C = D
    BY <1>4, <2>2
  <2> QED
    BY <1>5, <2>1, <2>2
<1>11. r.thread[t] = K /\ r.cstack = C /\ Others(s.thread, r.thread, t) /\ IsMachine(r)
  BY <1>1, <1>9, <1>10, WithFacts
<1>12. Runs(r.thread, F, g, t)
  <2>1. Runs(s.thread, c, g, t)
    BY DEF Live
  <2>2. \A i \in (n - 1)..n : i = n - 1 \/ i = n
    BY <1>1
  <2>3. \A i \in (n - 1)..n : c[i].t = t
    BY <1>1, <1>2, <2>2
  <2> QED
    BY <1>2, <1>11, <2>1, <2>3, CutRuns
<1> HIDE DEF F, D, n, c
<1>13. PICK h : Runs(r.thread, D, h, t) /\ h[n] = x
  <2>1. Others(r.thread, r.thread, t)
    BY DEF Others
  <2>2. Enters(F[Len(F)], g[Len(F)], a, x, Len(F) + 1) /\ Len(F) + 1 = n
    BY <1>2, <1>3, <1>7
  <2>3. \E h : Runs(r.thread, Append(F, a), h, t) /\ h[Len(F) + 1] = x
    BY ONLY <1>7, <1>12, <2>1, <2>2, PushRuns
  <2> QED
    BY <2>2, <2>3 DEF D
<1>14. Runs(r.thread, C, h, t)
  <2>1. IsStack(C) /\ Len(C) = Len(D) /\ \A i \in 1..Len(D) : C[i] = D[i]
    BY <1>4, <1>10
  <2> QED
    BY ONLY <1>13, <2>1, AgreeRuns
<1>15. At(r, h, t, d)
  BY <1>8, <1>10, <1>11, <1>13, <1>14 DEF At
<1> QED
  BY <1>9, <1>15

-----------------------------------------------------------------------------
(* Frames. *)

FrameKinds == {"base", "Lua", "C"}

LEMMA FramesFacts ==
    ASSUME NEW f, IsFrames(f)
    PROVE  f \in Seq(FrameKinds) /\ Len(f) \in Nat /\ Len(f) > 0 /\ f[1] = "base" /\ DOMAIN f = 1..Len(f)
<1>1. f \in Seq(FrameKinds) /\ f[1] = "base" /\ Len(f) >= 1
  BY DEF IsFrames, FrameKinds
<1>2. Len(f) \in Nat /\ DOMAIN f = 1..Len(f)
  BY <1>1, LenProperties
<1> QED
  BY <1>1, <1>2

LEMMA PrefixFrames ==
    ASSUME NEW f, IsFrames(f), NEW e, IsFrames(e), Begins(f, e),
           NEW n, n = Len(f)
    PROVE  SubSeq(e, 1, n) = f
<1>1. f \in Seq(FrameKinds) /\ n \in Nat /\ e \in Seq(FrameKinds) /\ Len(e) \in Nat /\ n <= Len(e)
  BY FramesFacts DEF Begins
<1>2. PICK p : p = SubSeq(e, 1, n)
  OBVIOUS
<1>3. \A k \in 1..n : e[k] \in FrameKinds
  <2>1. ASSUME NEW k \in 1..n PROVE e[k] \in FrameKinds
    <3>1. k \in 1..Len(e)
      BY <1>1
    <3> QED
      BY ONLY <1>1, <3>1, ElementOfSeq
  <2> QED
    BY <2>1
<1>4. SubSeq(e, 1, n) \in Seq(FrameKinds) /\ Len(SubSeq(e, 1, n)) = (IF 1 <= n THEN n - 1 + 1 ELSE 0)
      /\ \A i \in 1..(n - 1 + 1) : SubSeq(e, 1, n)[i] = e[1 + i - 1]
  BY ONLY <1>1, <1>3, SubSeqProperties
<1>5. p \in Seq(FrameKinds) /\ Len(p) = n /\ \A i \in 1..n : p[i] = e[i]
  BY ONLY <1>1, <1>2, <1>4
<1>6. Len(p) = Len(f) /\ \A i \in 1..Len(p) : p[i] = f[i]
  BY <1>5 DEF Begins
<1> QED
  BY ONLY <1>1, <1>2, <1>5, <1>6, SeqEqual

LEMMA AppendFrames ==
    ASSUME NEW f, IsFrames(f), NEW fn \in {"Lua", "C"}
    PROVE  /\ IsFrames(Append(f, fn)) /\ Len(Append(f, fn)) = Len(f) + 1
           /\ Append(f, fn)[Len(f) + 1] = fn /\ \A k \in 1..Len(f) : Append(f, fn)[k] = f[k]
           /\ Front(Append(f, fn)) = f
<1>1. f \in Seq(FrameKinds) /\ fn \in FrameKinds /\ Len(f) \in Nat /\ Len(f) > 0 /\ f[1] = "base"
  BY FramesFacts DEF FrameKinds
<1>2. PICK e : e = Append(f, fn)
  OBVIOUS
<1>3. e \in Seq(FrameKinds) /\ Len(e) = Len(f) + 1 /\ e[Len(f) + 1] = fn /\ \A k \in 1..Len(f) : e[k] = f[k]
  BY ONLY <1>1, <1>2, AppendProperties
<1>4. IsFrames(e)
  BY <1>1, <1>3 DEF IsFrames, FrameKinds
<1>5. Front(e) = f
  <2>1. Begins(f, e) /\ Len(e) - 1 = Len(f)
    BY <1>1, <1>3 DEF Begins
  <2>2. SubSeq(e, 1, Len(e) - 1) = f
    BY <1>3, <1>4, <2>1, PrefixFrames
  <2> QED
    BY <2>2 DEF Front
<1> QED
  BY <1>2, <1>3, <1>4, <1>5

LEMMA FrontFrames ==
    ASSUME NEW f, IsFrames(f), Len(f) > 1
    PROVE  /\ IsFrames(Front(f)) /\ Len(Front(f)) = Len(f) - 1
           /\ \A k \in 1..(Len(f) - 1) : Front(f)[k] = f[k]
<1>1. f \in Seq(FrameKinds) /\ Len(f) \in Nat /\ f[1] = "base"
  BY FramesFacts
<1>2. PICK n : n = Len(f) - 1
  OBVIOUS
<1>3. n \in Nat /\ n > 0 /\ n <= Len(f)
  BY <1>1, <1>2
<1>4. \A k \in 1..n : f[k] \in FrameKinds
  <2>1. ASSUME NEW k \in 1..n PROVE f[k] \in FrameKinds
    <3>1. k \in 1..Len(f)
      BY <1>1, <1>3
    <3> QED
      BY ONLY <1>1, <3>1, ElementOfSeq
  <2> QED
    BY <2>1
<1>5. PICK p : p = SubSeq(f, 1, n)
  OBVIOUS
<1>6. SubSeq(f, 1, n) \in Seq(FrameKinds) /\ Len(SubSeq(f, 1, n)) = (IF 1 <= n THEN n - 1 + 1 ELSE 0)
      /\ \A i \in 1..(n - 1 + 1) : SubSeq(f, 1, n)[i] = f[1 + i - 1]
  BY ONLY <1>3, <1>4, SubSeqProperties
<1>7. p \in Seq(FrameKinds) /\ Len(p) = n /\ \A i \in 1..n : p[i] = f[i]
  BY ONLY <1>3, <1>5, <1>6
<1>8. IsFrames(p)
  BY <1>1, <1>3, <1>7 DEF IsFrames, FrameKinds
<1>9. Front(f) = p
  BY <1>2, <1>5 DEF Front
<1> QED
  BY <1>2, <1>7, <1>8, <1>9

(* The frames that an activation leaves when it returns. *)
LEMMA SameFrames ==
    ASSUME NEW f, IsFrames(f), NEW e, IsFrames(e), NEW kind, Extends(f, e, 0, kind)
    PROVE  e = f
<1>1. Len(f) = Len(e) /\ \A k \in 1..Len(f) : e[k] = f[k]
  BY FramesFacts DEF Extends
<1> QED
  BY <1>1, SeqEqual, FramesFacts

LEMMA ExtendsSame ==
    ASSUME NEW f, IsFrames(f), NEW kind
    PROVE  Extends(f, f, 0, kind)
BY FramesFacts DEF Extends

-----------------------------------------------------------------------------
(* Errors. *)

(* An activation without frames of its own. *)
LEMMA PlainFollows ==
    ASSUME NEW a0, NEW x0, IsSnap(x0), NEW a, IsAct(a), a.t = a0.t, a.op \in {"call", "error", "handler"}
    PROVE  Follows(a0, x0, a, x0.ci)
<1>1. IsFrames(x0.ci) /\ FramesOf(a) = 0
  BY DEF IsSnap, FramesOf
<1>2. Extends(x0.ci, x0.ci, FramesOf(a), KindOf(a))
  BY <1>1, ExtendsSame
<1> QED
  BY <1>1, <1>2 DEF Follows, Fits

LEMMA RaiseAt ==
    ASSUME NEW s, NEW g, NEW t, Live(s, g, t), NEW d \in {0, 1},
           Matches(t, s.thread[t], g[Len(s.cstack)], d), s.thread[t].nCcalls < LUAI_MAXCCALLS + Slack
    PROVE  \E h : At(luaG_runerror(s, t), h, t, 0)
<1> DEFINE c == s.cstack
           n == Len(c)
<1>1. PICK a, L, x0 : a = [op |-> "error", t |-> t] /\ L = s.thread[t] /\ x0 = g[n]
  OBVIOUS
<1>2. IsMachine(s) /\ t \in Threads /\ c[n].t = t /\ IsSnap(x0) /\ n \in Nat
  BY <1>1, LiveFacts
<1>3. IsAct(a) /\ a.op = "error" /\ a.t = t
  BY <1>1, <1>2 DEF IsAct
<1>4. Follows(c[n], x0, a, x0.ci)
  BY <1>2, <1>3, PlainFollows
<1>5. PICK x : x = Above(x0, a, x0.ci, n + 1)
  OBVIOUS
<1>6. x.count = x0.count /\ x.start = x0.start /\ x.base = x0.base /\ x.clean = FALSE /\ x.ci = x0.ci
      /\ x.hooks = x0.hooks /\ x.guarded = x0.guarded /\ x.jmp = x0.jmp
  <2>1. x.clean = FALSE
    BY <1>3, <1>5 DEF Above
  <2>2. x.hooks = x0.hooks /\ x.guarded = x0.guarded
    BY <1>2, <1>3, <1>5 DEF Above, IsSnap
  <2> QED
    BY <1>2, <1>3, <1>5, <2>1, <2>2 DEF Above, CcallsOf, IsTarget, IsSnap
<1>7. Matches(t, L, x, 0)
  <2>1. Matches(t, L, x0, d) /\ L.nCcalls < LUAI_MAXCCALLS + Slack
    BY <1>1
  <2>2. Counts(L.nCcalls, L.baseCcalls, x, 0)
    <3>1. L.nCcalls \in Nat /\ L.baseCcalls \in Nat /\ x0.count \in Nat /\ x0.start \in Nat
      BY <1>2, <2>1, LimitsAssumption DEF Matches, IsThread, IsSnap, LimitsAssumption
    <3>2. PICK nC, b : nC = L.nCcalls /\ b = L.baseCcalls
      OBVIOUS
    <3>3. Counts(nC, b, x0, d) /\ nC < LUAI_MAXCCALLS + Slack /\ nC \in Nat /\ b \in Nat
      BY <2>1, <3>1, <3>2 DEF Matches
    <3>4. Counts(nC, b, x, 0)
      BY ONLY <1>6, <3>1, <3>3, d \in {0, 1}, LimitsAssumption DEF Counts, LimitsAssumption
    <3> QED
      BY ONLY <3>2, <3>4
  <2> QED
    BY <1>6, <2>1, <2>2 DEF Matches
<1>8. \E h : At(With(s, t, L, Append(c, a)), h, t, 0)
  BY <1>1, <1>4, <1>5, <1>7, AtPush
<1>9. luaG_runerror(s, t) = With(s, t, L, Append(c, a))
  BY <1>1, <1>2, StackForms DEF luaG_runerror
<1> QED
  BY <1>8, <1>9

(* luaD_pcall gives the thread back what it saved. *)
LEMMA CatchMatches ==
    ASSUME NEW t, NEW L, IsThread(L), L.status = "ok", t # Main => ~L.values,
           NEW x0, IsSnap(x0), L.baseCcalls = x0.base,
           Begins(x0.ci, L.ci),
           NEW a, Saved(a, x0)
    PROVE  Matches(t, CatchInPcall(L, a), x0, 0)
<1>1. SubSeq(L.ci, 1, a.nci) = x0.ci
  <2>1. IsFrames(x0.ci) /\ IsFrames(L.ci) /\ a.nci = Len(x0.ci)
    BY DEF IsThread, IsSnap, Saved
  <2>2. PICK f, e, n : f = x0.ci /\ e = L.ci /\ n = a.nci
    OBVIOUS
  <2>3. IsFrames(f) /\ IsFrames(e) /\ Begins(f, e) /\ n = Len(f)
    BY <2>1, <2>2
  <2>4. SubSeq(e, 1, n) = f
    BY ONLY <2>3, PrefixFrames
  <2> QED
    BY <2>2, <2>4
<1>2. PICK K : K = [L EXCEPT !.nCcalls = a.nCcalls, !.ci = SubSeq(@, 1, a.nci),
                             !.allowhook = a.allowhook, !.errfunc = a.errfunc,
                             !.jmp = a.previous]
  OBVIOUS
<1>3. HasFields(K) /\ K.status = "ok" /\ K.ci = x0.ci /\ K.sizeci = L.sizeci /\ K.nCcalls = a.nCcalls
      /\ K.baseCcalls = L.baseCcalls /\ K.errfunc = a.errfunc /\ K.jmp = a.previous
      /\ K.allowhook = a.allowhook /\ K.values = L.values
  BY <1>1, <1>2 DEF IsThread, HasFields
<1>4. PICK R : R = restore_stack_limit(K)
  OBVIOUS
<1>5. HasFields(R) /\ R.status = "ok" /\ R.ci = x0.ci /\ R.nCcalls = a.nCcalls
      /\ R.baseCcalls = L.baseCcalls /\ R.errfunc = a.errfunc /\ R.jmp = a.previous
      /\ R.allowhook = a.allowhook /\ R.values = L.values
  BY <1>3, <1>4 DEF restore_stack_limit, HasFields
<1>6. R.sizeci \in 2..(2 * LUAI_MAXCALLS) /\ Len(R.ci) <= R.sizeci
  <2>1. LUAI_MAXCALLS \in Nat /\ LUAI_MAXCALLS >= 2
    BY LimitsAssumption DEF LimitsAssumption
  <2>2. K.sizeci \in 2..(2 * LUAI_MAXCALLS) /\ Len(K.ci) <= K.sizeci /\ Len(K.ci) \in Nat
    <3>1. K.sizeci \in 2..(2 * LUAI_MAXCALLS)
      BY <1>3 DEF IsThread
    <3>2. Len(L.ci) <= L.sizeci /\ Len(x0.ci) <= Len(L.ci)
      BY DEF IsThread, Begins
    <3>3. Len(x0.ci) \in Nat /\ Len(L.ci) \in Nat
      BY FramesFacts DEF IsThread, IsSnap
    <3> QED
      BY <1>3, <2>1, <3>1, <3>2, <3>3
  <2>3. CASE K.sizeci > LUAI_MAXCALLS /\ Len(K.ci) < LUAI_MAXCALLS
    <3>1. R.sizeci = LUAI_MAXCALLS
      BY <1>3, <1>4, <2>3 DEF restore_stack_limit, HasFields
    <3> QED
      BY <1>3, <1>5, <2>1, <2>2, <2>3, <3>1
  <2>4. CASE ~(K.sizeci > LUAI_MAXCALLS /\ Len(K.ci) < LUAI_MAXCALLS)
    BY <1>4, <2>2, <2>4 DEF restore_stack_limit
  <2> QED
    BY <2>3, <2>4
<1>7. Counts(R.nCcalls, R.baseCcalls, x0, 0)
  BY <1>5 DEF Saved
<1>8. R.nCcalls \in 0..(LUAI_MAXCCALLS + Slack)
  BY <1>7, LimitsAssumption DEF Counts, LimitsAssumption, IsSnap
<1>9. IsThread(R)
  BY <1>5, <1>6, <1>8 DEF IsThread, IsSnap, Saved
<1>10. Matches(t, R, x0, 0)
  BY <1>5, <1>7, <1>9 DEF Matches, Saved
<1> QED
  BY <1>2, <1>4, <1>10 DEF CatchInPcall

LEMMA AtSound ==
    ASSUME NEW s, \E g, t : At(s, g, t, 0)
    PROVE  Sound(s)
BY DEF Sound

(* The process exits. *)
LEMMA ExitSound ==
    ASSUME NEW s, NEW g, NEW t, Live(s, g, t), NEW d,
           Matches(t, s.thread[t], g[Len(s.cstack)], d), s.thread[t].jmp = 0
    PROVE  Sound([s EXCEPT !.cstack = <<>>])
<1> DEFINE c == s.cstack
           n == Len(c)
<1>1. IsMachine(s) /\ n \in Nat /\ n \in 1..n /\ t \in Threads /\ Shape(c, n, g) /\ c[n].t = t
  BY LiveFacts
<1>2. Aims(c, g, n) /\ g[n].jmp = 0 /\ Waiting(c, n, g, s.thread)
  <2>1. Aims(c, g, n)
    BY <1>1, LevelFacts
  <2>2. g[n].jmp = 0
    BY DEF Matches
  <2> QED
    BY <2>1, <2>2 DEF Live, Runs
<1>3. \A i \in 1..n : c[i].t = t
  <2>1. \A i \in 1..n : i \in (0 + 1)..n
    BY <1>1
  <2> QED
    BY <1>1, <1>2, <2>1 DEF Aims
<1>4. ASSUME NEW u \in Threads
      PROVE  IsThread(s.thread[u]) /\ s.thread[u].jmp = 0
             /\ (s.thread[u].status = "yield" => ~s.thread[u].errfunc)
  <2>1. CASE u = t
    BY <2>1 DEF Matches
  <2>2. CASE u # t
    <3>1. Idle(s.thread[u])
      BY <1>2, <1>3, <2>2 DEF Waiting
    <3> QED
      BY <3>1 DEF Idle, Yielded
  <2> QED
    BY <2>1, <2>2
<1>5. PICK r : r = [s EXCEPT !.cstack = <<>>]
  OBVIOUS
<1>6. r = [thread |-> s.thread, cstack |-> <<>>]
  <2>1. s = [thread |-> s.thread, cstack |-> s.cstack]
    BY <1>1 DEF IsMachine
  <2> QED
    BY ONLY <1>5, <2>1
<1>7. r.thread = s.thread /\ r.cstack = <<>> /\ IsStack(r.cstack)
  BY <1>6, EmptySeq DEF IsStack
<1>8. IsMachine(r)
  BY <1>1, <1>6, <1>7 DEF IsMachine
<1>9. Exited(r)
  BY <1>4, <1>7, <1>8, SMTT(30) DEF Exited
<1> QED
  BY <1>5, <1>9 DEF Sound

(* The innermost target of the running thread, and what is below it. *)
LEMMA TargetFacts ==
    ASSUME NEW s, NEW g, NEW t, Live(s, g, t),
           NEW j, j = g[Len(s.cstack)].jmp, j # 0
    PROVE  LET c == s.cstack
               n == Len(c)
           IN  /\ j \in 2..n /\ j - 1 \in 1..n /\ j \in 1..n /\ IsTarget(c[j]) /\ c[j].t = t
               /\ \A i \in j..n : c[i].t = t
               /\ Enters(c[j - 1], g[j - 1], c[j], g[j], j)
               /\ IsSnap(g[j - 1]) /\ IsAct(c[j - 1])
               /\ g[n].start = g[j].start /\ g[n].base = g[j].base
               /\ IsSnap(g[j]) /\ IsSnap(g[n])
               /\ c[j].op = "pcall" => /\ c[j - 1].t = t /\ g[n].base = g[j - 1].base
                                       /\ Begins(g[j - 1].ci, g[n].ci)
<1> DEFINE c == s.cstack
           n == Len(c)
<1>1. n \in Nat /\ n \in 1..n /\ t \in Threads /\ Shape(c, n, g) /\ c[n].t = t /\ IsSnap(g[n])
  BY LiveFacts
<1>2. Aims(c, g, n) /\ Agrees(c, g, n) /\ IsHost(c[1], g[1])
  BY <1>1, LevelFacts
<1>3. j \in 0..n
  BY <1>2 DEF Aims
<1> HIDE DEF n, c
<1>4. j = g[n].jmp
  BY DEF n, c
<1>5. j > 0 /\ j \in 1..n
  BY <1>1, <1>3
<1>6. IsTarget(c[j]) /\ c[j].t = t /\ \A k \in (j + 1)..n : c[k].t = t
  BY <1>1, <1>2, <1>4, <1>5 DEF Aims
<1>7. j # 1
  BY <1>2, <1>6 DEF IsHost, IsTarget
<1>8. j \in 2..n /\ j - 1 \in 1..n
  BY <1>1, <1>5, <1>7
<1>9. \A i \in j..n : c[i].t = t
  <2>1. \A i \in j..n : i = j \/ i \in (j + 1)..n
    BY <1>1, <1>5
  <2> QED
    BY <1>6, <2>1
<1>10. Enters(c[j - 1], g[j - 1], c[j], g[j], j) /\ IsSnap(g[j - 1]) /\ IsSnap(g[j]) /\ IsAct(c[j - 1])
  BY <1>1, <1>5, <1>8, LevelFacts
<1>11. g[n].start = g[j].start /\ g[n].base = g[j].base
  BY <1>1, <1>2, <1>5, <1>6 DEF Agrees
<1>12. ASSUME c[j].op = "pcall"
       PROVE  /\ c[j - 1].t = t /\ g[n].base = g[j - 1].base
              /\ Begins(g[j - 1].ci, g[n].ci)
  <2>1. Stays(c[j - 1], g[j - 1], c[j], g[j])
    BY <1>10, <1>12 DEF Enters
  <2>2. c[j - 1].t = t
    BY <1>6, <2>1 DEF Stays
  <2> QED
    BY <1>1, <1>2, <1>8, <2>2 DEF Agrees
<1> QED
  BY <1>1, <1>5, <1>6, <1>8, <1>9, <1>10, <1>11, <1>12 DEF n, c

(* A coroutine that a resume is over for: dead, or without frames, or after a yield. *)
LEMMA LeaveAt ==
    ASSUME NEW s, NEW g, NEW t, Live(s, g, t),
           NEW j \in 2..Len(s.cstack), s.cstack[j].op = "resume",
           \A i \in j..Len(s.cstack) : s.cstack[i].t = t, NEW K, Idle(K)
    PROVE  LET r == With(s, t, K, SubSeq(s.cstack, 1, j - 1))
               u == s.cstack[j - 1].t
           IN  /\ At(r, g, u, 0) /\ r.cstack # <<>> /\ Last(r.cstack).t = u
               /\ r.thread[t] = K /\ u # t /\ u \in Threads
<1> DEFINE c == s.cstack
           n == Len(c)
           C == SubSeq(c, 1, j - 1)
           u == c[j - 1].t
<1>1. IsMachine(s) /\ IsStack(c) /\ n \in Nat /\ t \in Threads
  BY LiveFacts
<1>2. j - 1 \in Nat /\ j - 1 <= n /\ j - 1 > 0 /\ j - 1 \in 1..(j - 1)
  BY <1>1
<1>3. IsStack(C) /\ Len(C) = j - 1 /\ C[j - 1] = c[j - 1]
  BY <1>1, <1>2, CutFacts
<1> HIDE DEF C
<1>4. PICK r : r = With(s, t, K, C)
  OBVIOUS
<1>5. r.thread[t] = K /\ r.cstack = C /\ Others(s.thread, r.thread, t) /\ IsMachine(r)
  BY <1>1, <1>3, <1>4, WithFacts
<1>6. Runs(r.thread, C, g, u) /\ Matches(u, r.thread[u], g[j - 1], 0) /\ u # t
  <2>1. Runs(s.thread, c, g, t) /\ Idle(r.thread[t])
    BY <1>5 DEF Live
  <2> QED
    BY <1>5, <2>1, LeaveRuns DEF C
<1>7. At(r, g, u, 0)
  BY <1>3, <1>5, <1>6 DEF At
<1>8. r.cstack # <<>> /\ Last(r.cstack).t = u /\ u \in Threads
  BY <1>5, <1>6, RunsFacts
<1> QED
  BY <1>4, <1>5, <1>6, <1>7, <1>8 DEF C

FailureCodes == {"errrun", "errerr", "errsyntax"}

(* luaD_throw lands in a live activation, which restores what it saved. *)
LEMMA ThrowSound ==
    ASSUME NEW s, NEW g, NEW t, Live(s, g, t), NEW d \in {0, 1},
           Matches(t, s.thread[t], g[Len(s.cstack)], d), NEW errcode \in FailureCodes
    PROVE  Sound(luaD_throw(s, t, errcode))
<1> DEFINE c == s.cstack
           n == Len(c)
<1>1. PICK j, L : j = L.jmp /\ L = s.thread[t]
  OBVIOUS
<1>2. IsMachine(s) /\ t \in Threads /\ Matches(t, L, g[n], d) /\ j = g[n].jmp
  BY <1>1, LiveFacts DEF Matches
<1>3. CASE j = 0
  <2>1. luaD_throw(s, t, errcode) = [s EXCEPT !.cstack = <<>>]
    BY ONLY <1>1, <1>3 DEF luaD_throw
  <2>2. Sound([s EXCEPT !.cstack = <<>>])
    BY <1>1, <1>3, ExitSound
  <2> QED
    BY <2>1, <2>2
<1>4. CASE j # 0
  <2>1. PICK a, x0 : a = c[j] /\ x0 = g[j - 1]
    OBVIOUS
  <2>2. /\ j \in 2..n /\ j - 1 \in 1..n /\ IsTarget(a) /\ a.t = t
        /\ \A i \in j..n : c[i].t = t
        /\ Enters(c[j - 1], x0, a, g[j], j) /\ IsSnap(x0) /\ IsSnap(g[n])
        /\ g[n].start = g[j].start /\ g[n].base = g[j].base /\ IsAct(c[j - 1])
        /\ a.op = "pcall" => /\ c[j - 1].t = t /\ g[n].base = x0.base
                             /\ Begins(x0.ci, g[n].ci)
    <3>1. j \in 2..n /\ j - 1 \in 1..n /\ IsTarget(c[j]) /\ c[j].t = t /\ (\A i \in j..n : c[i].t = t)
          /\ Enters(c[j - 1], g[j - 1], c[j], g[j], j) /\ IsSnap(g[j - 1]) /\ IsSnap(g[n]) /\ IsAct(c[j - 1])
      BY <1>2, <1>4, TargetFacts
    <3>2. g[n].start = g[j].start /\ g[n].base = g[j].base
      BY <1>2, <1>4, TargetFacts
    <3>3. c[j].op = "pcall" => /\ c[j - 1].t = t /\ g[n].base = g[j - 1].base
                               /\ Begins(g[j - 1].ci, g[n].ci)
      BY <1>2, <1>4, TargetFacts
    <3> HIDE DEF c, n
    <3> QED
      BY ONLY <2>1, <3>1, <3>2, <3>3
  <2>3. CASE a.op = "pcall"
    <3>1. Stays(c[j - 1], x0, a, g[j])
      BY <2>2, <2>3 DEF Enters
    <3>2. Saved(a, x0)
      BY <2>3, <3>1 DEF Stays
    <3>3. PICK K : K = CatchInPcall(L, a)
      OBVIOUS
    <3>4. Matches(t, K, x0, 0)
      <4>1. IsThread(L) /\ L.status = "ok" /\ (t # Main => ~L.values) /\ L.baseCcalls = g[n].base /\ L.ci = g[n].ci
        BY <1>2 DEF Matches, Counts
      <4>2. L.baseCcalls = x0.base /\ Begins(x0.ci, L.ci)
        BY ONLY <2>2, <2>3, <4>1
      <4> QED
        BY ONLY <2>2, <3>2, <3>3, <4>1, <4>2, CatchMatches
    <3>5. PICK C : C = SubSeq(c, 1, j - 1)
      OBVIOUS
    <3>6. IsStack(C) /\ Len(C) = j - 1
      <4>1. IsStack(c) /\ j - 1 \in Nat /\ j - 1 <= n
        BY <2>2, LiveFacts
      <4> QED
        BY <3>5, <4>1, CutFacts
    <3>7. PICK r : r = With(s, t, K, C)
      OBVIOUS
    <3>8. r.thread[t] = K /\ r.cstack = C /\ Others(s.thread, r.thread, t) /\ IsMachine(r)
      BY <1>2, <3>6, <3>7, WithFacts
    <3>9. Runs(r.thread, C, g, t)
      <4>1. \A i \in (j - 1)..n : c[i].t = t
        <5>1. \A i \in (j - 1)..n : i = j - 1 \/ i \in j..n
          BY <2>2
        <5> QED
          BY <2>2, <2>3, <5>1
      <4>2. Runs(s.thread, c, g, t)
        BY DEF Live
      <4> QED
        BY <2>2, <3>5, <3>8, <4>1, <4>2, CutRuns
    <3>10. At(r, g, t, 0)
      BY <2>1, <3>4, <3>6, <3>8, <3>9 DEF At
    <3>11. luaD_throw(s, t, errcode) = r
      BY ONLY <1>1, <1>4, <2>1, <2>3, <3>3, <3>5, <3>7 DEF luaD_throw, With
    <3> QED
      BY <3>10, <3>11, AtSound
  <2>4. CASE a.op # "pcall"
    <3>1. a.op = "resume" /\ Starts(x0, a, g[j]) /\ g[j].count = x0.count + 1
      BY <2>2, <2>4 DEF IsTarget, Enters, CcallsOf
    <3>2. a.previous = 0
      BY <3>1 DEF Starts
    <3>3. PICK K : K = CatchInResume(L, a, errcode)
      OBVIOUS
    <3>4. Idle(K)
      <4>1. IsThread(L) /\ L.nCcalls >= 1
        <5>1. IsThread(L) /\ Counts(L.nCcalls, L.baseCcalls, g[n], d)
          BY <1>2 DEF Matches
        <5>2. g[n].start = g[j].count /\ g[j].count = x0.count + 1 /\ x0.count \in Nat
          BY <2>2, <3>1 DEF IsSnap, Starts
        <5>3. g[n].count \in Nat /\ g[n].start \in Nat /\ g[n].start <= g[n].count
          BY <2>2 DEF IsSnap
        <5>4. PICK nC, b, x : nC = L.nCcalls /\ b = L.baseCcalls /\ x = g[n]
          OBVIOUS
        <5>5. nC \in Nat /\ x.count + d <= nC /\ x.count \in Nat /\ x.count >= 1
          BY ONLY <5>1, <5>2, <5>3, <5>4 DEF Counts
        <5>6. nC >= 1
          BY ONLY <5>5, d \in {0, 1}
        <5> QED
          BY <5>1, <5>4, <5>6
      <4>2. HasFields(K) /\ K.status = errcode /\ K.ci = L.ci /\ K.sizeci = L.sizeci /\ K.nCcalls = L.nCcalls - 1
            /\ K.baseCcalls = L.baseCcalls /\ K.errfunc = L.errfunc /\ K.jmp = 0
            /\ K.allowhook = L.allowhook /\ K.values = L.values
        BY <3>2, <3>3, <4>1 DEF CatchInResume, IsThread, HasFields
      <4>3. K.nCcalls \in 0..(LUAI_MAXCCALLS + Slack)
        BY <4>1, <4>2, LimitsAssumption DEF IsThread, LimitsAssumption
      <4> QED
        BY <4>1, <4>2, <4>3 DEF Idle, IsThread, FailureCodes, Statuses
    <3>5. PICK r : r = With(s, t, K, SubSeq(c, 1, j - 1))
      OBVIOUS
    <3>6. At(r, g, c[j - 1].t, 0)
      BY <2>1, <2>2, <3>1, <3>4, <3>5, LeaveAt
    <3>7. luaD_throw(s, t, errcode) = r
      BY ONLY <1>1, <1>4, <2>1, <2>4, <3>3, <3>5 DEF luaD_throw, With
    <3> QED
      BY <3>6, <3>7, AtSound
  <2> QED
    BY <2>3, <2>4
<1> QED
  BY <1>3, <1>4

-----------------------------------------------------------------------------
(* Calls. *)

LEMMA AtLive ==
    ASSUME NEW s, NEW g, NEW t, NEW d, At(s, g, t, d)
    PROVE  Live(s, g, t) /\ Matches(t, s.thread[t], g[Len(s.cstack)], d)
BY DEF At, Live

(* The snapshots x and y differ in their frames only. *)
Alike(x, y) ==
    /\ x.count = y.count /\ x.start = y.start /\ x.base = y.base /\ x.clean = y.clean
    /\ x.hooks = y.hooks /\ x.guarded = y.guarded /\ x.jmp = y.jmp

(* L with the frames e and room for z of them. *)
Framed(L, e, z) == [L EXCEPT !.ci = e, !.sizeci = z]

LEMMA FramedMatches ==
    ASSUME NEW t, NEW L, NEW x0, NEW d, Matches(t, L, x0, d), NEW e, IsFrames(e),
           NEW z \in 2..(2 * LUAI_MAXCALLS), Len(e) <= z, NEW x, Alike(x, x0), x.ci = e
    PROVE  Matches(t, Framed(L, e, z), x, d)
<1>1. PICK K : K = Framed(L, e, z)
  OBVIOUS
<1>2. IsThread(L)
  BY DEF Matches
<1>3. HasFields(K) /\ K.status = L.status /\ K.ci = e /\ K.sizeci = z /\ K.nCcalls = L.nCcalls
      /\ K.baseCcalls = L.baseCcalls /\ K.errfunc = L.errfunc /\ K.jmp = L.jmp
      /\ K.allowhook = L.allowhook /\ K.values = L.values
  BY <1>1, <1>2 DEF Framed, IsThread, HasFields
<1>4. IsThread(K)
  BY <1>2, <1>3 DEF IsThread
<1>5. Counts(K.nCcalls, K.baseCcalls, x, d)
  <2>1. Counts(L.nCcalls, L.baseCcalls, x0, d)
    BY DEF Matches
  <2> QED
    BY <1>3, <2>1 DEF Counts, Alike
<1> QED
  BY <1>1, <1>3, <1>4, <1>5 DEF Matches, Alike

LEMMA FramedFacts ==
    ASSUME NEW L, IsThread(L), NEW e, NEW z
    PROVE  /\ [L EXCEPT !.sizeci = z] = Framed(L, L.ci, z)
           /\ [L EXCEPT !.ci = e] = Framed(L, e, L.sizeci)
           /\ \A f, y : Framed(Framed(L, f, y), e, z) = Framed(L, e, z)
           /\ Framed(L, e, z).ci = e /\ Framed(L, e, z).sizeci = z
<1>1. HasFields(L)
  BY DEF IsThread
<1>2. [L EXCEPT !.sizeci = z] = Framed(L, L.ci, z)
  BY ONLY <1>1 DEF Framed, HasFields
<1>3. [L EXCEPT !.ci = e] = Framed(L, e, L.sizeci)
  BY ONLY <1>1 DEF Framed, HasFields
<1>4. ASSUME NEW f, NEW y PROVE Framed(Framed(L, f, y), e, z) = Framed(L, e, z)
  BY ONLY <1>1 DEF Framed, HasFields
<1>5. Framed(L, e, z).ci = e /\ Framed(L, e, z).sizeci = z
  BY ONLY <1>1 DEF Framed, HasFields
<1> QED
  BY ONLY <1>2, <1>3, <1>4, <1>5

(* Nothing is run before there is room for the frame; ok is what runs then. *)
LEMMA IncSound ==
    ASSUME NEW s, NEW g, NEW t, At(s, g, t, 0),
           NEW e, IsFrames(e), Len(e) <= Len(s.thread[t].ci) + 1, NEW C, IsStack(C),
           \A z \in 2..(2 * LUAI_MAXCALLS) : Len(e) <= z =>
                \E h : At(With(s, t, Framed(s.thread[t], e, z), C), h, t, 0),
           NEW ok, ok = With(s, t, Framed(s.thread[t], e, s.thread[t].sizeci), C)
    PROVE  Sound(inc_ci(s, t, ok))
<1> DEFINE c == s.cstack
           n == Len(c)
<1>1. PICK L, size : L = s.thread[t] /\ size = s.thread[t].sizeci
  OBVIOUS
<1>2. IsMachine(s) /\ t \in Threads /\ Live(s, g, t) /\ Matches(t, L, g[n], 0) /\ IsThread(L) /\ L.sizeci = size
  BY <1>1, AtLive, LiveFacts DEF Matches
<1>3. size \in 2..(2 * LUAI_MAXCALLS) /\ LUAI_MAXCALLS \in Nat /\ Len(L.ci) <= size /\ Len(L.ci) \in Nat /\ Len(e) \in Nat
      /\ Len(e) <= Len(L.ci) + 1
  BY <1>1, <1>2, FramesFacts, LimitsAssumption DEF IsThread, LimitsAssumption
<1>4. \A z \in 2..(2 * LUAI_MAXCALLS) : Len(e) <= z => \E h : At(With(s, t, Framed(L, e, z), C), h, t, 0)
  BY <1>1
<1>5. ok = With(s, t, Framed(L, e, size), C)
  BY <1>1
<1>6. CASE Len(L.ci) # size
  <2>1. Len(e) <= size
    BY <1>3, <1>6
  <2>2. Sound(ok)
    BY <1>3, <1>4, <1>5, <2>1, AtSound
  <2>3. inc_ci(s, t, ok) = ok
    BY ONLY <1>1, <1>6 DEF inc_ci
  <2> QED
    BY <2>2, <2>3
<1>7. CASE Len(L.ci) = size
  <2>1. inc_ci(s, t, ok) = growCI(s, t, ok)
    BY ONLY <1>1, <1>7 DEF inc_ci
  <2>2. CASE size > LUAI_MAXCALLS
    <3>1. growCI(s, t, ok) = luaD_throw(s, t, "errerr")
      BY ONLY <1>1, <2>2 DEF growCI
    <3>2. Sound(luaD_throw(s, t, "errerr"))
      <4>1. PICK err : err = "errerr"
        OBVIOUS
      <4>2. err \in FailureCodes
        BY <4>1 DEF FailureCodes
      <4>3. Sound(luaD_throw(s, t, err))
        BY <1>1, <1>2, <4>2, ThrowSound
      <4> QED
        BY <4>1, <4>3
    <3> QED
      BY <2>1, <3>1, <3>2
  <2>3. CASE ~(size > LUAI_MAXCALLS) /\ 2 * size > LUAI_MAXCALLS
    <3>1. PICK z : z = 2 * size
      OBVIOUS
    <3>2. PICK r : r = [s EXCEPT !.thread[t].sizeci = z]
      OBVIOUS
    <3>3. growCI(s, t, ok) = luaG_runerror(r, t)
      BY ONLY <1>1, <2>3, <3>1, <3>2 DEF growCI
    <3>4. r = With(s, t, Framed(L, L.ci, z), c)
      <4>1. r = With(s, t, [L EXCEPT !.sizeci = z], c)
        BY ONLY <1>1, <1>2, <3>2, FormSize
      <4>2. [L EXCEPT !.sizeci = z] = Framed(L, L.ci, z)
        BY ONLY <1>2, FramedFacts
      <4> QED
        BY ONLY <4>1, <4>2
    <3>5. Matches(t, Framed(L, L.ci, z), g[n], 0)
      <4>1. z \in 2..(2 * LUAI_MAXCALLS) /\ Len(L.ci) <= z
        BY <1>3, <2>3, <3>1
      <4>2. IsFrames(L.ci) /\ Alike(g[n], g[n]) /\ g[n].ci = L.ci
        BY <1>2 DEF IsThread, Alike, Matches
      <4> QED
        BY ONLY <1>2, <4>1, <4>2, FramedMatches
    <3>6. At(r, g, t, 0)
      BY <1>2, <3>4, <3>5, AtSame
    <3>7. r.cstack = c /\ r.thread[t].nCcalls < LUAI_MAXCCALLS + Slack
      <4>1. Matches(t, r.thread[t], g[Len(r.cstack)], 0)
        BY <3>6 DEF At
      <4>2. r.thread[t].nCcalls < LUAI_MAXCCALLS + Slack + 0
        BY <4>1 DEF Matches, Counts
      <4>3. r.cstack = c
        BY <1>2, <3>4, WithFacts
      <4> QED
        BY <4>2, <4>3, LimitsAssumption DEF LimitsAssumption
    <3>8. \E h : At(luaG_runerror(r, t), h, t, 0)
      <4>1. Live(r, g, t) /\ Matches(t, r.thread[t], g[Len(r.cstack)], 0)
        BY <3>6, AtLive
      <4>2. 0 \in {0, 1}
        OBVIOUS
      <4> QED
        BY ONLY <3>7, <4>1, <4>2, RaiseAt
    <3> QED
      BY <2>1, <3>3, <3>8, AtSound
  <2>4. CASE ~(size > LUAI_MAXCALLS) /\ ~(2 * size > LUAI_MAXCALLS)
    <3>1. PICK z : z = 2 * size
      OBVIOUS
    <3>2. PICK r : r = [ok EXCEPT !.thread[t].sizeci = z]
      OBVIOUS
    <3>3. growCI(s, t, ok) = r
      BY ONLY <1>1, <2>4, <3>1, <3>2 DEF growCI
    <3>4. r = With(s, t, Framed(L, e, z), C)
      <4>1. IsMachine(ok) /\ ok.thread[t] = Framed(L, e, size) /\ ok.cstack = C
        BY <1>2, <1>5, WithFacts
      <4>2. PICK K : K = Framed(L, e, size)
        OBVIOUS
      <4>3. r = With(ok, t, [K EXCEPT !.sizeci = z], C)
        BY ONLY <1>2, <3>2, <4>1, <4>2, FormSize
      <4>4. [K EXCEPT !.sizeci = z] = Framed(L, e, z)
        BY ONLY <1>2, <4>2 DEF Framed, IsThread, HasFields
      <4>5. With(ok, t, Framed(L, e, z), C) = With(s, t, Framed(L, e, z), C)
        BY <1>2, <1>5, WithFacts
      <4> QED
        BY ONLY <4>3, <4>4, <4>5
    <3>5. z \in 2..(2 * LUAI_MAXCALLS) /\ Len(e) <= z
      BY <1>3, <1>7, <2>4, <3>1
    <3> QED
      BY <1>4, <2>1, <3>3, <3>4, <3>5, AtSound
  <2> QED
    BY <2>2, <2>3, <2>4
<1> QED
  BY <1>6, <1>7

(* luaD_precall: a C function runs in an activation a of its own, and so does the first
   Lua function of a luaV_execute. *)
LEMMA PrecallSound ==
    ASSUME NEW s, NEW g, NEW t, At(s, g, t, 0), NEW L, L = s.thread[t],
           NEW a, IsAct(a), a.t = t, Fits(s.cstack[Len(s.cstack)].op, a.op),
           a.op = "body" \/ a = [op |-> "exec", t |-> t, n |-> 1],
           NEW ok, ok = With(s, t, Framed(L, Append(L.ci, KindOf(a)), L.sizeci), Append(s.cstack, a))
    PROVE  Sound(inc_ci(s, t, ok))
<1> DEFINE c == s.cstack
           n == Len(c)
           f == L.ci
           e == Append(f, KindOf(a))
<1>1. Live(s, g, t) /\ Matches(t, L, g[n], 0) /\ IsThread(L)
  BY AtLive DEF Matches
<1>2. IsMachine(s) /\ IsStack(c) /\ n \in Nat /\ t \in Threads /\ c[n].t = t /\ IsSnap(g[n])
  BY <1>1, LiveFacts
<1>3. IsStack(Append(c, a))
  BY <1>2, AppendFacts
<1>4. PICK x0 : x0 = g[n]
  OBVIOUS
<1>5. x0.ci = f /\ IsFrames(f) /\ Len(f) \in Nat
  BY <1>1, <1>4, FramesFacts DEF Matches, IsThread
<1>6. KindOf(a) \in {"Lua", "C"} /\ FramesOf(a) = 1 /\ a.op \in {"body", "exec"}
  BY DEF KindOf, FramesOf
<1>7. IsFrames(e) /\ Len(e) = Len(f) + 1 /\ e[Len(f) + 1] = KindOf(a) /\ \A k \in 1..Len(f) : e[k] = f[k]
  BY <1>5, <1>6, AppendFrames
<1> HIDE DEF e, f
<1>8. Extends(f, e, FramesOf(a), KindOf(a))
  BY <1>5, <1>6, <1>7 DEF Extends
<1>9. Follows(c[n], x0, a, e)
  BY <1>2, <1>5, <1>6, <1>7, <1>8 DEF Follows
<1>10. PICK x : x = Above(x0, a, e, n + 1)
  OBVIOUS
<1>11. Alike(x, x0) /\ x.ci = e
  <2>1. x0.clean \in BOOLEAN /\ x0.hooks \in BOOLEAN /\ x0.guarded \in BOOLEAN /\ x0.count \in Nat
    BY <1>2, <1>4 DEF IsSnap
  <2>2. x.count = x0.count /\ x.start = x0.start /\ x.base = x0.base /\ x.jmp = x0.jmp /\ x.ci = e
    BY <1>6, <1>10, <2>1 DEF Above, CcallsOf, IsTarget
  <2>3. x.clean = x0.clean /\ x.hooks = x0.hooks /\ x.guarded = x0.guarded
    BY <1>6, <1>10, <2>1 DEF Above
  <2> QED
    BY <2>2, <2>3 DEF Alike
<1>12. ASSUME NEW z \in 2..(2 * LUAI_MAXCALLS), Len(e) <= z
       PROVE  \E h : At(With(s, t, Framed(L, e, z), Append(c, a)), h, t, 0)
  <2>1. PICK K : K = Framed(L, e, z)
    OBVIOUS
  <2>2. Matches(t, K, x, 0)
    BY <1>1, <1>4, <1>7, <1>11, <1>12, <2>1, FramedMatches
  <2>3. \E h : At(With(s, t, K, Append(c, a)), h, t, 0)
    BY <1>1, <1>4, <1>9, <1>10, <2>2, AtPush
  <2> QED
    BY <2>1, <2>3
<1>13. PICK C : C = Append(c, a)
  OBVIOUS
<1>14. /\ IsStack(C) /\ Len(e) <= Len(s.thread[t].ci) + 1
       /\ \A z \in 2..(2 * LUAI_MAXCALLS) : Len(e) <= z =>
                \E h : At(With(s, t, Framed(s.thread[t], e, z), C), h, t, 0)
       /\ ok = With(s, t, Framed(s.thread[t], e, s.thread[t].sizeci), C)
  BY <1>3, <1>5, <1>7, <1>12, <1>13 DEF e, f
<1> QED
  BY ONLY <1>7, <1>14, At(s, g, t, 0), IncSound

(* The machine with a new frame and the activation a. *)
Entered(s, t, fn, a) == Push([s EXCEPT !.thread[t].ci = Append(@, fn)], a)

LEMMA EnteredIs ==
    ASSUME NEW s, IsMachine(s), NEW t \in Threads, NEW L, L = s.thread[t], IsThread(L), NEW fn, NEW a
    PROVE  Entered(s, t, fn, a) =
                With(s, t, Framed(L, Append(L.ci, fn), L.sizeci), Append(s.cstack, a))
<1>1. PICK T, C, e : T = s.thread /\ C = s.cstack /\ e = Append(L.ci, fn)
  OBVIOUS
<1>2. s = [thread |-> T, cstack |-> C] /\ [T EXCEPT ![t] = T[t]] = T /\ L = T[t]
  BY <1>1, Parts
<1>3. PICK K : K = [L EXCEPT !.ci = e]
  OBVIOUS
<1>4. [s EXCEPT !.thread[t].ci = Append(@, fn)] = With(s, t, K, C)
  <2>1. PICK f : f = s.thread[t].ci
    OBVIOUS
  <2>2. e = Append(f, fn)
    BY <1>1, <2>1
  <2>3. [s EXCEPT !.thread[t].ci = Append(@, fn)] = [s EXCEPT !.thread[t].ci = e]
    BY ONLY <2>1, <2>2, Zenon
  <2>4. [s EXCEPT !.thread[t].ci = e] = With(s, t, K, C)
    BY ONLY <1>2, <1>3 DEF With
  <2> QED
    BY ONLY <2>3, <2>4
<1>5. Push([s EXCEPT !.thread[t].ci = Append(@, fn)], a) = With(s, t, K, Append(C, a))
  <2>1. PICK r : r = With(s, t, K, C)
    OBVIOUS
  <2>2. Push(r, a) = With(s, t, K, Append(C, a))
    <3>1. PICK U, D : U = [s.thread EXCEPT ![t] = K] /\ D = Append(r.cstack, a)
      OBVIOUS
    <3>2. r = [thread |-> U, cstack |-> C]
      BY ONLY <2>1, <3>1 DEF With
    <3>3. r.cstack = C
      BY ONLY <3>2
    <3>4. [r EXCEPT !.cstack = D] = [thread |-> U, cstack |-> D]
      BY ONLY <3>2
    <3>5. Push(r, a) = [r EXCEPT !.cstack = D]
      BY ONLY <3>1, Zenon DEF Push
    <3>6. D = Append(s.cstack, a) /\ Append(C, a) = Append(s.cstack, a)
      BY ONLY <1>1, <3>1, <3>3
    <3>7. With(s, t, K, Append(C, a)) = [thread |-> U, cstack |-> D]
      BY ONLY <3>1, <3>6 DEF With
    <3> QED
      BY ONLY <3>4, <3>5, <3>7
  <2> QED
    BY ONLY <1>4, <2>1, <2>2
<1>6. K = Framed(L, e, L.sizeci)
  BY ONLY <1>3, IsThread(L), FramedFacts
<1> QED
  BY ONLY <1>1, <1>5, <1>6 DEF Entered

(* A call is counted before it has an activation. *)
LEMMA CountMore ==
    ASSUME NEW nC, NEW b, NEW x, IsSnap(x), Counts(nC, b, x, 0)
    PROVE  /\ Counts(nC + 1, b, x, 1)
           /\ nC + 1 \in 1..(LUAI_MAXCCALLS + Slack)
           /\ \A y : (/\ y.count = x.count + 1 /\ y.start = x.start /\ y.base = x.base /\ y.clean = x.clean
                      /\ nC + 1 < LUAI_MAXCCALLS + Slack) => Counts(nC + 1, b, y, 0)
<1>1. PICK k, i, MS : k = x.count /\ i = x.start /\ MS = LUAI_MAXCCALLS + Slack
  OBVIOUS
<1>2. k \in Nat /\ i \in Nat /\ MS \in Nat /\ b \in Nat /\ nC \in Nat /\ b = x.base
  BY <1>1, LimitsAssumption DEF LimitsAssumption, IsSnap, Counts
<1>3. k + 0 <= nC /\ nC < MS + 0 /\ (x.clean => nC = k + 0) /\ k + 0 - i <= nC - b
  BY ONLY <1>1, Counts(nC, b, x, 0) DEF Counts
<1>4. /\ k + 1 <= nC + 1 /\ nC + 1 < MS + 1 /\ (x.clean => nC + 1 = k + 1) /\ k + 1 - i <= nC + 1 - b
      /\ nC + 1 \in Nat /\ nC + 1 \in 1..MS /\ k + 1 + 0 = k + 1 /\ MS + 0 = MS
  BY ONLY <1>2, <1>3
<1> QED
  BY ONLY <1>1, <1>2, <1>4 DEF Counts

LEMMA CallSound ==
    ASSUME NEW s, NEW g, NEW t, At(s, g, t, 0), NEW fn \in Kinds
    PROVE  Sound(luaD_call(s, t, fn))
<1> DEFINE c == s.cstack
           m == Len(c)
<1>1. PICK L, x0 : L = s.thread[t] /\ x0 = g[m]
  OBVIOUS
<1>2. Live(s, g, t) /\ Matches(t, L, x0, 0) /\ IsThread(L)
  BY <1>1, AtLive DEF Matches
<1>3. IsMachine(s) /\ IsStack(c) /\ m \in Nat /\ m \in 1..m /\ t \in Threads /\ c[m].t = t /\ IsSnap(x0)
  BY <1>1, <1>2, LiveFacts
<1>4. PICK nC, b, n : nC = L.nCcalls /\ b = L.baseCcalls /\ n = L.nCcalls + 1
  OBVIOUS
<1>5. Counts(nC, b, x0, 0) /\ nC \in Nat /\ b \in Nat /\ n = nC + 1 /\ n \in 0..(LUAI_MAXCCALLS + Slack)
      /\ LUAI_MAXCCALLS \in Nat \ {0} /\ Slack \in Nat \ {0}
  <2>1. Counts(nC, b, x0, 0) /\ nC \in Nat /\ b \in Nat
    BY <1>2, <1>4, LimitsAssumption DEF Matches, IsThread, LimitsAssumption
  <2>2. LUAI_MAXCCALLS \in Nat \ {0} /\ Slack \in Nat \ {0}
    BY LimitsAssumption DEF LimitsAssumption
  <2>3. n = nC + 1
    BY <1>4
  <2>4. n \in 0..(LUAI_MAXCCALLS + Slack)
    BY ONLY <2>1, <2>2, <2>3 DEF Counts
  <2> QED
    BY <2>1, <2>2, <2>3, <2>4
<1>6. PICK K : K = [L EXCEPT !.nCcalls = n]
  OBVIOUS
<1>7. HasFields(K) /\ K.status = L.status /\ K.ci = L.ci /\ K.sizeci = L.sizeci /\ K.nCcalls = n
      /\ K.baseCcalls = b /\ K.errfunc = L.errfunc /\ K.jmp = L.jmp
      /\ K.allowhook = L.allowhook /\ K.values = L.values
  BY <1>2, <1>4, <1>6 DEF IsThread, HasFields
<1>8. IsThread(K)
  BY <1>2, <1>4, <1>5, <1>7 DEF IsThread
<1>9. x0.count \in Nat /\ x0.start \in Nat /\ x0.base \in Nat
  BY <1>3 DEF IsSnap
<1>10. PICK counted : counted = [s EXCEPT !.thread[t].nCcalls = n]
  OBVIOUS
<1>11. counted = With(s, t, K, c)
  <2>1. PICK T, C : T = s.thread /\ C = s.cstack
    OBVIOUS
  <2>2. s = [thread |-> T, cstack |-> C] /\ [T EXCEPT ![t] = T[t]] = T /\ L = T[t] /\ c = C
    BY <1>1, <1>3, <2>1, Parts
  <2> QED
    BY ONLY <1>6, <1>10, <2>2 DEF With
<1>12. counted.thread[t] = K /\ counted.cstack = c /\ IsMachine(counted)
       /\ \A M, D : With(counted, t, M, D) = With(s, t, M, D)
  BY <1>3, <1>11, WithFacts
<1>13. At(counted, g, t, 1)
  <2>1. Counts(n, b, x0, 1)
    BY ONLY <1>3, <1>5, CountMore
  <2>2. Matches(t, K, x0, 1)
    BY <1>2, <1>7, <1>8, <2>1 DEF Matches
  <2> QED
    BY <1>1, <1>2, <1>11, <2>2, AtSame
<1>14. Live(counted, g, t) /\ Matches(t, counted.thread[t], g[Len(counted.cstack)], 1) /\ 1 \in {0, 1}
  BY <1>13, AtLive
<1>15. CASE n = LUAI_MAXCCALLS
  <2>1. luaD_call(s, t, fn) = luaG_runerror(counted, t)
    BY ONLY <1>1, <1>4, <1>10, <1>15 DEF luaD_call
  <2>2. counted.thread[t].nCcalls < LUAI_MAXCCALLS + Slack
    BY <1>5, <1>7, <1>12, <1>15
  <2>3. \E h : At(luaG_runerror(counted, t), h, t, 0)
    BY ONLY <1>14, <2>2, RaiseAt
  <2> QED
    BY <2>1, <2>3, AtSound
<1>16. CASE n # LUAI_MAXCCALLS /\ n >= LUAI_MAXCCALLS + Slack
  <2>1. luaD_call(s, t, fn) = luaD_throw(counted, t, "errerr")
    BY ONLY <1>1, <1>4, <1>10, <1>16 DEF luaD_call
  <2>2. PICK err : err = "errerr"
    OBVIOUS
  <2>3. err \in FailureCodes
    BY <2>2 DEF FailureCodes
  <2>4. Sound(luaD_throw(counted, t, err))
    BY ONLY <1>14, <2>3, ThrowSound
  <2> QED
    BY <2>1, <2>2, <2>4
<1>17. CASE n # LUAI_MAXCCALLS /\ ~(n >= LUAI_MAXCCALLS + Slack)
  <2>1. PICK a, r : a = [op |-> "call", t |-> t] /\ r = Push(counted, a)
    OBVIOUS
  <2>2. IsAct(a) /\ a.op = "call" /\ a.t = t
    BY <1>3, <2>1 DEF IsAct
  <2>3. Follows(c[m], x0, a, x0.ci)
    BY <1>3, <2>2, PlainFollows
  <2>4. PICK x : x = Above(x0, a, x0.ci, m + 1)
    OBVIOUS
  <2>5. x.count = x0.count + 1 /\ x.start = x0.start /\ x.base = x0.base /\ x.clean = x0.clean /\ x.ci = x0.ci
        /\ x.hooks = x0.hooks /\ x.guarded = x0.guarded /\ x.jmp = x0.jmp
    <3>1. x.clean = x0.clean /\ x.hooks = x0.hooks /\ x.guarded = x0.guarded
      BY <1>3, <2>2, <2>4 DEF Above, IsSnap
    <3> QED
      BY <2>2, <2>4, <3>1 DEF Above, CcallsOf, IsTarget
  <2>6. Matches(t, K, x, 0)
    <3>1. Counts(n, b, x, 0)
      <4>1. nC + 1 < LUAI_MAXCCALLS + Slack
        BY ONLY <1>5, <1>17
      <4> QED
        BY ONLY <1>3, <1>5, <2>5, <4>1, CountMore
    <3> QED
      BY <1>2, <1>7, <1>8, <2>5, <3>1 DEF Matches
  <2>7. r = With(s, t, K, Append(c, a))
    BY <1>3, <1>12, <2>1, StackForms
  <2>8. PICK h : At(r, h, t, 0)
    BY <1>1, <1>2, <2>3, <2>4, <2>6, <2>7, AtPush
  <2>9. r.thread[t] = K /\ r.cstack = Append(c, a) /\ IsMachine(r) /\ r.cstack[Len(r.cstack)] = a
    <3>1. PICK C : C = Append(c, a)
      OBVIOUS
    <3>2. IsStack(C) /\ C[Len(C)] = a
      BY <1>3, <3>1, AppendFacts
    <3>3. r = With(s, t, K, C)
      BY <2>7, <3>1
    <3>4. r.thread[t] = K /\ r.cstack = C /\ IsMachine(r)
      BY ONLY <1>3, <3>2, <3>3, WithFacts
    <3> QED
      BY ONLY <3>1, <3>2, <3>4
  <2>10. PICK z : z = IF fn = "C" THEN [op |-> "body", t |-> t] ELSE [op |-> "exec", t |-> t, n |-> 1]
    OBVIOUS
  <2>11. IsAct(z) /\ z.t = t /\ Fits(a.op, z.op) /\ (z.op = "body" \/ z = [op |-> "exec", t |-> t, n |-> 1]) /\ KindOf(z) = fn
    <3>1. CASE fn = "C"
      BY <1>3, <2>2, <2>10, <3>1 DEF IsAct, KindOf, Fits
    <3>2. CASE fn # "C"
      BY <1>3, <2>2, <2>10, <3>2 DEF IsAct, KindOf, Fits, Kinds
    <3> QED
      BY <3>1, <3>2
  <2>12. PICK ok : ok = Entered(r, t, fn, z)
    OBVIOUS
  <2>13. ok = With(r, t, Framed(K, Append(K.ci, KindOf(z)), K.sizeci), Append(r.cstack, z))
    <3>1. PICK f : f = KindOf(z)
      OBVIOUS
    <3>2. ok = Entered(r, t, f, z) /\ IsMachine(r) /\ t \in Threads /\ K = r.thread[t] /\ IsThread(K)
      BY <1>3, <1>8, <2>9, <2>11, <2>12, <3>1
    <3>3. Entered(r, t, f, z) = With(r, t, Framed(K, Append(K.ci, f), K.sizeci), Append(r.cstack, z))
      BY ONLY <3>2, EnteredIs
    <3> QED
      BY ONLY <3>1, <3>2, <3>3
  <2>14. Sound(inc_ci(r, t, ok))
    <3>1. Fits(r.cstack[Len(r.cstack)].op, z.op) /\ K = r.thread[t]
      BY <2>9, <2>11
    <3> QED
      BY ONLY <2>8, <2>11, <2>13, <3>1, PrecallSound
  <2>15. luaD_call(s, t, fn) = inc_ci(r, t, ok)
    <3>1. luaD_call(s, t, fn) = luaD_precall(r, t, fn, LAMBDA e : luaV_execute(e, t, 1))
      BY ONLY <1>1, <1>4, <1>10, <1>17, <2>1 DEF luaD_call
    <3>2. luaD_precall(r, t, fn, LAMBDA e : luaV_execute(e, t, 1)) = inc_ci(r, t, ok)
      BY ONLY <2>10, <2>12 DEF luaD_precall, luaV_execute, Entered
    <3> QED
      BY ONLY <3>1, <3>2
  <2> QED
    BY <2>14, <2>15
<1> QED
  BY <1>15, <1>16, <1>17

LEMMA RaisedSound ==
    ASSUME NEW s, NEW g, NEW t, At(s, g, t, 0)
    PROVE  Sound(luaG_runerror(s, t))
<1>1. Live(s, g, t) /\ Matches(t, s.thread[t], g[Len(s.cstack)], 0) /\ 0 \in {0, 1}
  BY AtLive
<1>2. s.thread[t].nCcalls < LUAI_MAXCCALLS + Slack
  <2>1. s.thread[t].nCcalls < LUAI_MAXCCALLS + Slack + 0
    BY <1>1 DEF Matches, Counts
  <2> QED
    BY <2>1, LimitsAssumption DEF LimitsAssumption
<1>3. \E h : At(luaG_runerror(s, t), h, t, 0)
  BY ONLY <1>1, <1>2, RaiseAt
<1> QED
  BY <1>3, AtSound

LEMMA ThrownSound ==
    ASSUME NEW s, NEW g, NEW t, At(s, g, t, 0), NEW code \in FailureCodes
    PROVE  Sound(luaD_throw(s, t, code))
<1>1. Live(s, g, t) /\ Matches(t, s.thread[t], g[Len(s.cstack)], 0) /\ 0 \in {0, 1}
  BY AtLive
<1> QED
  BY ONLY <1>1, code \in FailureCodes, ThrowSound

(* luaD_pcall saves what the thread looks like. *)
LEMMA PcallAt ==
    ASSUME NEW s, NEW g, NEW t, At(s, g, t, 0), s.cstack[Len(s.cstack)].op \in {"body", "hook"},
           NEW ef \in BOOLEAN
    PROVE  /\ \E h : At(luaD_pcall(s, t, ef), h, t, 0)
           /\ LET C == luaD_pcall(s, t, ef).cstack IN C[Len(C)].op = "pcall"
<1> DEFINE c == s.cstack
           n == Len(c)
<1>1. PICK L, x0 : L = s.thread[t] /\ x0 = g[n]
  OBVIOUS
<1>2. Live(s, g, t) /\ Matches(t, L, x0, 0) /\ IsThread(L)
  BY <1>1, AtLive DEF Matches
<1>3. IsMachine(s) /\ IsStack(c) /\ n \in Nat /\ n \in 1..n /\ t \in Threads /\ c[n].t = t /\ IsSnap(x0)
  BY <1>1, <1>2, LiveFacts
<1>4. PICK a : a = [op |-> "pcall", t |-> t, nCcalls |-> L.nCcalls, nci |-> Len(L.ci),
                    allowhook |-> L.allowhook, errfunc |-> L.errfunc, previous |-> L.jmp]
  OBVIOUS
<1>5. /\ a.op = "pcall" /\ a.t = t /\ IsAct(a) /\ a.nCcalls = L.nCcalls /\ a.nci = Len(L.ci)
      /\ a.allowhook = L.allowhook /\ a.errfunc = L.errfunc /\ a.previous = L.jmp
  BY <1>3, <1>4 DEF IsAct
<1>6. Saved(a, x0)
  <2>1. /\ Counts(L.nCcalls, L.baseCcalls, x0, 0) /\ L.jmp = x0.jmp /\ L.ci = x0.ci
        /\ (L.allowhook <=> x0.hooks) /\ (L.errfunc => x0.guarded)
        /\ L.allowhook \in BOOLEAN /\ L.errfunc \in BOOLEAN
    BY <1>2 DEF Matches, IsThread
  <2>2. Counts(a.nCcalls, x0.base, x0, 0)
    BY <1>5, <2>1 DEF Counts
  <2> QED
    BY <1>5, <2>1, <2>2 DEF Saved
<1>7. Follows(c[n], x0, a, x0.ci)
  <2>1. IsFrames(x0.ci) /\ FramesOf(a) = 0
    BY <1>3, <1>5 DEF IsSnap, FramesOf
  <2>2. Extends(x0.ci, x0.ci, FramesOf(a), KindOf(a))
    BY <2>1, ExtendsSame
  <2>3. Fits(c[n].op, a.op)
    BY <1>5 DEF Fits
  <2> QED
    BY <1>3, <1>5, <1>6, <2>1, <2>2, <2>3 DEF Follows
<1>8. PICK x : x = Above(x0, a, x0.ci, n + 1)
  OBVIOUS
<1>9. x.count = x0.count /\ x.start = x0.start /\ x.base = x0.base /\ x.clean = x0.clean /\ x.ci = x0.ci
      /\ x.hooks = x0.hooks /\ x.guarded = TRUE /\ x.jmp = n + 1
  <2>1. x.clean = x0.clean /\ x.hooks = x0.hooks /\ x.guarded = TRUE
    BY <1>3, <1>5, <1>8 DEF Above, IsSnap
  <2> QED
    BY <1>3, <1>5, <1>8, <2>1 DEF Above, CcallsOf, IsTarget, IsSnap
<1>10. PICK K : K = [L EXCEPT !.jmp = n + 1, !.errfunc = ef]
  OBVIOUS
<1>11. HasFields(K) /\ K.status = L.status /\ K.ci = L.ci /\ K.sizeci = L.sizeci /\ K.nCcalls = L.nCcalls
      /\ K.baseCcalls = L.baseCcalls /\ K.errfunc = ef /\ K.jmp = n + 1
      /\ K.allowhook = L.allowhook /\ K.values = L.values
  BY <1>2, <1>10 DEF IsThread, HasFields
<1>12. IsThread(K)
  BY <1>2, <1>3, <1>11 DEF IsThread
<1>13. Matches(t, K, x, 0)
  <2>1. Counts(L.nCcalls, L.baseCcalls, x0, 0)
    BY <1>2 DEF Matches
  <2>2. Counts(K.nCcalls, K.baseCcalls, x, 0)
    BY <1>9, <1>11, <2>1 DEF Counts
  <2> QED
    BY <1>2, <1>9, <1>11, <1>12, <2>2 DEF Matches
<1>14. luaD_pcall(s, t, ef) = With(s, t, K, Append(c, a))
  <2>1. PICK T, C, D : T = s.thread /\ C = s.cstack /\ D = Append(c, a)
    OBVIOUS
  <2>2. s = [thread |-> T, cstack |-> C] /\ [T EXCEPT ![t] = T[t]] = T /\ L = T[t]
    BY <1>1, <1>3, <2>1, Parts
  <2>3. Push(s, a) = [thread |-> T, cstack |-> D]
    BY ONLY <2>1, <2>2, SMTT(30) DEF Push
  <2>4. PICK r, k : r = Push(s, a) /\ k = n + 1
    OBVIOUS
  <2>5. [[r EXCEPT !.thread[t].jmp = k] EXCEPT !.thread[t].errfunc = ef] = With(s, t, K, D)
    <3>1. PICK J : J = [L EXCEPT !.jmp = k]
      OBVIOUS
    <3>2. [r EXCEPT !.thread[t].jmp = k] = [thread |-> [T EXCEPT ![t] = J], cstack |-> D]
      BY ONLY <2>2, <2>3, <2>4, <3>1
    <3>3. [J EXCEPT !.errfunc = ef] = K
      BY ONLY <1>2, <1>10, <2>4, <3>1 DEF IsThread, HasFields
    <3>4. t \in DOMAIN T
      BY <1>3, <2>1 DEF IsMachine
    <3>5. PICK U, q : U = [T EXCEPT ![t] = J] /\ q = [r EXCEPT !.thread[t].jmp = k]
      OBVIOUS
    <3>6. q = [thread |-> U, cstack |-> D] /\ U[t] = J
      BY ONLY <3>2, <3>4, <3>5
    <3>7. [q EXCEPT !.thread[t].errfunc = ef] = [thread |-> [U EXCEPT ![t] = K], cstack |-> D]
      BY ONLY <3>3, <3>6
    <3>8. [U EXCEPT ![t] = K] = [T EXCEPT ![t] = K]
      BY ONLY <3>5
    <3> QED
      BY ONLY <2>1, <3>5, <3>7, <3>8 DEF With
  <2>6. luaD_pcall(s, t, ef) = [[r EXCEPT !.thread[t].jmp = k] EXCEPT !.thread[t].errfunc = ef]
    BY ONLY <1>1, <1>4, <2>4, Zenon DEF luaD_pcall, luaD_rawrunprotected
  <2> QED
    BY ONLY <2>1, <2>5, <2>6
<1>15. \E h : At(luaD_pcall(s, t, ef), h, t, 0)
  <2>1. PICK r : r = luaD_pcall(s, t, ef)
    OBVIOUS
  <2>2. r = With(s, t, K, Append(c, a))
    BY <1>14, <2>1
  <2>3. \E h : At(r, h, t, 0)
    BY <1>1, <1>2, <1>7, <1>8, <1>13, <2>2, AtPush
  <2> QED
    BY <2>1, <2>3
<1>16. PICK C, r : C = Append(c, a) /\ r = luaD_pcall(s, t, ef)
  OBVIOUS
<1>17. r.cstack = C
  <2>1. r = With(s, t, K, C)
    BY <1>14, <1>16
  <2> QED
    BY ONLY <1>3, <2>1, WithFacts
<1>18. C[Len(C)] = a
  BY <1>3, <1>16, AppendFacts
<1> QED
  BY <1>5, <1>15, <1>16, <1>17, <1>18

-----------------------------------------------------------------------------
(* luaV_execute. *)

OfThread(a, t) == a.t = t
Executes(s, n) == n = Len(s.cstack) /\ s.cstack[n].op = "exec"

LEMMA ExecFacts ==
    ASSUME NEW s, NEW g, NEW t, At(s, g, t, 0), NEW n, Executes(s, n)
    PROVE  /\ Live(s, g, t) /\ n \in Nat /\ n - 1 \in Nat /\ n > 1
           /\ s.cstack[n] = [op |-> "exec", t |-> t, n |-> s.cstack[n].n] /\ s.cstack[n].n \in Nat \ {0}
           /\ Extends(g[n - 1].ci, s.thread[t].ci, s.cstack[n].n, "Lua") /\ IsFrames(g[n - 1].ci)
           /\ Alike(g[n], g[n - 1]) /\ IsSnap(g[n - 1])
           /\ OfThread(s.cstack[n - 1], t) /\ s.cstack[n - 1].op \in {"call", "resume"}
           /\ Matches(t, s.thread[t], g[n], 0) /\ IsThread(s.thread[t])
<1> USE DEF Executes
<1>1. Live(s, g, t) /\ Matches(t, s.thread[t], g[n], 0) /\ IsThread(s.thread[t])
  BY AtLive DEF Matches
<1>2. PICK a, a0, x, x0 : a = s.cstack[n] /\ a0 = s.cstack[n - 1] /\ x = g[n] /\ x0 = g[n - 1]
  OBVIOUS
<1>3. n \in Nat /\ n - 1 \in Nat /\ n > 1 /\ a0.t = t /\ Enters(a0, x0, a, x, n) /\ Stays(a0, x0, a, x) /\ IsSnap(x0)
      /\ Fits(a0.op, a.op) /\ a.op = "exec" /\ IsSnap(x)
  BY <1>1, <1>2, LiveFacts, BelowFacts
<1>4. a = [op |-> "exec", t |-> t, n |-> a.n] /\ a.n \in Nat \ {0} /\ Extends(x0.ci, x.ci, a.n, "Lua")
  BY <1>3 DEF Stays, FramesOf, KindOf
<1>5. Alike(x, x0)
  <2>1. x.count = x0.count /\ x.start = x0.start /\ x.base = x0.base /\ x.jmp = x0.jmp
    BY <1>3 DEF Enters, Stays, CcallsOf, IsTarget, IsSnap
  <2>2. (x.clean <=> x0.clean) /\ (x.hooks <=> x0.hooks) /\ (x.guarded <=> x0.guarded)
    BY <1>3 DEF Enters, Stays
  <2>3. x.clean = x0.clean /\ x.hooks = x0.hooks /\ x.guarded = x0.guarded
    BY <1>3, <2>2 DEF IsSnap
  <2> QED
    BY <2>1, <2>3 DEF Alike
<1>6. s.thread[t].ci = x.ci
  BY <1>1, <1>2 DEF Matches
<1>7. a0.op \in {"call", "resume"} /\ IsFrames(x0.ci)
  BY <1>3 DEF Fits, IsSnap
<1> QED
  BY <1>1, <1>2, <1>3, <1>4, <1>5, <1>6, <1>7 DEF OfThread

(* A frame more, or less, in the same luaV_execute. *)
LEMMA ExecTurn ==
    ASSUME NEW s, NEW g, NEW t, At(s, g, t, 0), NEW n, Executes(s, n),
           NEW m \in Nat \ {0}, NEW e, IsFrames(e), Extends(g[n - 1].ci, e, m, "Lua"),
           NEW z \in 2..(2 * LUAI_MAXCALLS), Len(e) <= z,
           NEW C, C = [s.cstack EXCEPT ![n] = [op |-> "exec", t |-> t, n |-> m]]
    PROVE  \E h : At(With(s, t, Framed(s.thread[t], e, z), C), h, t, 0)
<1>1. PICK a, a0, x, x0, L : a = [op |-> "exec", t |-> t, n |-> m] /\ a0 = s.cstack[n - 1]
                             /\ x = g[n] /\ x0 = g[n - 1] /\ L = s.thread[t]
  OBVIOUS
<1>2. Live(s, g, t) /\ n \in Nat /\ Alike(x, x0) /\ IsSnap(x0) /\ a0.t = t /\ a0.op \in {"call", "resume"} /\ Matches(t, L, x, 0)
      /\ t \in Threads
  <2> USE ONLY At(s, g, t, 0), Executes(s, n), ExecFacts
  <2>1. Live(s, g, t) /\ n \in Nat /\ Alike(g[n], g[n - 1]) /\ IsSnap(g[n - 1])
    OBVIOUS
  <2>3. OfThread(s.cstack[n - 1], t)
    OBVIOUS
  <2>4. s.cstack[n - 1].op \in {"call", "resume"}
    OBVIOUS
  <2>5. Matches(t, s.thread[t], g[n], 0)
    OBVIOUS
  <2>2. t \in Threads
    BY <2>1, LiveFacts
  <2> QED
    BY ONLY <1>1, <2>1, <2>2, <2>3, <2>4, <2>5 DEF OfThread
<1>3. a.op = "exec" /\ a.t = t /\ a.n = m /\ IsAct(a)
  BY <1>1, <1>2 DEF IsAct
<1>4. FramesOf(a) = m /\ KindOf(a) = "Lua" /\ Fits(a0.op, a.op)
  BY <1>2, <1>3 DEF FramesOf, KindOf, Fits
<1>5. Extends(x0.ci, e, FramesOf(a), KindOf(a))
  BY <1>1, <1>4
<1>6. Follows(a0, x0, a, e)
  BY <1>1, <1>2, <1>3, <1>4, <1>5 DEF Follows
<1>7. PICK y : y = Above(x0, a, e, n)
  OBVIOUS
<1>8. Alike(y, x) /\ y.ci = e
  <2>1. y.clean = x0.clean /\ y.hooks = x0.hooks /\ y.guarded = x0.guarded
    BY <1>2, <1>3, <1>7 DEF Above, IsSnap
  <2>2. y.count = x0.count /\ y.start = x0.start /\ y.base = x0.base /\ y.jmp = x0.jmp /\ y.ci = e
    BY <1>2, <1>3, <1>7 DEF Above, CcallsOf, IsTarget, IsSnap
  <2> QED
    BY <1>2, <2>1, <2>2 DEF Alike
<1>9. PICK K : K = Framed(L, e, z)
  OBVIOUS
<1>10. Matches(t, K, y, 0)
  BY ONLY <1>2, <1>8, <1>9, IsFrames(e), z \in 2..(2 * LUAI_MAXCALLS), Len(e) <= z, FramedMatches
<1>11. s.cstack[n].op \notin {"body", "resume"} /\ n = Len(s.cstack)
  BY DEF Executes
<1>12. \E h : At(With(s, t, K, C), h, t, 0)
  <2>1. C = [s.cstack EXCEPT ![n] = a]
    BY <1>1
  <2>2. PICK o : o = s.cstack[Len(s.cstack)].op
    OBVIOUS
  <2>3. s.cstack[Len(s.cstack)].op \notin {"body", "resume"}
    BY <1>11
  <2>4. Follows(s.cstack[Len(s.cstack) - 1], g[Len(s.cstack) - 1], a, e)
    BY ONLY <1>1, <1>6, <1>11
  <2>5. Matches(t, K, Above(g[Len(s.cstack) - 1], a, e, Len(s.cstack)), 0)
    BY ONLY <1>1, <1>7, <1>10, <1>11
  <2>6. C = [s.cstack EXCEPT ![Len(s.cstack)] = a] \/ C = Append(Front(s.cstack), a)
    BY ONLY <1>11, <2>1
  <2> QED
    BY ONLY <1>2, <2>3, <2>4, <2>5, <2>6, AtTurn
<1> QED
  BY <1>1, <1>9, <1>12

-----------------------------------------------------------------------------
(* One lemma per action. *)

LEMMA StepSound ==
    ASSUME NEW X, Sound(X), Becomes(X)
    PROVE  Sound(Machine')
<1>1. IsMachine(X)
  BY DEF Sound, Exited, At, AtYield
<1>2. X = [thread |-> X.thread, cstack |-> X.cstack]
  BY <1>1 DEF IsMachine
<1>3. Machine' = X
  BY <1>2 DEF Becomes, Machine
<1> QED
  BY <1>3

LEMMA RunningAt ==
    ASSUME Sound(Machine), NEW ops, IsRunning(ops), "resume" \notin ops
    PROVE  \E s, g, t : /\ s = Machine /\ t = Running.t /\ At(s, g, t, 0) /\ t \in Threads
                        /\ s.cstack = cstack /\ s.thread = thread /\ cstack[Len(cstack)] = Running
                        /\ Running.op \in ops /\ Len(cstack) \in Nat /\ Len(cstack) > 0
<1>1. PICK s : s = Machine
  OBVIOUS
<1>2. s.cstack = cstack /\ s.thread = thread
  BY <1>1 DEF Machine
<1>3. cstack # <<>> /\ Running.op \in ops
  BY DEF IsRunning, Running
<1>4. PICK g, t : At(s, g, t, 0) \/ AtYield(s, g, t)
  BY <1>1, <1>2, <1>3 DEF Sound, Exited
<1>5. Live(s, g, t)
  BY <1>4 DEF At, AtYield, Live
<1>6. Len(cstack) \in Nat /\ Len(cstack) > 0 /\ t \in Threads /\ cstack[Len(cstack)] = Running /\ Running.t = t
  BY <1>2, <1>5, LiveFacts DEF Running
<1>7. At(s, g, t, 0)
  BY <1>2, <1>3, <1>4, <1>6 DEF AtYield
<1> QED
  BY <1>1, <1>2, <1>3, <1>6, <1>7

(* OP_CALL *)
LEMMA OpCallSound ==
    ASSUME Sound(Machine), NEW fn \in Kinds, OpCall(fn)
    PROVE  Sound(Machine')
<1>1. IsRunning({"exec"}) /\ "resume" \notin {"exec"}
  BY DEF OpCall
<1>2. PICK s, g, t : s = Machine /\ t = Running.t /\ At(s, g, t, 0) /\ t \in Threads /\ s.cstack = cstack
                     /\ cstack[Len(cstack)] = Running /\ Running.op = "exec"
  BY <1>1, RunningAt
<1>3. PICK n, c, L : n = Len(s.cstack) /\ c = s.cstack /\ L = s.thread[t]
  OBVIOUS
<1>4. Live(s, g, t) /\ IsMachine(s) /\ IsThread(L) /\ n \in Nat /\ c[n].op = "exec" /\ Executes(s, n)
  <2>1. Executes(s, n)
    BY <1>2, <1>3 DEF Executes
  <2>2. Live(s, g, t) /\ IsThread(s.thread[t]) /\ n \in Nat
    BY ONLY <1>2, <2>1, ExecFacts
  <2> QED
    BY <1>3, <2>1, <2>2, LiveFacts DEF Executes
<1>5. PICK X : X = luaD_precall(s, t, fn, LAMBDA e : [e EXCEPT !.cstack[n].n = @ + 1])
  OBVIOUS
<1>6. Becomes(X)
  <2>1. Becomes(luaD_precall(Machine, Running.t, fn, LAMBDA e : [e EXCEPT !.cstack[Len(cstack)].n = @ + 1]))
    BY DEF OpCall
  <2>2. n = Len(cstack) /\ s = Machine /\ t = Running.t
    BY <1>2, <1>3
  <2> QED
    BY ONLY <1>5, <2>1, <2>2, Zenon DEF luaD_precall
<1>7. CASE fn = "C"
  <2>1. PICK a, ok : a = [op |-> "body", t |-> t] /\ ok = Entered(s, t, fn, a)
    OBVIOUS
  <2>2. IsAct(a) /\ a.t = t /\ a.op = "body" /\ KindOf(a) = fn /\ Fits(s.cstack[Len(s.cstack)].op, a.op)
    BY <1>2, <1>3, <1>4, <1>7, <2>1 DEF IsAct, KindOf, Fits
  <2>3. ok = With(s, t, Framed(L, Append(L.ci, KindOf(a)), L.sizeci), Append(s.cstack, a))
    <3>1. Entered(s, t, fn, a) = With(s, t, Framed(L, Append(L.ci, fn), L.sizeci), Append(s.cstack, a))
      <4>1. ok = Entered(s, t, fn, a) /\ IsMachine(s) /\ t \in Threads /\ L = s.thread[t] /\ IsThread(L)
        BY <1>2, <1>3, <1>4, <2>1
      <4> QED
        BY ONLY <4>1, EnteredIs
    <3> QED
      BY ONLY <2>1, <2>2, <3>1
  <2>4. X = inc_ci(s, t, ok)
    BY ONLY <1>5, <1>7, <2>1 DEF luaD_precall, Entered
  <2>5. Sound(X)
    BY ONLY <1>2, <1>3, <2>2, <2>3, <2>4, PrecallSound
  <2> QED
    BY <1>6, <2>5, StepSound
<1>8. CASE fn = "Lua"
  <2>1. PICK e, m, C : e = Append(L.ci, fn) /\ m = c[n].n + 1 /\ C = [c EXCEPT ![n] = [op |-> "exec", t |-> t, n |-> m]]
    OBVIOUS
  <2>2. /\ c[n] = [op |-> "exec", t |-> t, n |-> c[n].n] /\ c[n].n \in Nat \ {0}
        /\ Extends(g[n - 1].ci, L.ci, c[n].n, "Lua") /\ IsFrames(g[n - 1].ci) /\ IsFrames(L.ci)
    <3>2. /\ s.cstack[n] = [op |-> "exec", t |-> t, n |-> s.cstack[n].n] /\ s.cstack[n].n \in Nat \ {0}
          /\ Extends(g[n - 1].ci, s.thread[t].ci, s.cstack[n].n, "Lua") /\ IsFrames(g[n - 1].ci)
      BY ONLY <1>2, <1>4, ExecFacts
    <3> QED
      BY ONLY <1>3, <1>4, <3>2 DEF IsThread
  <2>3. IsFrames(e) /\ Len(e) = Len(L.ci) + 1 /\ e[Len(L.ci) + 1] = fn /\ \A k \in 1..Len(L.ci) : e[k] = L.ci[k]
    BY <1>8, <2>1, <2>2, AppendFrames
  <2>4. Extends(g[n - 1].ci, e, m, "Lua")
    <3>1. PICK f, p, i : f = L.ci /\ p = g[n - 1].ci /\ i = c[n].n
      OBVIOUS
    <3>2. Len(f) \in Nat /\ Len(p) \in Nat
      BY <2>2, <3>1, FramesFacts
    <3>3. /\ i \in Nat \ {0} /\ Len(f) = Len(p) + i /\ (\A k \in 1..Len(p) : f[k] = p[k])
          /\ (\A k \in (Len(p) + 1)..Len(f) : f[k] = "Lua")
          /\ Len(e) = Len(f) + 1 /\ e[Len(f) + 1] = "Lua" /\ (\A k \in 1..Len(f) : e[k] = f[k]) /\ m = i + 1
      BY <1>8, <2>1, <2>2, <2>3, <3>1 DEF Extends
    <3>4. Extends(p, e, m, "Lua")
      <4>1. Len(e) = Len(p) + m
        BY ONLY <3>2, <3>3
      <4>2. \A k \in 1..Len(p) : k \in 1..Len(f)
        BY ONLY <3>2, <3>3
      <4>3. \A k \in (Len(p) + 1)..Len(e) : k = Len(f) + 1 \/ (k \in 1..Len(f) /\ k \in (Len(p) + 1)..Len(f))
        BY ONLY <3>2, <3>3
      <4> QED
        BY ONLY <3>3, <4>1, <4>2, <4>3 DEF Extends
    <3> QED
      BY <3>1, <3>4
  <2>5. m \in Nat \ {0}
    BY <2>1, <2>2
  <2>6. ASSUME NEW z \in 2..(2 * LUAI_MAXCALLS), Len(e) <= z
        PROVE  \E h : At(With(s, t, Framed(s.thread[t], e, z), C), h, t, 0)
    <3>1. At(s, g, t, 0) /\ Executes(s, n) /\ C = [s.cstack EXCEPT ![n] = [op |-> "exec", t |-> t, n |-> m]]
      BY <1>2, <1>3, <1>4, <2>1
    <3> QED
      BY ONLY <2>3, <2>4, <2>5, <2>6, <3>1, ExecTurn
  <2>7. IsStack(C)
    <3>1. Turned(c, n, [op |-> "exec", t |-> t, n |-> m], C) /\ n \in 1..Len(c) /\ IsStack(c)
      BY <1>3, <1>4, <2>1, LiveFacts DEF Turned
    <3> QED
      BY ONLY <3>1, TurnFacts
  <2>8. PICK ok : ok = [[s EXCEPT !.thread[t].ci = Append(@, fn)] EXCEPT !.cstack[n].n = @ + 1]
    OBVIOUS
  <2>9. ok = With(s, t, Framed(L, e, L.sizeci), C)
    <3>1. PICK T, K : T = s.thread /\ K = [L EXCEPT !.ci = e]
      OBVIOUS
    <3>2. s = [thread |-> T, cstack |-> c] /\ [T EXCEPT ![t] = T[t]] = T /\ L = T[t]
      BY <1>2, <1>3, <1>4, <3>1, Parts
    <3>3. PICK r : r = [s EXCEPT !.thread[t].ci = e]
      OBVIOUS
    <3>4. r = [thread |-> [T EXCEPT ![t] = K], cstack |-> c]
      BY ONLY <3>1, <3>2, <3>3
    <3>5. [s EXCEPT !.thread[t].ci = Append(@, fn)] = r
      <4>1. PICK f : f = s.thread[t].ci
        OBVIOUS
      <4>2. e = Append(f, fn)
        BY <1>3, <2>1, <4>1
      <4> QED
        BY ONLY <3>3, <4>1, <4>2, Zenon
    <3>6. [c EXCEPT ![n].n = m] = C
      <4>1. [c[n] EXCEPT !.n = m] = [op |-> "exec", t |-> t, n |-> m]
        BY <2>2
      <4> QED
        BY ONLY <2>1, <4>1
    <3>7. [r EXCEPT !.cstack[n].n = m] = [thread |-> [T EXCEPT ![t] = K], cstack |-> C]
      BY ONLY <3>4, <3>6
    <3>8. [r EXCEPT !.cstack[n].n = @ + 1] = [r EXCEPT !.cstack[n].n = m]
      <4>1. r.cstack[n].n + 1 = m
        BY ONLY <2>1, <3>4
      <4> QED
        BY ONLY <4>1, Zenon
    <3>9. ok = [thread |-> [T EXCEPT ![t] = K], cstack |-> C]
      BY ONLY <2>8, <3>5, <3>7, <3>8
    <3>10. K = Framed(L, e, L.sizeci)
      BY <1>4, <3>1, FramedFacts
    <3> QED
      BY ONLY <3>1, <3>9, <3>10 DEF With
  <2>10. X = inc_ci(s, t, ok)
    <3>1. fn # "C"
      BY <1>8
    <3> QED
      BY ONLY <1>5, <3>1, <2>8 DEF luaD_precall
  <2>11. Sound(X)
    <3>1. Len(e) <= Len(s.thread[t].ci) + 1 /\ ok = With(s, t, Framed(s.thread[t], e, s.thread[t].sizeci), C)
      <4>1. Len(L.ci) \in Nat
        BY <2>2, FramesFacts
      <4> QED
        BY <1>3, <2>3, <2>9, <4>1
    <3> QED
      BY ONLY <1>2, <2>3, <2>6, <2>7, <2>10, <3>1, IncSound, ZenonT(60)
  <2> QED
    BY <1>6, <2>11, StepSound
<1> QED
  BY <1>7, <1>8 DEF Kinds

(* What changes the frames, and how many of them a luaV_execute runs. *)
WithFrame(s, t, fn) == [s EXCEPT !.thread[t].ci = Append(@, fn)]
WithLevel(s, n, m) == [s EXCEPT !.cstack[n].n = m]
HasLevel(c, n, op, t) == c[n] = [op |-> op, t |-> t, n |-> c[n].n]
Leveled(c, n, op, t, m) == [c EXCEPT ![n] = [op |-> op, t |-> t, n |-> m]]

LEMMA WithFrameIs ==
    ASSUME NEW s, IsMachine(s), NEW t \in Threads, NEW L, L = s.thread[t], IsThread(L), NEW fn
    PROVE  WithFrame(s, t, fn) = With(s, t, Framed(L, Append(L.ci, fn), L.sizeci), s.cstack)
<1>1. PICK T, C, e : T = s.thread /\ C = s.cstack /\ e = Append(L.ci, fn)
  OBVIOUS
<1>2. s = [thread |-> T, cstack |-> C] /\ [T EXCEPT ![t] = T[t]] = T /\ L = T[t]
  BY <1>1, Parts
<1>3. PICK K : K = [L EXCEPT !.ci = e]
  OBVIOUS
<1>4. WithFrame(s, t, fn) = [s EXCEPT !.thread[t].ci = e]
  <2>1. PICK f : f = s.thread[t].ci
    OBVIOUS
  <2>2. e = Append(f, fn)
    BY <1>1, <2>1
  <2> QED
    BY ONLY <2>1, <2>2, Zenon DEF WithFrame
<1>5. [s EXCEPT !.thread[t].ci = e] = With(s, t, K, C)
  BY ONLY <1>2, <1>3 DEF With
<1>6. K = Framed(L, e, L.sizeci)
  BY ONLY <1>3, IsThread(L), FramedFacts
<1> QED
  BY ONLY <1>1, <1>4, <1>5, <1>6

LEMMA PoscallIs ==
    ASSUME NEW s, IsMachine(s), NEW t \in Threads, NEW L, L = s.thread[t], IsThread(L)
    PROVE  luaD_poscall(s, t) = With(s, t, Framed(L, Front(L.ci), L.sizeci), s.cstack)
<1>1. PICK T, C, e : T = s.thread /\ C = s.cstack /\ e = Front(L.ci)
  OBVIOUS
<1>2. s = [thread |-> T, cstack |-> C] /\ [T EXCEPT ![t] = T[t]] = T /\ L = T[t]
  BY <1>1, Parts
<1>3. PICK K : K = [L EXCEPT !.ci = e]
  OBVIOUS
<1>4. luaD_poscall(s, t) = [s EXCEPT !.thread[t].ci = e]
  <2>1. PICK f : f = s.thread[t].ci
    OBVIOUS
  <2>2. e = Front(f)
    BY <1>1, <2>1
  <2> QED
    BY ONLY <2>1, <2>2, Zenon DEF luaD_poscall
<1>5. [s EXCEPT !.thread[t].ci = e] = With(s, t, K, C)
  BY ONLY <1>2, <1>3 DEF With
<1>6. K = Framed(L, e, L.sizeci)
  BY ONLY <1>3, IsThread(L), FramedFacts
<1> QED
  BY ONLY <1>1, <1>4, <1>5, <1>6

LEMMA WithLevelIs ==
    ASSUME NEW s, NEW t, NEW K, NEW c, NEW n, NEW op, NEW m, HasLevel(c, n, op, t), NEW r, r = With(s, t, K, c)
    PROVE  WithLevel(r, n, m) = With(s, t, K, Leveled(c, n, op, t, m))
<1>1. PICK U : U = [s.thread EXCEPT ![t] = K]
  OBVIOUS
<1>2. r = [thread |-> U, cstack |-> c]
  BY ONLY <1>1, r = With(s, t, K, c) DEF With
<1>3. [c EXCEPT ![n].n = m] = Leveled(c, n, op, t, m)
  <2>1. [c[n] EXCEPT !.n = m] = [op |-> op, t |-> t, n |-> m]
    BY DEF HasLevel
  <2> QED
    BY ONLY <2>1 DEF Leveled
<1>4. WithLevel(r, n, m) = [thread |-> U, cstack |-> [c EXCEPT ![n].n = m]]
  BY ONLY <1>2 DEF WithLevel
<1> QED
  BY ONLY <1>1, <1>3, <1>4 DEF With

(* OP_TAILCALL *)
LEMMA OpTailCallSound ==
    ASSUME Sound(Machine), OpTailCall
    PROVE  Sound(Machine')
<1>1. IsRunning({"exec"}) /\ "resume" \notin {"exec"}
  BY DEF OpTailCall
<1>2. PICK s, g, t : s = Machine /\ t = Running.t /\ At(s, g, t, 0) /\ t \in Threads
  BY <1>1, RunningAt
<1>3. PICK L, c, n : L = s.thread[t] /\ c = s.cstack /\ n = Len(s.cstack)
  OBVIOUS
<1>4. Live(s, g, t) /\ IsMachine(s) /\ IsThread(L) /\ IsFrames(L.ci) /\ IsStack(c) /\ Matches(t, L, g[n], 0)
  BY <1>2, <1>3, AtLive, LiveFacts DEF Matches, IsThread
<1>5. PICK fn, r, ok : fn = "Lua" /\ r = WithFrame(s, t, fn) /\ ok = luaD_poscall(r, t)
  OBVIOUS
<1>6. PICK e, K : e = Append(L.ci, fn) /\ K = Framed(L, e, L.sizeci)
  OBVIOUS
<1>7. r = With(s, t, K, c)
  BY ONLY <1>2, <1>3, <1>4, <1>5, <1>6, WithFrameIs
<1>8. r.thread[t] = K /\ r.cstack = c /\ IsMachine(r) /\ \A M, D : With(r, t, M, D) = With(s, t, M, D)
  BY ONLY <1>2, <1>4, <1>7, WithFacts
<1>9. Front(e) = L.ci /\ IsFrames(e)
  BY <1>4, <1>5, <1>6, AppendFrames
<1>10. ok = With(s, t, Framed(L, L.ci, L.sizeci), c)
  <2>1. PICK U, D, f : U = r.thread /\ D = r.cstack /\ f = L.ci
    OBVIOUS
  <2>2. r = [thread |-> U, cstack |-> D] /\ [U EXCEPT ![t] = U[t]] = U /\ K = U[t]
    BY <1>2, <1>8, <2>1, Parts
  <2>3. ok = [r EXCEPT !.thread[t].ci = f]
    <3>1. Front(r.thread[t].ci) = f
      <4>1. K.ci = e
        BY ONLY <1>4, <1>6 DEF Framed, IsThread, HasFields
      <4> QED
        BY <1>8, <1>9, <2>1, <4>1
    <3> QED
      BY ONLY <1>5, <3>1, Zenon DEF luaD_poscall
  <2>4. PICK J : J = [K EXCEPT !.ci = f]
    OBVIOUS
  <2>5. ok = With(r, t, J, D)
    BY ONLY <2>2, <2>3, <2>4 DEF With
  <2>6. J = Framed(L, L.ci, L.sizeci)
    BY ONLY <1>4, <1>6, <2>1, <2>4 DEF Framed, IsThread, HasFields
  <2> QED
    BY ONLY <1>8, <2>1, <2>5, <2>6
<1>11. ASSUME NEW z \in 2..(2 * LUAI_MAXCALLS), Len(L.ci) <= z
       PROVE  \E h : At(With(s, t, Framed(s.thread[t], L.ci, z), c), h, t, 0)
  <2>1. Alike(g[n], g[n]) /\ g[n].ci = L.ci
    BY <1>4 DEF Alike, Matches
  <2>2. PICK J : J = Framed(L, L.ci, z)
    OBVIOUS
  <2>3. Matches(t, J, g[n], 0)
    BY ONLY <1>4, <1>11, z \in 2..(2 * LUAI_MAXCALLS), <2>1, <2>2, FramedMatches
  <2>4. At(With(s, t, J, c), g, t, 0)
    BY ONLY <1>3, <1>4, <2>3, AtSame
  <2> QED
    BY <1>3, <2>2, <2>4
<1>12. Sound(inc_ci(s, t, ok))
  <2>1. Len(L.ci) <= Len(s.thread[t].ci) + 1 /\ ok = With(s, t, Framed(s.thread[t], L.ci, s.thread[t].sizeci), c)
    <3>1. Len(L.ci) \in Nat
      BY <1>4, FramesFacts
    <3> QED
      BY <1>3, <1>10, <3>1
  <2> QED
    BY ONLY <1>2, <1>4, <1>11, <2>1, IncSound
<1>13. Becomes(inc_ci(s, t, ok))
  <2>1. Becomes(luaD_precall(Machine, Running.t, "Lua", LAMBDA q : luaD_poscall(q, Running.t)))
    BY Zenon DEF OpTailCall
  <2>2. luaD_precall(s, t, "Lua", LAMBDA q : luaD_poscall(q, t)) = inc_ci(s, t, ok)
    <3>1. fn # "C"
      BY <1>5
    <3>2. luaD_precall(s, t, fn, LAMBDA q : luaD_poscall(q, t)) = inc_ci(s, t, ok)
      BY ONLY <1>5, <3>1 DEF luaD_precall, WithFrame
    <3> QED
      BY ONLY <1>5, <3>2
  <2>3. Becomes(luaD_precall(s, t, "Lua", LAMBDA q : luaD_poscall(q, t)))
    BY ONLY <1>2, <2>1, Zenon DEF luaD_precall
  <2> QED
    BY ONLY <2>2, <2>3, Zenon
<1> QED
  BY <1>12, <1>13, StepSound

(* OP_RETURN *)
LEMMA OpReturnSound ==
    ASSUME Sound(Machine), OpReturn
    PROVE  Sound(Machine')
<1>1. IsRunning({"exec"}) /\ "resume" \notin {"exec"}
  BY DEF OpReturn
<1>2. PICK s, g, t : s = Machine /\ t = Running.t /\ At(s, g, t, 0) /\ t \in Threads /\ s.cstack = cstack
                     /\ cstack[Len(cstack)] = Running /\ Running.op = "exec"
  BY <1>1, RunningAt
<1>3. PICK L, c, n, i : L = s.thread[t] /\ c = s.cstack /\ n = Len(s.cstack) /\ i = c[n].n
  OBVIOUS
<1>4. Executes(s, n)
  BY <1>2, <1>3 DEF Executes
<1>5. /\ Live(s, g, t) /\ n \in Nat /\ n > 1 /\ IsMachine(s) /\ IsThread(L) /\ IsFrames(L.ci) /\ IsStack(c)
      /\ Matches(t, L, g[n], 0)
      /\ HasLevel(c, n, "exec", t) /\ i \in Nat \ {0}
      /\ Extends(g[n - 1].ci, L.ci, i, "Lua") /\ IsFrames(g[n - 1].ci) /\ Alike(g[n], g[n - 1]) /\ Last(c) = c[n]
  <2>1. /\ Live(s, g, t) /\ n \in Nat /\ n > 1 /\ IsThread(s.thread[t]) /\ Matches(t, s.thread[t], g[n], 0)
        /\ HasLevel(s.cstack, n, "exec", t) /\ s.cstack[n].n \in Nat \ {0}
        /\ Extends(g[n - 1].ci, s.thread[t].ci, s.cstack[n].n, "Lua") /\ IsFrames(g[n - 1].ci) /\ Alike(g[n], g[n - 1])
    BY ONLY <1>2, <1>4, ExecFacts DEF HasLevel
  <2> QED
    BY <1>3, <2>1, LiveFacts DEF IsThread
<1>6. PICK e, f, K, r : e = Front(L.ci) /\ f = g[n - 1].ci /\ K = Framed(L, e, L.sizeci) /\ r = luaD_poscall(s, t)
  OBVIOUS
<1>7. r = With(s, t, K, c)
  BY ONLY <1>2, <1>3, <1>5, <1>6, PoscallIs
<1>8. r.cstack = c /\ IsMachine(r) /\ r.thread[t] = K /\ \A M, D : With(r, t, M, D) = With(s, t, M, D)
  BY ONLY <1>2, <1>5, <1>7, WithFacts
<1>9. /\ IsFrames(e) /\ Extends(f, e, i - 1, "Lua") /\ i - 1 \in Nat
      /\ Len(e) <= L.sizeci /\ L.sizeci \in 2..(2 * LUAI_MAXCALLS)
  <2>1. PICK l : l = L.ci
    OBVIOUS
  <2>2. Len(l) \in Nat /\ Len(f) \in Nat /\ Len(f) > 0 /\ i \in Nat \ {0} /\ Len(l) = Len(f) + i
        /\ (\A k \in 1..Len(f) : l[k] = f[k]) /\ (\A k \in (Len(f) + 1)..Len(l) : l[k] = "Lua")
    BY <1>5, <1>6, <2>1, FramesFacts DEF Extends
  <2>3. IsFrames(e) /\ Len(e) = Len(l) - 1 /\ \A k \in 1..(Len(l) - 1) : e[k] = l[k]
    <3>1. Len(l) > 1
      BY ONLY <2>2
    <3> QED
      BY <1>5, <1>6, <2>1, <3>1, FrontFrames
  <2>4. Extends(f, e, i - 1, "Lua")
    <3>1. Len(e) = Len(f) + (i - 1)
      BY ONLY <2>2, <2>3
    <3>2. \A k \in 1..Len(f) : k \in 1..(Len(l) - 1)
      BY ONLY <2>2
    <3>3. \A k \in (Len(f) + 1)..Len(e) : k \in 1..(Len(l) - 1) /\ k \in (Len(f) + 1)..Len(l)
      BY ONLY <2>2, <2>3
    <3> QED
      BY ONLY <2>2, <2>3, <3>1, <3>2, <3>3 DEF Extends
  <2>5. Len(l) <= L.sizeci /\ L.sizeci \in 2..(2 * LUAI_MAXCALLS)
    BY <1>5, <2>1 DEF IsThread
  <2>6. Len(e) <= L.sizeci
    <3>1. PICK z : z = L.sizeci
      OBVIOUS
    <3>2. z \in Int
      <4>1. LUAI_MAXCALLS \in Nat
        BY LimitsAssumption DEF LimitsAssumption
      <4> QED
        BY <2>5, <3>1, <4>1
    <3> QED
      BY <2>2, <2>3, <2>5, <3>1, <3>2
  <2> QED
    BY <2>2, <2>3, <2>4, <2>5, <2>6
<1>10. CASE i = 1
  <2>1. e = f
    <3>1. Extends(f, e, 0, "Lua")
      BY <1>9, <1>10
    <3> QED
      BY <1>5, <1>6, <1>9, <3>1, SameFrames
  <2>2. Matches(t, K, g[n - 1], 0)
    <3>1. PICK x, y : x = g[n - 1] /\ y = g[n]
      OBVIOUS
    <3>2. Alike(x, y) /\ x.ci = e /\ Matches(t, L, y, 0)
      BY <1>5, <1>6, <2>1, <3>1 DEF Alike
    <3> QED
      BY ONLY <1>6, <1>9, <3>1, <3>2, FramedMatches
  <2>3. At(With(s, t, K, Front(c)), g, t, 0)
    <3>1. s.cstack[Len(s.cstack)].op # "resume" /\ s.cstack[Len(s.cstack)].op # "body"
          /\ Matches(t, K, g[Len(s.cstack) - 1], 0)
      BY <1>3, <1>4, <2>2 DEF Executes
    <3> QED
      BY ONLY <1>3, <1>5, <3>1, AtPop
  <2>4. Pop(r) = With(s, t, K, Front(c))
    BY <1>2, <1>8, StackForms
  <2>5. LeaveFrame(r) = Pop(r)
    BY ONLY <1>3, <1>5, <1>8, <1>10 DEF LeaveFrame
  <2>6. Sound(LeaveFrame(r))
    BY <2>3, <2>4, <2>5, AtSound
  <2> QED
    BY <1>2, <1>6, <2>6, StepSound DEF OpReturn
<1>11. CASE i # 1
  <2>1. PICK m : m = i - 1
    OBVIOUS
  <2>2. m \in Nat \ {0}
    BY <1>5, <1>11, <2>1
  <2>3. WithLevel(r, n, m) = With(s, t, K, Leveled(c, n, "exec", t, m))
    BY ONLY <1>5, <1>7, WithLevelIs
  <2>4. \E h : At(With(s, t, K, Leveled(c, n, "exec", t, m)), h, t, 0)
    <3>1. PICK C : C = Leveled(c, n, "exec", t, m)
      OBVIOUS
    <3>2. C = [s.cstack EXCEPT ![n] = [op |-> "exec", t |-> t, n |-> m]]
      BY <1>3, <3>1 DEF Leveled
    <3>3. Extends(g[n - 1].ci, e, m, "Lua") /\ K = Framed(s.thread[t], e, L.sizeci)
      BY <1>3, <1>6, <1>9, <2>1
    <3>4. \E h : At(With(s, t, Framed(s.thread[t], e, L.sizeci), C), h, t, 0)
      <4>1. PICK z : z = L.sizeci
        OBVIOUS
      <4>2. /\ IsFrames(e) /\ Extends(g[n - 1].ci, e, m, "Lua") /\ m \in Nat \ {0}
            /\ z \in 2..(2 * LUAI_MAXCALLS) /\ Len(e) <= z
        BY ONLY <1>9, <2>2, <3>3, <4>1
      <4>3. \E h : At(With(s, t, Framed(s.thread[t], e, z), C), h, t, 0)
        BY ONLY <1>2, <1>4, <3>2, <4>2, ExecTurn, ZenonT(60)
      <4> QED
        BY ONLY <4>1, <4>3
    <3> QED
      BY <3>1, <3>3, <3>4
  <2>5. LeaveFrame(r) = WithLevel(r, n, m)
    <3>1. Last(r.cstack).n # 1 /\ Len(r.cstack) = n /\ r.cstack[n].n = i
      BY <1>3, <1>5, <1>8, <1>11
    <3>2. LeaveFrame(r) = [r EXCEPT !.cstack[Len(r.cstack)].n = @ - 1]
      BY ONLY <3>1 DEF LeaveFrame
    <3> QED
      BY ONLY <2>1, <3>1, <3>2, Zenon DEF WithLevel
  <2>6. Sound(LeaveFrame(r))
    BY <2>3, <2>4, <2>5, AtSound
  <2> QED
    BY <1>2, <1>6, <2>6, StepSound DEF OpReturn
<1> QED
  BY <1>10, <1>11

(* The calls that start where they run. *)
LEMMA CallMetamethodSound ==
    ASSUME Sound(Machine), NEW fn \in Kinds, CallMetamethod(fn)
    PROVE  Sound(Machine')
<1>1. IsRunning({"exec"}) /\ "resume" \notin {"exec"}
  BY DEF CallMetamethod
<1>2. PICK s, g, t : s = Machine /\ t = Running.t /\ At(s, g, t, 0)
  BY <1>1, RunningAt
<1>3. Sound(luaD_call(s, t, fn))
  BY <1>2, CallSound
<1> QED
  BY <1>2, <1>3, StepSound DEF CallMetamethod

LEMMA LuaCallSound ==
    ASSUME Sound(Machine), NEW fn \in Kinds, lua_call(fn)
    PROVE  Sound(Machine')
<1>1. IsRunning({"body", "hook"}) /\ "resume" \notin {"body", "hook"}
  BY DEF lua_call, IsC
<1>2. PICK s, g, t : s = Machine /\ t = Running.t /\ At(s, g, t, 0)
  BY <1>1, RunningAt
<1>3. Sound(luaD_call(s, t, fn))
  BY <1>2, CallSound
<1> QED
  BY <1>2, <1>3, StepSound DEF lua_call

LEMMA CallReaderSound ==
    ASSUME Sound(Machine), CallReader
    PROVE  Sound(Machine')
<1>1. IsRunning({"parser"}) /\ "resume" \notin {"parser"}
  BY DEF CallReader
<1>2. PICK s, g, t : s = Machine /\ t = Running.t /\ At(s, g, t, 0)
  BY <1>1, RunningAt
<1>3. PICK fn : fn = "Lua"
  OBVIOUS
<1>4. fn \in Kinds /\ Becomes(luaD_call(s, t, fn))
  BY <1>2, <1>3 DEF Kinds, CallReader
<1>5. Sound(luaD_call(s, t, fn))
  BY <1>2, <1>4, CallSound
<1> QED
  BY <1>4, <1>5, StepSound

LEMMA LuaPcallSound ==
    ASSUME Sound(Machine), NEW fn \in Kinds, NEW ef \in BOOLEAN, lua_pcall(fn, ef)
    PROVE  Sound(Machine')
<1>1. IsRunning({"body", "hook"}) /\ "resume" \notin {"body", "hook"}
  BY DEF lua_pcall, IsC
<1>2. PICK s, g, t : s = Machine /\ t = Running.t /\ At(s, g, t, 0) /\ s.cstack = cstack
                     /\ cstack[Len(cstack)] = Running /\ Running.op \in {"body", "hook"}
  BY <1>1, RunningAt
<1>3. s.cstack[Len(s.cstack)].op \in {"body", "hook"}
  BY <1>2
<1>4. PICK r : r = luaD_pcall(s, t, ef)
  OBVIOUS
<1>5. PICK h : At(r, h, t, 0)
  BY <1>2, <1>3, <1>4, PcallAt
<1>6. Sound(luaD_call(r, t, fn))
  BY <1>5, CallSound
<1> QED
  BY <1>2, <1>4, <1>6, StepSound DEF lua_pcall

LEMMA LuaErrorSound ==
    ASSUME Sound(Machine), lua_error
    PROVE  Sound(Machine')
<1>1. IsRunning({"body", "hook", "exec"}) /\ "resume" \notin {"body", "hook", "exec"}
  BY DEF lua_error
<1>2. PICK s, g, t : s = Machine /\ t = Running.t /\ At(s, g, t, 0)
  BY <1>1, RunningAt
<1>3. Sound(luaG_runerror(s, t))
  BY <1>2, RaisedSound
<1> QED
  BY <1>2, <1>3, StepSound DEF lua_error

LEMMA SyntaxErrorSound ==
    ASSUME Sound(Machine), SyntaxError
    PROVE  Sound(Machine')
<1>1. IsRunning({"parser"}) /\ "resume" \notin {"parser"}
  BY DEF SyntaxError
<1>2. PICK s, g, t : s = Machine /\ t = Running.t /\ At(s, g, t, 0)
  BY <1>1, RunningAt
<1>3. PICK code : code = "errsyntax"
  OBVIOUS
<1>4. code \in FailureCodes /\ Becomes(luaD_throw(s, t, code))
  BY <1>2, <1>3 DEF FailureCodes, SyntaxError
<1>5. Sound(luaD_throw(s, t, code))
  BY <1>2, <1>4, ThrownSound
<1> QED
  BY <1>4, <1>5, StepSound

LEMMA ThrowErrorSound ==
    ASSUME Sound(Machine), ThrowError
    PROVE  Sound(Machine')
<1>1. IsRunning({"error", "handler"}) /\ "resume" \notin {"error", "handler"}
  BY DEF ThrowError, IsRunning
<1>2. PICK s, g, t : s = Machine /\ t = Running.t /\ At(s, g, t, 0)
  BY <1>1, RunningAt
<1>3. PICK code : code = "errrun"
  OBVIOUS
<1>4. code \in FailureCodes /\ Becomes(luaD_throw(s, t, code))
  BY <1>2, <1>3 DEF FailureCodes, ThrowError
<1>5. Sound(luaD_throw(s, t, code))
  BY <1>2, <1>4, ThrownSound
<1> QED
  BY <1>4, <1>5, StepSound

-----------------------------------------------------------------------------
(* What runs, and what it returns to. *)

Tops(s, g, t, n, c, L, x, a) ==
    At(s, g, t, 0) /\ n = Len(s.cstack) /\ c = s.cstack /\ L = s.thread[t] /\ x = g[n] /\ a = c[n]

Returning(g, n, c, a, x0, a0) ==
    x0 = g[n - 1] /\ a0 = c[n - 1] /\ a.op # "resume" /\ (a.op # "body" \/ n # 1)

LEMMA TopsFacts ==
    ASSUME NEW s, NEW g, NEW t, NEW n, NEW c, NEW L, NEW x, NEW a, Tops(s, g, t, n, c, L, x, a)
    PROVE  /\ Live(s, g, t) /\ IsMachine(s) /\ IsStack(c) /\ n \in Nat /\ n > 0 /\ t \in Threads
           /\ a.t = t /\ IsSnap(x) /\ IsFrames(x.ci) /\ Last(c) = a /\ n \in 1..n
           /\ Matches(t, L, x, 0) /\ IsThread(L) /\ HasFields(L) /\ L.ci = x.ci
           /\ Counts(L.nCcalls, L.baseCcalls, x, 0)
<1> USE DEF Tops
<1>1. Live(s, g, t) /\ Matches(t, L, x, 0)
  BY AtLive
<1>2. IsMachine(s) /\ IsStack(c) /\ n \in Nat /\ n > 0 /\ t \in Threads /\ a.t = t /\ IsSnap(x) /\ Last(c) = a /\ n \in 1..n
  BY <1>1, LiveFacts
<1>3. IsThread(L) /\ L.ci = x.ci /\ Counts(L.nCcalls, L.baseCcalls, x, 0)
  BY <1>1 DEF Matches
<1> QED
  BY <1>1, <1>2, <1>3 DEF IsSnap, IsThread

LEMMA ReturningFacts ==
    ASSUME NEW s, NEW g, NEW t, NEW n, NEW c, NEW L, NEW x, NEW a, Tops(s, g, t, n, c, L, x, a),
           NEW x0, NEW a0, Returning(g, n, c, a, x0, a0)
    PROVE  /\ n > 1 /\ n - 1 \in Nat /\ a0.t = t /\ IsAct(a0)
           /\ IsSnap(x0) /\ IsFrames(x0.ci)
           /\ Enters(a0, x0, a, x, n) /\ Stays(a0, x0, a, x) /\ Fits(a0.op, a.op)
<1>1. Live(s, g, t)
  BY TopsFacts
<1>2. n = Len(s.cstack) /\ c = s.cstack /\ x = g[n] /\ a = c[n]
  BY DEF Tops
<1>3. x0 = g[n - 1] /\ a0 = c[n - 1] /\ a.op # "resume" /\ (a.op # "body" \/ n # 1)
  BY DEF Returning
<1>4. /\ n > 1 /\ n - 1 \in Nat /\ a0.t = t /\ IsAct(a0) /\ IsSnap(x0)
      /\ Enters(a0, x0, a, x, n) /\ Stays(a0, x0, a, x) /\ Fits(a0.op, a.op)
  BY <1>1, <1>2, <1>3, BelowFacts
<1> QED
  BY <1>4 DEF IsSnap

LEMMA PopSound ==
    ASSUME NEW s, NEW g, NEW t, NEW n, NEW c, NEW L, NEW x, NEW a, Tops(s, g, t, n, c, L, x, a),
           NEW x0, NEW a0, Returning(g, n, c, a, x0, a0),
           NEW K, Matches(t, K, x0, 0), NEW r, r = With(s, t, K, c)
    PROVE  Sound(Pop(r))
<1>1. Live(s, g, t) /\ IsMachine(s) /\ t \in Threads /\ IsStack(c)
  BY TopsFacts
<1>2. n = Len(s.cstack) /\ c = s.cstack /\ a = c[n]
  BY DEF Tops
<1>3. r.thread[t] = K /\ r.cstack = c /\ IsMachine(r) /\ \A M, D : With(r, t, M, D) = With(s, t, M, D)
  BY <1>1, WithFacts
<1>4. Pop(r) = With(s, t, K, Front(c))
  BY <1>1, <1>3, StackForms
<1>5. s.cstack[Len(s.cstack)].op # "resume" /\ (s.cstack[Len(s.cstack)].op # "body" \/ Len(s.cstack) # 1)
      /\ Matches(t, K, g[Len(s.cstack) - 1], 0)
  BY <1>2 DEF Returning
<1>6. At(With(s, t, K, Front(c)), g, t, 0)
  BY <1>1, <1>2, <1>5, AtPop
<1> QED
  BY <1>4, <1>6, AtSound

LEMMA PushAt ==
    ASSUME NEW s, NEW g, NEW t, NEW n, NEW c, NEW L, NEW x, NEW a, Tops(s, g, t, n, c, L, x, a),
           NEW b, NEW e, Follows(a, x, b, e), NEW K, Matches(t, K, Above(x, b, e, n + 1), 0),
           NEW r, r = With(s, t, K, c)
    PROVE  \E h : At(Push(r, b), h, t, 0)
<1>1. Live(s, g, t) /\ IsMachine(s) /\ t \in Threads /\ IsStack(c)
  BY TopsFacts
<1>2. n = Len(s.cstack) /\ c = s.cstack /\ a = c[n] /\ x = g[n]
  BY DEF Tops
<1>3. r.thread[t] = K /\ r.cstack = c /\ IsMachine(r) /\ \A M, D : With(r, t, M, D) = With(s, t, M, D)
  BY <1>1, WithFacts
<1>4. Push(r, b) = With(s, t, K, Append(c, b))
  BY <1>1, <1>3, StackForms
<1>5. \E h : At(With(s, t, K, Append(c, b)), h, t, 0)
  BY <1>1, <1>2, AtPush
<1> QED
  BY <1>4, <1>5

LEMMA TurnAt ==
    ASSUME NEW s, NEW g, NEW t, NEW n, NEW c, NEW L, NEW x, NEW a, Tops(s, g, t, n, c, L, x, a),
           NEW x0, NEW a0, Returning(g, n, c, a, x0, a0), a.op # "body",
           NEW b, NEW e, Follows(a0, x0, b, e), NEW K, Matches(t, K, Above(x0, b, e, n), 0),
           NEW C, C = [c EXCEPT ![n] = b] \/ C = Append(Front(c), b)
    PROVE  \E h : At(With(s, t, K, C), h, t, 0)
<1>1. Live(s, g, t)
  BY TopsFacts
<1>2. n = Len(s.cstack) /\ c = s.cstack /\ a = c[n]
  BY DEF Tops
<1>3. x0 = g[n - 1] /\ a0 = c[n - 1] /\ a.op # "resume"
  BY DEF Returning
<1>4. s.cstack[Len(s.cstack)].op \notin {"body", "resume"}
  BY <1>2, <1>3
<1>5. Follows(s.cstack[Len(s.cstack) - 1], g[Len(s.cstack) - 1], b, e)
      /\ Matches(t, K, Above(g[Len(s.cstack) - 1], b, e, Len(s.cstack)), 0)
      /\ (C = [s.cstack EXCEPT ![Len(s.cstack)] = b] \/ C = Append(Front(s.cstack), b))
  BY <1>2, <1>3
<1> QED
  BY ONLY <1>1, <1>4, <1>5, AtTurn

LEMMA TopsAt ==
    ASSUME Sound(Machine), NEW ops, IsRunning(ops), "resume" \notin ops
    PROVE  \E s, g, t, n, c, L, x, a :
                /\ s = Machine /\ Tops(s, g, t, n, c, L, x, a)
                /\ t = Running.t /\ a = Running /\ a.op \in ops /\ n = Len(cstack)
                /\ c = cstack /\ L = thread[t]
<1>1. PICK s, g, t : /\ s = Machine /\ t = Running.t /\ At(s, g, t, 0) /\ t \in Threads
                     /\ s.cstack = cstack /\ s.thread = thread /\ cstack[Len(cstack)] = Running
                     /\ Running.op \in ops
  BY RunningAt
<1>2. PICK n, c, L, x, a : n = Len(s.cstack) /\ c = s.cstack /\ L = s.thread[t] /\ x = g[n] /\ a = c[n]
  OBVIOUS
<1>3. Tops(s, g, t, n, c, L, x, a)
  BY <1>1, <1>2 DEF Tops
<1> QED
  BY <1>1, <1>2, <1>3

(* A snapshot that says the same. *)
LEMMA AlikeMatches ==
    ASSUME NEW t, NEW L, NEW x, NEW d, Matches(t, L, x, d), NEW y, Alike(y, x), y.ci = x.ci
    PROVE  Matches(t, L, y, d)
<1>1. Counts(L.nCcalls, L.baseCcalls, x, d)
  BY DEF Matches
<1>2. Counts(L.nCcalls, L.baseCcalls, y, d)
  BY <1>1 DEF Counts, Alike
<1> QED
  BY <1>2 DEF Matches, Alike

(* Activations that change nothing but the frames, and those that do not even do that. *)
LEMMA PlainEnters ==
    ASSUME NEW a0, NEW x0, IsSnap(x0), NEW a, NEW x, IsSnap(x), NEW i, Enters(a0, x0, a, x, i),
           a.op \in {"body", "exec"} \/ (a.op = "parser" /\ a.n = 0)
    PROVE  Alike(x, x0)
<1>1. Stays(a0, x0, a, x)
  BY DEF Enters
<1>2. x.count = x0.count /\ x.start = x0.start /\ x.base = x0.base /\ x.jmp = x0.jmp
  BY <1>1 DEF Enters, Stays, CcallsOf, IsTarget, IsSnap
<1>3. (x.clean <=> x0.clean) /\ (x.hooks <=> x0.hooks) /\ (x.guarded <=> x0.guarded)
  BY <1>1 DEF Enters, Stays
<1>4. x.clean = x0.clean /\ x.hooks = x0.hooks /\ x.guarded = x0.guarded
  BY <1>3 DEF IsSnap
<1> QED
  BY <1>2, <1>4 DEF Alike

LEMMA FramelessEnters ==
    ASSUME NEW a0, NEW x0, IsSnap(x0), NEW a, NEW x, IsSnap(x), NEW i, Enters(a0, x0, a, x, i),
           a.op \notin {"body", "exec", "resume"}
    PROVE  x.ci = x0.ci
<1>1. FramesOf(a) = 0
  BY DEF FramesOf
<1>2. Extends(x0.ci, x.ci, 0, KindOf(a))
  BY <1>1 DEF Enters, Stays
<1>3. IsFrames(x.ci) /\ IsFrames(x0.ci)
  BY DEF IsSnap
<1>4. PICK f, e, kind : f = x0.ci /\ e = x.ci /\ kind = KindOf(a)
  OBVIOUS
<1>5. e = f
  BY <1>2, <1>3, <1>4, SameFrames
<1> QED
  BY <1>4, <1>5

(* A call less. *)
LEMMA CountLess ==
    ASSUME NEW nC, NEW b, NEW x, IsSnap(x), Counts(nC, b, x, 0), NEW y, y.count \in Nat, y.count + 1 = x.count,
           y.start = x.start, y.base = x.base, y.clean = x.clean
    PROVE  Counts(nC - 1, b, y, 0) /\ nC - 1 \in 0..(LUAI_MAXCCALLS + Slack)
<1>1. PICK k, i, j, MS : k = y.count /\ i = x.start /\ j = x.count /\ MS = LUAI_MAXCCALLS + Slack
  OBVIOUS
<1>2. k \in Nat /\ i \in Nat /\ MS \in Nat /\ b \in Nat /\ nC \in Nat /\ b = x.base /\ j \in Nat /\ k + 1 = j
  BY <1>1, LimitsAssumption DEF LimitsAssumption, IsSnap, Counts
<1>3. j + 0 <= nC /\ nC < MS + 0 /\ (x.clean => nC = j + 0) /\ j + 0 - i <= nC - b
  BY ONLY <1>1, Counts(nC, b, x, 0) DEF Counts
<1>4. /\ k + 0 <= nC - 1 /\ nC - 1 < MS + 0 /\ (x.clean => nC - 1 = k + 0) /\ k + 0 - i <= nC - 1 - b
      /\ nC - 1 \in Nat /\ nC - 1 \in 0..MS
  BY ONLY <1>2, <1>3
<1>5. Counts(nC - 1, b, y, 0)
  BY ONLY <1>1, <1>2, <1>4, y.start = x.start, y.base = x.base, y.clean = x.clean DEF Counts
<1> QED
  BY ONLY <1>1, <1>4, <1>5

-----------------------------------------------------------------------------
(* traceexec *)
LEMMA CallHookSound ==
    ASSUME Sound(Machine), CallHook
    PROVE  Sound(Machine')
<1>1. IsRunning({"exec"}) /\ "resume" \notin {"exec"}
  BY DEF CallHook
<1>2. PICK s, g, t, n, c, L, x, a :
          /\ s = Machine /\ Tops(s, g, t, n, c, L, x, a) /\ t = Running.t /\ a = Running /\ a.op = "exec" /\ L = thread[t]
  BY <1>1, TopsAt
<1>3. /\ IsMachine(s) /\ t \in Threads /\ n \in Nat /\ a.t = t /\ IsSnap(x) /\ IsFrames(x.ci) /\ IsThread(L) /\ HasFields(L)
      /\ Matches(t, L, x, 0) /\ Counts(L.nCcalls, L.baseCcalls, x, 0) /\ s.thread[t] = L /\ s.cstack = c
  <2>1. Tops(s, g, t, n, c, L, x, a)
    BY <1>2
  <2>2. s.thread[t] = L /\ s.cstack = c
    BY ONLY <2>1 DEF Tops
  <2> QED
    BY ONLY <2>1, <2>2, TopsFacts
<1>4. PICK b, K, no : b = [op |-> "hook", t |-> t] /\ no = FALSE /\ K = [L EXCEPT !.allowhook = no]
  OBVIOUS
<1>5. IsAct(b) /\ b.op = "hook" /\ b.t = t
  BY <1>3, <1>4 DEF IsAct
<1>6. x.hooks
  <2>1. L.allowhook
    BY <1>2 DEF CallHook
  <2> QED
    BY <1>3, <2>1 DEF Matches
<1>7. Follows(a, x, b, x.ci)
  <2>1. FramesOf(b) = 0 /\ Fits(a.op, b.op)
    BY <1>2, <1>5 DEF FramesOf, Fits
  <2>2. Extends(x.ci, x.ci, FramesOf(b), KindOf(b))
    BY <1>3, <2>1, ExtendsSame
  <2> QED
    BY <1>3, <1>5, <1>6, <2>1, <2>2 DEF Follows
<1>8. PICK y : y = Above(x, b, x.ci, n + 1)
  OBVIOUS
<1>9. /\ y.count = x.count /\ y.start = x.start /\ y.base = x.base /\ y.jmp = x.jmp /\ y.ci = x.ci
      /\ y.clean = x.clean /\ y.hooks = FALSE /\ y.guarded = x.guarded
  <2>1. y.clean = x.clean /\ y.hooks = FALSE /\ y.guarded = x.guarded
    BY <1>3, <1>5, <1>8 DEF Above, IsSnap
  <2> QED
    BY <1>3, <1>5, <1>8, <2>1 DEF Above, CcallsOf, IsTarget, IsSnap
<1>10. HasFields(K) /\ K.status = L.status /\ K.ci = L.ci /\ K.sizeci = L.sizeci /\ K.nCcalls = L.nCcalls
      /\ K.baseCcalls = L.baseCcalls /\ K.errfunc = L.errfunc /\ K.jmp = L.jmp
      /\ K.allowhook = FALSE /\ K.values = L.values
  BY <1>3, <1>4 DEF HasFields
<1>11. Matches(t, K, y, 0)
  <2>1. IsThread(K)
    BY <1>3, <1>10 DEF IsThread
  <2>2. Counts(K.nCcalls, K.baseCcalls, y, 0)
    BY <1>3, <1>9, <1>10 DEF Counts
  <2> QED
    BY <1>3, <1>9, <1>10, <2>1, <2>2 DEF Matches
<1>12. PICK r : r = [s EXCEPT !.thread[t].allowhook = no]
  OBVIOUS
<1>13. r = With(s, t, K, c)
  <2>1. PICK T : T = s.thread
    OBVIOUS
  <2>2. s = [thread |-> T, cstack |-> c] /\ [T EXCEPT ![t] = T[t]] = T /\ L = T[t]
    BY <1>3, <2>1, Parts
  <2> QED
    BY ONLY <1>4, <1>12, <2>2 DEF With
<1>14. \E h : At(Push(r, b), h, t, 0)
  BY ONLY <1>2, <1>7, <1>8, <1>11, <1>13, PushAt
<1>15. Sound(Push(r, b))
  BY <1>14, AtSound
<1> QED
  BY <1>2, <1>4, <1>12, <1>15, StepSound DEF CallHook

(* A hook returns to luaV_execute. *)
LEMMA HookReturnSound ==
    ASSUME Sound(Machine), HookReturn
    PROVE  Sound(Machine')
<1>1. IsRunning({"hook"}) /\ "resume" \notin {"hook"}
  BY DEF HookReturn
<1>2. PICK s, g, t, n, c, L, x, a :
          /\ s = Machine /\ Tops(s, g, t, n, c, L, x, a) /\ t = Running.t /\ a = Running /\ a.op = "hook" /\ L = thread[t]
  BY <1>1, TopsAt
<1>3. /\ IsMachine(s) /\ t \in Threads /\ n \in Nat /\ a.t = t /\ IsSnap(x) /\ IsFrames(x.ci) /\ IsThread(L) /\ HasFields(L)
      /\ Matches(t, L, x, 0) /\ Counts(L.nCcalls, L.baseCcalls, x, 0) /\ s.thread[t] = L /\ s.cstack = c
  <2>1. Tops(s, g, t, n, c, L, x, a)
    BY <1>2
  <2>2. s.thread[t] = L /\ s.cstack = c
    BY ONLY <2>1 DEF Tops
  <2> QED
    BY ONLY <2>1, <2>2, TopsFacts
<1>4. PICK x0, a0 : Returning(g, n, c, a, x0, a0)
  BY <1>2 DEF Returning
<1>5. IsSnap(x0) /\ Enters(a0, x0, a, x, n) /\ Stays(a0, x0, a, x)
  BY <1>2, <1>4, ReturningFacts
<1>6. x.ci = x0.ci
  BY <1>2, <1>3, <1>5, FramelessEnters
<1>7. PICK K, yes : yes = TRUE /\ K = [L EXCEPT !.allowhook = yes]
  OBVIOUS
<1>8. HasFields(K) /\ K.status = L.status /\ K.ci = L.ci /\ K.sizeci = L.sizeci /\ K.nCcalls = L.nCcalls
      /\ K.baseCcalls = L.baseCcalls /\ K.errfunc = L.errfunc /\ K.jmp = L.jmp
      /\ K.allowhook = TRUE /\ K.values = L.values
  BY <1>3, <1>7 DEF HasFields
<1>9. /\ x.count = x0.count /\ x.start = x0.start /\ x.base = x0.base /\ x.jmp = x0.jmp
      /\ (x.clean <=> x0.clean) /\ x0.hooks /\ (x.guarded <=> x0.guarded)
  <2>1. x.count = x0.count /\ x.start = x0.start /\ x.base = x0.base /\ x.jmp = x0.jmp
    BY <1>2, <1>5 DEF Enters, Stays, CcallsOf, IsTarget, IsSnap
  <2> QED
    BY <1>2, <1>5, <2>1 DEF Enters, Stays
<1>10. Matches(t, K, x0, 0)
  <2>1. IsThread(K)
    BY <1>3, <1>8 DEF IsThread
  <2>2. Counts(K.nCcalls, K.baseCcalls, x0, 0)
    BY <1>3, <1>8, <1>9 DEF Counts
  <2> QED
    BY <1>3, <1>6, <1>8, <1>9, <2>1, <2>2 DEF Matches
<1>11. PICK r : r = [s EXCEPT !.thread[t].allowhook = yes]
  OBVIOUS
<1>12. r = With(s, t, K, c)
  <2>1. PICK T : T = s.thread
    OBVIOUS
  <2>2. s = [thread |-> T, cstack |-> c] /\ [T EXCEPT ![t] = T[t]] = T /\ L = T[t]
    BY <1>3, <2>1, Parts
  <2> QED
    BY ONLY <1>7, <1>11, <2>2 DEF With
<1>13. Sound(Pop(r))
  BY ONLY <1>2, <1>4, <1>10, <1>12, PopSound
<1> QED
  BY <1>2, <1>7, <1>11, <1>13, StepSound DEF HookReturn

(* A C function returns to luaD_precall. *)
LEMMA CReturnSound ==
    ASSUME Sound(Machine), CReturn
    PROVE  Sound(Machine')
<1>1. IsRunning({"body"}) /\ "resume" \notin {"body"}
  BY DEF CReturn, IsC
<1>2. PICK s, g, t, n, c, L, x, a :
          /\ s = Machine /\ Tops(s, g, t, n, c, L, x, a) /\ t = Running.t /\ a = Running /\ a.op \in {"body"}
          /\ n = Len(cstack) /\ L = thread[t]
  BY <1>1, TopsAt
<1>3. /\ IsMachine(s) /\ t \in Threads /\ n \in Nat /\ a.t = t /\ IsSnap(x) /\ IsFrames(x.ci) /\ IsThread(L) /\ HasFields(L)
      /\ Matches(t, L, x, 0) /\ Counts(L.nCcalls, L.baseCcalls, x, 0) /\ s.thread[t] = L /\ s.cstack = c /\ L.ci = x.ci /\ Last(c) = a
      /\ IsStack(c) /\ n \in 1..n
  <2>1. Tops(s, g, t, n, c, L, x, a)
    BY <1>2
  <2>2. s.thread[t] = L /\ s.cstack = c
    BY ONLY <2>1 DEF Tops
  <2> QED
    BY ONLY <2>1, <2>2, TopsFacts
<1>4. n # 1
  <2>1. ASSUME n = 1 PROVE FALSE
    <3>1. Tops(s, g, t, n, c, L, x, a)
      BY <1>2
    <3>2. x.ci = <<"base">>
      <4>1. x = g[n] /\ n = Len(s.cstack) /\ c = s.cstack
        BY ONLY <3>1 DEF Tops
      <4>2. Live(s, g, t)
        BY ONLY <3>1, TopsFacts
      <4>3. Shape(s.cstack, Len(s.cstack), g)
        BY ONLY <4>2, LiveFacts
      <4>4. Shape(c, n, g) /\ n \in Nat /\ n > 0
        <5>1. Shape(c, n, g)
          BY ONLY <4>1, <4>3
        <5> QED
          BY ONLY <2>1, <5>1
      <4>5. IsHost(c[1], g[1])
        BY ONLY <4>4, LevelFacts
      <4> QED
        BY ONLY <2>1, <4>1, <4>5 DEF IsHost
    <3>3. Len(<<"base">>) = 1
      OBVIOUS
    <3>4. Len(L.ci) > 1
      BY <1>2 DEF CReturn
    <3> QED
      BY <1>3, <3>2, <3>3, <3>4
  <2> QED
    BY <2>1
<1>5. PICK x0, a0 : Returning(g, n, c, a, x0, a0)
  BY <1>2, <1>4 DEF Returning
<1>6. IsSnap(x0) /\ IsFrames(x0.ci) /\ Enters(a0, x0, a, x, n) /\ Stays(a0, x0, a, x)
  BY <1>2, <1>5, ReturningFacts
<1>7. Alike(x, x0) /\ Extends(x0.ci, x.ci, 1, "C")
  <2>1. FramesOf(a) = 1 /\ KindOf(a) = "C"
    BY <1>2 DEF FramesOf, KindOf
  <2> QED
    BY <1>2, <1>3, <1>6, <2>1, PlainEnters DEF Stays
<1>8. PICK e, K, r : e = Front(L.ci) /\ K = Framed(L, e, L.sizeci) /\ r = luaD_poscall(s, t)
  OBVIOUS
<1>9. e = x0.ci /\ Len(e) <= L.sizeci /\ L.sizeci \in 2..(2 * LUAI_MAXCALLS)
  <2>1. PICK l, f, kind : l = L.ci /\ f = x0.ci /\ kind = "C"
    OBVIOUS
  <2>2. IsFrames(l) /\ IsFrames(f) /\ Extends(f, l, 1, kind) /\ Len(f) \in Nat /\ Len(f) > 0
    BY <1>3, <1>6, <1>7, <2>1, FramesFacts
  <2>3. Len(l) = Len(f) + 1 /\ \A k \in 1..Len(f) : l[k] = f[k]
    BY ONLY <2>2 DEF Extends
  <2>4. IsFrames(Front(l)) /\ Len(Front(l)) = Len(l) - 1 /\ \A k \in 1..(Len(l) - 1) : Front(l)[k] = l[k]
    <3>1. Len(l) > 1
      BY ONLY <2>2, <2>3
    <3> QED
      BY ONLY <2>2, <3>1, FrontFrames
  <2>5. Extends(f, Front(l), 0, kind)
    BY ONLY <2>2, <2>3, <2>4 DEF Extends
  <2>6. Front(l) = f
    BY ONLY <2>2, <2>4, <2>5, SameFrames
  <2>7. PICK z : z = L.sizeci
    OBVIOUS
  <2>8. Len(l) <= z /\ z \in 2..(2 * LUAI_MAXCALLS) /\ z \in Int
    <3>1. Len(l) <= z /\ z \in 2..(2 * LUAI_MAXCALLS) /\ LUAI_MAXCALLS \in Nat
      BY <1>3, <2>1, <2>7, LimitsAssumption DEF IsThread, LimitsAssumption
    <3> QED
      BY ONLY <3>1
  <2>9. Len(f) <= z
    BY ONLY <2>2, <2>3, <2>8
  <2> QED
    BY ONLY <1>8, <2>1, <2>6, <2>7, <2>8, <2>9
<1>10. r = With(s, t, K, c)
  BY ONLY <1>3, <1>8, PoscallIs
<1>11. Matches(t, K, x0, 0)
  <2>1. Alike(x0, x)
    BY <1>7 DEF Alike
  <2> QED
    BY ONLY <1>3, <1>6, <1>8, <1>9, <2>1, FramedMatches
<1>12. Sound(Pop(r))
  BY ONLY <1>2, <1>5, <1>10, <1>11, PopSound
<1> QED
  BY <1>2, <1>8, <1>12, StepSound DEF CReturn

(* luaD_call is over. *)
LEMMA FinishCallSound ==
    ASSUME Sound(Machine), FinishCall
    PROVE  Sound(Machine')
<1>1. IsRunning({"call"}) /\ "resume" \notin {"call"}
  BY DEF FinishCall, IsC
<1>2. PICK s, g, t, n, c, L, x, a :
          /\ s = Machine /\ Tops(s, g, t, n, c, L, x, a) /\ t = Running.t /\ a = Running /\ a.op \in {"call"}
          /\ n = Len(cstack) /\ L = thread[t]
  BY <1>1, TopsAt
<1>3. /\ IsMachine(s) /\ t \in Threads /\ n \in Nat /\ a.t = t /\ IsSnap(x) /\ IsFrames(x.ci) /\ IsThread(L) /\ HasFields(L)
      /\ Matches(t, L, x, 0) /\ Counts(L.nCcalls, L.baseCcalls, x, 0) /\ s.thread[t] = L /\ s.cstack = c /\ L.ci = x.ci /\ Last(c) = a
      /\ IsStack(c) /\ n \in 1..n
  <2>1. Tops(s, g, t, n, c, L, x, a)
    BY <1>2
  <2>2. s.thread[t] = L /\ s.cstack = c
    BY ONLY <2>1 DEF Tops
  <2> QED
    BY ONLY <2>1, <2>2, TopsFacts
<1>4. PICK x0, a0 : Returning(g, n, c, a, x0, a0)
  BY <1>2 DEF Returning
<1>5. IsSnap(x0) /\ IsFrames(x0.ci) /\ Enters(a0, x0, a, x, n) /\ Stays(a0, x0, a, x) /\ a0.t = t /\ IsAct(a0)
  BY <1>2, <1>4, ReturningFacts
<1>6. x.ci = x0.ci
  BY <1>2, <1>3, <1>5, FramelessEnters
<1>7. /\ x0.count + 1 = x.count /\ x.start = x0.start /\ x.base = x0.base /\ x.jmp = x0.jmp /\ x.clean = x0.clean
      /\ (x.hooks <=> x0.hooks) /\ (x.guarded <=> x0.guarded)
  <2>1. x0.count + 1 = x.count /\ x.start = x0.start /\ x.base = x0.base /\ x.jmp = x0.jmp
    BY <1>2, <1>5 DEF Enters, Stays, CcallsOf, IsTarget, IsSnap
  <2>2. x.clean <=> x0.clean
    BY <1>2, <1>5 DEF Enters
  <2>3. x.clean = x0.clean
    BY <1>3, <1>5, <2>2 DEF IsSnap
  <2> QED
    BY <1>2, <1>5, <2>1, <2>3 DEF Stays
<1>8. PICK m, K, r : m = L.nCcalls - 1 /\ K = [L EXCEPT !.nCcalls = m] /\ r = [s EXCEPT !.thread[t].nCcalls = m]
  OBVIOUS
<1>9. HasFields(K) /\ K.status = L.status /\ K.ci = L.ci /\ K.sizeci = L.sizeci /\ K.nCcalls = m
      /\ K.baseCcalls = L.baseCcalls /\ K.errfunc = L.errfunc /\ K.jmp = L.jmp /\ K.allowhook = L.allowhook /\ K.values = L.values
  BY <1>3, <1>8 DEF HasFields
<1>10. Counts(m, L.baseCcalls, x0, 0) /\ m \in 0..(LUAI_MAXCCALLS + Slack)
  <2>1. x0.count \in Nat /\ x0.start = x.start /\ x0.base = x.base /\ x0.clean = x.clean
    BY <1>5, <1>7 DEF IsSnap
  <2>2. Counts(L.nCcalls - 1, L.baseCcalls, x0, 0) /\ L.nCcalls - 1 \in 0..(LUAI_MAXCCALLS + Slack)
    BY ONLY <1>3, <1>7, <2>1, CountLess
  <2> QED
    BY <1>8, <2>2
<1>11. Matches(t, K, x0, 0)
  <2>1. IsThread(K)
    BY <1>3, <1>9, <1>10 DEF IsThread
  <2>2. Counts(K.nCcalls, K.baseCcalls, x0, 0)
    BY <1>9, <1>10
  <2> QED
    BY <1>3, <1>6, <1>7, <1>9, <2>1, <2>2 DEF Matches
<1>12. r = With(s, t, K, c)
  <2>1. PICK T : T = s.thread
    OBVIOUS
  <2>2. s = [thread |-> T, cstack |-> c] /\ [T EXCEPT ![t] = T[t]] = T /\ L = T[t]
    BY <1>3, <2>1, Parts
  <2> QED
    BY ONLY <1>8, <2>2 DEF With
<1>13. Sound(Pop(r))
  BY ONLY <1>2, <1>4, <1>11, <1>12, PopSound
<1>14. Becomes(Pop(r))
  <2>1. PICK o : o = s.thread[t].nCcalls
    OBVIOUS
  <2>2. Becomes(Pop([s EXCEPT !.thread[t].nCcalls = @ - 1]))
    BY ONLY <1>2, FinishCall, Zenon DEF FinishCall
  <2>3. m = s.thread[t].nCcalls - 1
    BY ONLY <1>3, <1>8
  <2>4. [s EXCEPT !.thread[t].nCcalls = @ - 1] = r
    BY ONLY <1>8, <2>3, Zenon
  <2> QED
    BY ONLY <2>2, <2>4, Zenon
<1> QED
  BY <1>13, <1>14, StepSound

(* luaD_pcall is over. *)
LEMMA FinishPcallSound ==
    ASSUME Sound(Machine), FinishPcall
    PROVE  Sound(Machine')
<1>1. IsRunning({"pcall"}) /\ "resume" \notin {"pcall"}
  BY DEF FinishPcall, IsC
<1>2. PICK s, g, t, n, c, L, x, a :
          /\ s = Machine /\ Tops(s, g, t, n, c, L, x, a) /\ t = Running.t /\ a = Running /\ a.op \in {"pcall"}
          /\ n = Len(cstack) /\ L = thread[t]
  BY <1>1, TopsAt
<1>3. /\ IsMachine(s) /\ t \in Threads /\ n \in Nat /\ a.t = t /\ IsSnap(x) /\ IsFrames(x.ci) /\ IsThread(L) /\ HasFields(L)
      /\ Matches(t, L, x, 0) /\ Counts(L.nCcalls, L.baseCcalls, x, 0) /\ s.thread[t] = L /\ s.cstack = c /\ L.ci = x.ci /\ Last(c) = a
      /\ IsStack(c) /\ n \in 1..n
  <2>1. Tops(s, g, t, n, c, L, x, a)
    BY <1>2
  <2>2. s.thread[t] = L /\ s.cstack = c
    BY ONLY <2>1 DEF Tops
  <2> QED
    BY ONLY <2>1, <2>2, TopsFacts
<1>4. PICK x0, a0 : Returning(g, n, c, a, x0, a0)
  BY <1>2 DEF Returning
<1>5. IsSnap(x0) /\ IsFrames(x0.ci) /\ Enters(a0, x0, a, x, n) /\ Stays(a0, x0, a, x) /\ a0.t = t /\ IsAct(a0)
  BY <1>2, <1>4, ReturningFacts
<1>6. x.ci = x0.ci
  BY <1>2, <1>3, <1>5, FramelessEnters
<1>7. /\ x.count = x0.count /\ x.start = x0.start /\ x.base = x0.base
      /\ (x.clean <=> x0.clean) /\ (x.hooks <=> x0.hooks) /\ Saved(a, x0)
  <2>1. x.count = x0.count /\ x.start = x0.start /\ x.base = x0.base
    BY <1>2, <1>5 DEF Enters, Stays, CcallsOf, IsSnap
  <2> QED
    BY <1>2, <1>5, <2>1 DEF Enters, Stays
<1>8. PICK p, f, K, r : /\ p = a.previous /\ f = a.errfunc /\ K = [L EXCEPT !.jmp = p, !.errfunc = f]
                        /\ r = [s EXCEPT !.thread[t].jmp = p, !.thread[t].errfunc = f]
  OBVIOUS
<1>9. HasFields(K) /\ K.status = L.status /\ K.ci = L.ci /\ K.sizeci = L.sizeci /\ K.nCcalls = L.nCcalls
      /\ K.baseCcalls = L.baseCcalls /\ K.errfunc = f /\ K.jmp = p /\ K.allowhook = L.allowhook /\ K.values = L.values
  BY <1>3, <1>8 DEF HasFields
<1>10. Matches(t, K, x0, 0)
  <2>1. p = x0.jmp /\ p \in Nat /\ f \in BOOLEAN /\ (f => x0.guarded)
    BY <1>5, <1>7, <1>8 DEF Saved, IsSnap
  <2>2. IsThread(K)
    BY <1>3, <1>9, <2>1 DEF IsThread
  <2>3. Counts(K.nCcalls, K.baseCcalls, x0, 0)
    BY <1>3, <1>7, <1>9 DEF Counts
  <2> QED
    BY <1>3, <1>6, <1>7, <1>9, <2>1, <2>2, <2>3 DEF Matches
<1>11. r = With(s, t, K, c)
  <2>1. PICK T, J, q : T = s.thread /\ J = [L EXCEPT !.jmp = p] /\ q = [s EXCEPT !.thread[t].jmp = p]
    OBVIOUS
  <2>2. s = [thread |-> T, cstack |-> c] /\ [T EXCEPT ![t] = T[t]] = T /\ L = T[t]
    BY <1>3, <2>1, Parts
  <2>3. t \in DOMAIN T
    BY <1>3, <2>1 DEF IsMachine
  <2>4. PICK U : U = [T EXCEPT ![t] = J]
    OBVIOUS
  <2>5. q = [thread |-> U, cstack |-> c]
    BY ONLY <2>1, <2>2, <2>4
  <2>6. U[t] = J
    BY ONLY <2>3, <2>4
  <2>7. [J EXCEPT !.errfunc = f] = K
    BY ONLY <1>3, <1>8, <2>1 DEF HasFields
  <2>8. r = [q EXCEPT !.thread[t].errfunc = f]
    BY ONLY <1>8, <2>1, Zenon
  <2>9. [q EXCEPT !.thread[t].errfunc = f] = [thread |-> [U EXCEPT ![t] = K], cstack |-> c]
    BY ONLY <2>5, <2>6, <2>7
  <2>10. [U EXCEPT ![t] = K] = [T EXCEPT ![t] = K]
    BY ONLY <2>4
  <2> QED
    BY ONLY <2>1, <2>8, <2>9, <2>10 DEF With
<1>12. Sound(Pop(r))
  BY ONLY <1>2, <1>4, <1>10, <1>11, PopSound
<1>13. Becomes(Pop(r))
  BY ONLY <1>2, <1>3, <1>8, FinishPcall, Zenon DEF FinishPcall, FinishedPcall
<1> QED
  BY <1>12, <1>13, StepSound

(* luaG_errormsg calls the error function. *)
LEMMA CallHandlerSound ==
    ASSUME Sound(Machine), NEW fn \in Kinds, CallHandler(fn)
    PROVE  Sound(Machine')
<1>1. IsRunning({"error"}) /\ "resume" \notin {"error"}
  BY DEF CallHandler, IsC
<1>2. PICK s, g, t, n, c, L, x, a :
          /\ s = Machine /\ Tops(s, g, t, n, c, L, x, a) /\ t = Running.t /\ a = Running /\ a.op \in {"error"}
          /\ n = Len(cstack) /\ L = thread[t]
  BY <1>1, TopsAt
<1>3. /\ IsMachine(s) /\ t \in Threads /\ n \in Nat /\ a.t = t /\ IsSnap(x) /\ IsFrames(x.ci) /\ IsThread(L) /\ HasFields(L)
      /\ Matches(t, L, x, 0) /\ Counts(L.nCcalls, L.baseCcalls, x, 0) /\ s.thread[t] = L /\ s.cstack = c /\ L.ci = x.ci /\ Last(c) = a
      /\ IsStack(c) /\ n \in 1..n
  <2>1. Tops(s, g, t, n, c, L, x, a)
    BY <1>2
  <2>2. s.thread[t] = L /\ s.cstack = c
    BY ONLY <2>1 DEF Tops
  <2> QED
    BY ONLY <2>1, <2>2, TopsFacts
<1>4. PICK x0, a0 : Returning(g, n, c, a, x0, a0)
  BY <1>2 DEF Returning
<1>5. IsSnap(x0) /\ IsFrames(x0.ci) /\ Enters(a0, x0, a, x, n) /\ Stays(a0, x0, a, x) /\ a0.t = t /\ IsAct(a0)
  BY <1>2, <1>4, ReturningFacts
<1>6. x.ci = x0.ci /\ x.clean = FALSE /\ x.count = x0.count /\ x.start = x0.start /\ x.base = x0.base /\ x.jmp = x0.jmp
      /\ x.hooks = x0.hooks /\ x.guarded = x0.guarded
  <2>1. x.ci = x0.ci
    BY <1>2, <1>3, <1>5, FramelessEnters
  <2>2. x.count = x0.count /\ x.start = x0.start /\ x.base = x0.base /\ x.jmp = x0.jmp
    BY <1>2, <1>5 DEF Enters, Stays, CcallsOf, IsTarget, IsSnap
  <2>3. ~x.clean /\ (x.hooks <=> x0.hooks) /\ (x.guarded <=> x0.guarded)
    BY <1>2, <1>5 DEF Enters, Stays
  <2> QED
    BY <1>3, <1>5, <2>1, <2>2, <2>3 DEF IsSnap
<1>7. PICK b, C : b = [op |-> "handler", t |-> t] /\ C = Append(Front(c), b)
  OBVIOUS
<1>8. IsAct(b) /\ b.op = "handler" /\ b.t = t
  BY <1>3, <1>7 DEF IsAct
<1>9. Follows(a0, x0, b, x0.ci)
  BY <1>5, <1>8, PlainFollows
<1>10. PICK y : y = Above(x0, b, x0.ci, n)
  OBVIOUS
<1>11. Alike(y, x) /\ y.ci = x.ci
  <2>1. y.clean = FALSE /\ y.hooks = x0.hooks /\ y.guarded = x0.guarded
    BY <1>5, <1>8, <1>10 DEF Above, IsSnap
  <2>2. y.count = x0.count /\ y.start = x0.start /\ y.base = x0.base /\ y.jmp = x0.jmp /\ y.ci = x0.ci
    BY <1>5, <1>8, <1>10 DEF Above, CcallsOf, IsTarget, IsSnap
  <2> QED
    BY <1>6, <2>1, <2>2 DEF Alike
<1>12. Matches(t, L, y, 0)
  BY <1>3, <1>11, AlikeMatches
<1>13. PICK r : r = Push(Pop(s), b)
  OBVIOUS
<1>14. r = With(s, t, L, C)
  <2>1. PICK T, F : T = s.thread /\ F = Front(c)
    OBVIOUS
  <2>2. s = [thread |-> T, cstack |-> c] /\ [T EXCEPT ![t] = T[t]] = T /\ L = T[t]
    BY <1>3, <2>1, Parts
  <2>3. Pop(s) = [thread |-> T, cstack |-> F]
    BY ONLY <2>1, <2>2 DEF Pop
  <2>4. PICK q : q = Pop(s)
    OBVIOUS
  <2>5. Push(q, b) = [thread |-> T, cstack |-> C]
    <3>1. Push(q, b) = [thread |-> T, cstack |-> Append(F, b)]
      BY ONLY <2>3, <2>4, PushIs
    <3> QED
      BY ONLY <1>7, <2>1, <3>1
  <2>6. With(s, t, L, C) = [thread |-> T, cstack |-> C]
    BY ONLY <2>1, <2>2 DEF With
  <2> QED
    BY ONLY <1>13, <2>4, <2>5, <2>6
<1>15. PICK h : At(r, h, t, 0)
  <2>1. a.op # "body" /\ (C = [c EXCEPT ![n] = b] \/ C = Append(Front(c), b)) /\ Matches(t, L, Above(x0, b, x0.ci, n), 0)
    BY <1>2, <1>7, <1>10, <1>12
  <2>2. \E h : At(With(s, t, L, C), h, t, 0)
    BY ONLY <1>2, <1>4, <1>9, <2>1, TurnAt
  <2> QED
    BY <1>14, <2>2
<1>16. Sound(luaD_call(r, t, fn))
  BY <1>15, CallSound
<1> QED
  BY <1>2, <1>7, <1>13, <1>16, StepSound DEF CallHandler

-----------------------------------------------------------------------------
(* The parser. *)

(* lua_load protects the parser. *)
LEMMA LuaLoadSound ==
    ASSUME Sound(Machine), lua_load
    PROVE  Sound(Machine')
<1>1. IsRunning({"body", "hook"}) /\ "resume" \notin {"body", "hook"}
  BY DEF lua_load, IsC
<1>2. PICK s, g, t : s = Machine /\ t = Running.t /\ At(s, g, t, 0) /\ s.cstack = cstack /\ s.thread = thread
                     /\ cstack[Len(cstack)] = Running /\ Running.op \in {"body", "hook"}
  BY <1>1, RunningAt
<1>3. PICK ef, r : ef = thread[t].errfunc /\ r = luaD_pcall(s, t, ef)
  OBVIOUS
<1>4. ef \in BOOLEAN
  <2>1. Matches(t, s.thread[t], g[Len(s.cstack)], 0)
    BY <1>2, AtLive
  <2> QED
    BY <1>2, <1>3, <2>1 DEF Matches, IsThread
<1>5. (\E h : At(r, h, t, 0)) /\ r.cstack[Len(r.cstack)].op = "pcall"
  <2>1. s.cstack[Len(s.cstack)].op \in {"body", "hook"}
    BY <1>2
  <2> QED
    BY <1>2, <1>3, <1>4, <2>1, PcallAt
<1>6. PICK h, n, c, L, x, a : Tops(r, h, t, n, c, L, x, a) /\ a.op = "pcall"
  BY <1>5 DEF Tops
<1>7. /\ n \in Nat /\ t \in Threads /\ a.t = t /\ IsSnap(x) /\ IsFrames(x.ci) /\ Matches(t, L, x, 0) /\ IsMachine(r)
  BY ONLY <1>6, TopsFacts
<1>8. PICK zero, b : zero = 0 /\ b = [op |-> "parser", t |-> t, n |-> zero]
  OBVIOUS
<1>9. IsAct(b) /\ b.op = "parser" /\ b.t = t /\ b.n = 0
  BY <1>7, <1>8 DEF IsAct
<1>10. Follows(a, x, b, x.ci)
  <2>1. FramesOf(b) = 0 /\ Fits(a.op, b.op)
    BY <1>6, <1>9 DEF FramesOf, Fits
  <2>2. Extends(x.ci, x.ci, FramesOf(b), KindOf(b))
    BY <1>7, <2>1, ExtendsSame
  <2> QED
    BY <1>7, <1>8, <1>9, <2>1, <2>2 DEF Follows
<1>11. PICK y : y = Above(x, b, x.ci, n + 1)
  OBVIOUS
<1>12. Alike(y, x) /\ y.ci = x.ci
  <2>1. y.clean = x.clean /\ y.hooks = x.hooks /\ y.guarded = x.guarded
    BY <1>7, <1>9, <1>11 DEF Above, IsSnap
  <2>2. y.count = x.count /\ y.start = x.start /\ y.base = x.base /\ y.jmp = x.jmp /\ y.ci = x.ci
    BY <1>7, <1>9, <1>11 DEF Above, CcallsOf, IsTarget, IsSnap
  <2> QED
    BY <2>1, <2>2 DEF Alike
<1>13. Matches(t, L, y, 0)
  BY <1>7, <1>12, AlikeMatches
<1>14. r = With(r, t, L, c)
  <2>1. L = r.thread[t] /\ c = r.cstack
    BY ONLY <1>6 DEF Tops
  <2> QED
    BY <1>7, <2>1, WithFacts
<1>15. \E k : At(Push(r, b), k, t, 0)
  <2>1. Matches(t, L, Above(x, b, x.ci, n + 1), 0)
    BY <1>11, <1>13
  <2> QED
    BY ONLY <1>6, <1>10, <1>14, <2>1, PushAt
<1>16. Sound(Push(r, b))
  BY <1>15, AtSound
<1> QED
  BY <1>2, <1>3, <1>8, <1>16, StepSound DEF lua_load

(* The parser goes a level deeper, or raises a syntax error. *)
LEMMA EnterLevelSound ==
    ASSUME Sound(Machine), enterlevel
    PROVE  Sound(Machine')
<1>1. IsRunning({"parser"}) /\ "resume" \notin {"parser"}
  BY DEF enterlevel, IsC
<1>2. PICK s, g, t, n, c, L, x, a :
          /\ s = Machine /\ Tops(s, g, t, n, c, L, x, a) /\ t = Running.t /\ a = Running /\ a.op \in {"parser"}
          /\ n = Len(cstack) /\ L = thread[t]
  BY <1>1, TopsAt
<1>3. /\ IsMachine(s) /\ t \in Threads /\ n \in Nat /\ a.t = t /\ IsSnap(x) /\ IsFrames(x.ci) /\ IsThread(L) /\ HasFields(L)
      /\ Matches(t, L, x, 0) /\ Counts(L.nCcalls, L.baseCcalls, x, 0) /\ s.thread[t] = L /\ s.cstack = c /\ L.ci = x.ci /\ Last(c) = a
      /\ IsStack(c) /\ n \in 1..n
  <2>1. Tops(s, g, t, n, c, L, x, a)
    BY <1>2
  <2>2. s.thread[t] = L /\ s.cstack = c
    BY ONLY <2>1 DEF Tops
  <2> QED
    BY ONLY <2>1, <2>2, TopsFacts
<1>4. PICK x0, a0 : Returning(g, n, c, a, x0, a0)
  BY <1>2 DEF Returning
<1>5. IsSnap(x0) /\ IsFrames(x0.ci) /\ Enters(a0, x0, a, x, n) /\ Stays(a0, x0, a, x) /\ a0.t = t /\ IsAct(a0)
  BY <1>2, <1>4, ReturningFacts
<1>6. x.ci = x0.ci /\ x.count = x0.count + a.n /\ x.start = x0.start /\ x.base = x0.base /\ x.jmp = x0.jmp
      /\ x.clean = x0.clean /\ x.hooks = x0.hooks /\ x.guarded = x0.guarded /\ a.n \in Nat
      /\ a = [op |-> "parser", t |-> t, n |-> a.n]
  <2>1. x.ci = x0.ci
    BY <1>2, <1>3, <1>5, FramelessEnters
  <2>2. x.count = x0.count + a.n /\ x.start = x0.start /\ x.base = x0.base /\ x.jmp = x0.jmp /\ a.n \in Nat
        /\ a = [op |-> "parser", t |-> t, n |-> a.n]
    BY <1>2, <1>3, <1>5 DEF Enters, Stays, CcallsOf, IsTarget, IsSnap
  <2>3. (x.clean <=> x0.clean) /\ (x.hooks <=> x0.hooks) /\ (x.guarded <=> x0.guarded)
    BY <1>2, <1>5 DEF Enters, Stays
  <2> QED
    BY <1>3, <1>5, <2>1, <2>2, <2>3 DEF IsSnap
<1>7. PICK m, i, K, r : m = L.nCcalls + 1 /\ i = a.n + 1 /\ K = [L EXCEPT !.nCcalls = m] /\ r = [s EXCEPT !.thread[t].nCcalls = m]
  OBVIOUS
<1>8. HasFields(K) /\ K.status = L.status /\ K.ci = L.ci /\ K.sizeci = L.sizeci /\ K.nCcalls = m
      /\ K.baseCcalls = L.baseCcalls /\ K.errfunc = L.errfunc /\ K.jmp = L.jmp /\ K.allowhook = L.allowhook /\ K.values = L.values
  BY <1>3, <1>7 DEF HasFields
<1>9. r = With(s, t, K, c)
  <2>1. PICK T : T = s.thread
    OBVIOUS
  <2>2. s = [thread |-> T, cstack |-> c] /\ [T EXCEPT ![t] = T[t]] = T /\ L = T[t]
    BY <1>3, <2>1, Parts
  <2> QED
    BY ONLY <1>7, <2>2 DEF With
<1>10. r.cstack = c /\ r.thread[t] = K
  BY ONLY <1>3, <1>9, WithFacts
<1>11. Counts(m, L.baseCcalls, x, 1) /\ m \in 0..(LUAI_MAXCCALLS + Slack) /\ m \in Nat
       /\ \A y : (/\ y.count = x.count + 1 /\ y.start = x.start /\ y.base = x.base /\ y.clean = x.clean
                  /\ m < LUAI_MAXCCALLS + Slack) => Counts(m, L.baseCcalls, y, 0)
  <2>1. PICK nC, b : nC = L.nCcalls /\ b = L.baseCcalls
    OBVIOUS
  <2>2. /\ Counts(nC + 1, b, x, 1) /\ nC + 1 \in 1..(LUAI_MAXCCALLS + Slack)
        /\ \A y : (/\ y.count = x.count + 1 /\ y.start = x.start /\ y.base = x.base /\ y.clean = x.clean
                   /\ nC + 1 < LUAI_MAXCCALLS + Slack) => Counts(nC + 1, b, y, 0)
    BY ONLY <1>3, <2>1, CountMore
  <2>3. \A k \in 1..(LUAI_MAXCCALLS + Slack) : k \in 0..(LUAI_MAXCCALLS + Slack) /\ k \in Nat
    BY LimitsAssumption DEF LimitsAssumption
  <2> QED
    BY ONLY <1>7, <2>1, <2>2, <2>3
<1>12. IsThread(K)
  BY <1>3, <1>8, <1>11 DEF IsThread
<1>13. CASE m > LUAI_MAXCCALLS
  <2>1. PICK code : code = "errsyntax"
    OBVIOUS
  <2>2. code \in FailureCodes
    BY <2>1 DEF FailureCodes
  <2>3. Matches(t, K, x, 1)
    <3>1. Counts(K.nCcalls, K.baseCcalls, x, 1)
      BY <1>8, <1>11
    <3> QED
      BY <1>3, <1>8, <1>12, <3>1 DEF Matches
  <2>4. At(r, g, t, 1)
    <3>1. Live(s, g, t) /\ n = Len(s.cstack) /\ x = g[n] /\ c = s.cstack
      <4>1. Tops(s, g, t, n, c, L, x, a)
        BY <1>2
      <4> QED
        BY ONLY <4>1, TopsFacts, ZenonT(60) DEF Tops
    <3> QED
      BY ONLY <1>9, <2>3, <3>1, AtSame
  <2>5. Sound(luaD_throw(r, t, code))
    <3>1. Live(r, g, t) /\ Matches(t, r.thread[t], g[Len(r.cstack)], 1) /\ 1 \in {0, 1}
      BY <2>4, AtLive
    <3> QED
      BY ONLY <2>2, <3>1, ThrowSound
  <2>6. Becomes(luaD_throw(r, t, code))
    BY <1>2, <1>7, <1>13, <2>1 DEF enterlevel
  <2> QED
    BY <2>5, <2>6, StepSound
<1>14. CASE ~(m > LUAI_MAXCCALLS)
  <2>1. PICK b : b = [op |-> "parser", t |-> t, n |-> i]
    OBVIOUS
  <2>2. IsAct(b) /\ b.op = "parser" /\ b.t = t /\ b.n = i
    BY <1>3, <2>1 DEF IsAct
  <2>3. Follows(a0, x0, b, x0.ci)
    <3>1. FramesOf(b) = 0 /\ Fits(a0.op, b.op)
      <4>1. Fits(a0.op, a.op)
        BY <1>2, <1>4, ReturningFacts
      <4> QED
        BY <1>2, <2>2, <4>1 DEF FramesOf, Fits
    <3>2. Extends(x0.ci, x0.ci, FramesOf(b), KindOf(b))
      BY <1>5, <3>1, ExtendsSame
    <3> QED
      BY <1>5, <1>6, <1>7, <2>2, <2>1, <3>1, <3>2 DEF Follows
  <2>4. PICK y : y = Above(x0, b, x0.ci, n)
    OBVIOUS
  <2>5. y.count = x0.count + i /\ y.start = x.start /\ y.base = x.base /\ y.jmp = x.jmp /\ y.ci = x.ci
        /\ y.clean = x.clean /\ y.hooks = x.hooks /\ y.guarded = x.guarded
    <3>1. y.clean = x0.clean /\ y.hooks = x0.hooks /\ y.guarded = x0.guarded
      BY <1>5, <2>2, <2>4 DEF Above, IsSnap
    <3>2. y.count = x0.count + i /\ y.start = x0.start /\ y.base = x0.base /\ y.jmp = x0.jmp /\ y.ci = x0.ci
      BY <1>5, <2>2, <2>4 DEF Above, CcallsOf, IsTarget, IsSnap
    <3> QED
      BY <1>6, <3>1, <3>2
  <2>6. Matches(t, K, y, 0)
    <3>1. y.count = x.count + 1
      <4>1. x0.count \in Nat
        BY <1>5 DEF IsSnap
      <4> QED
        BY <1>6, <1>7, <2>5, <4>1
    <3>2. m < LUAI_MAXCCALLS + Slack
      BY <1>11, <1>14, LimitsAssumption DEF LimitsAssumption
    <3>3. Counts(K.nCcalls, K.baseCcalls, y, 0)
      BY <1>8, <1>11, <2>5, <3>1, <3>2
    <3> QED
      BY <1>3, <1>8, <1>12, <2>5, <3>3 DEF Matches
  <2>7. PICK C : C = Leveled(c, n, "parser", t, i)
    OBVIOUS
  <2>8. \E h : At(With(s, t, K, C), h, t, 0)
    <3>1. a.op # "body" /\ (C = [c EXCEPT ![n] = b] \/ C = Append(Front(c), b)) /\ Matches(t, K, Above(x0, b, x0.ci, n), 0)
      BY <1>2, <2>1, <2>4, <2>6, <2>7 DEF Leveled
    <3> QED
      BY ONLY <1>2, <1>4, <2>3, <3>1, TurnAt
  <2>9. WithLevel(r, n, i) = With(s, t, K, C)
    <3>1. HasLevel(c, n, "parser", t)
      BY <1>2, <1>6 DEF HasLevel, Tops
    <3> QED
      BY ONLY <1>9, <2>7, <3>1, WithLevelIs
  <2>10. Becomes(WithLevel(r, n, i))
    <3>1. Becomes([r EXCEPT !.cstack[Len(cstack)].n = @ + 1])
      BY <1>2, <1>7, <1>14 DEF enterlevel
    <3>2. r.cstack[n].n + 1 = i /\ n = Len(cstack)
      BY <1>2, <1>7, <1>10 DEF Tops
    <3>3. [r EXCEPT !.cstack[n].n = @ + 1] = WithLevel(r, n, i)
      BY ONLY <3>2, Zenon DEF WithLevel
    <3> QED
      BY ONLY <3>1, <3>2, <3>3, Zenon
  <2>11. Sound(WithLevel(r, n, i))
    BY <2>8, <2>9, AtSound
  <2> QED
    BY <2>10, <2>11, StepSound
<1> QED
  BY <1>13, <1>14

(* The parser leaves a level. *)
LEMMA LeaveLevelSound ==
    ASSUME Sound(Machine), leavelevel
    PROVE  Sound(Machine')
<1>1. IsRunning({"parser"}) /\ "resume" \notin {"parser"}
  BY DEF leavelevel, IsC
<1>2. PICK s, g, t, n, c, L, x, a :
          /\ s = Machine /\ Tops(s, g, t, n, c, L, x, a) /\ t = Running.t /\ a = Running /\ a.op \in {"parser"}
          /\ n = Len(cstack) /\ L = thread[t]
  BY <1>1, TopsAt
<1>3. /\ IsMachine(s) /\ t \in Threads /\ n \in Nat /\ a.t = t /\ IsSnap(x) /\ IsFrames(x.ci) /\ IsThread(L) /\ HasFields(L)
      /\ Matches(t, L, x, 0) /\ Counts(L.nCcalls, L.baseCcalls, x, 0) /\ s.thread[t] = L /\ s.cstack = c /\ L.ci = x.ci /\ Last(c) = a
      /\ IsStack(c) /\ n \in 1..n
  <2>1. Tops(s, g, t, n, c, L, x, a)
    BY <1>2
  <2>2. s.thread[t] = L /\ s.cstack = c
    BY ONLY <2>1 DEF Tops
  <2> QED
    BY ONLY <2>1, <2>2, TopsFacts
<1>4. PICK x0, a0 : Returning(g, n, c, a, x0, a0)
  BY <1>2 DEF Returning
<1>5. IsSnap(x0) /\ IsFrames(x0.ci) /\ Enters(a0, x0, a, x, n) /\ Stays(a0, x0, a, x) /\ a0.t = t /\ IsAct(a0)
  BY <1>2, <1>4, ReturningFacts
<1>6. x.ci = x0.ci /\ x.count = x0.count + a.n /\ x.start = x0.start /\ x.base = x0.base /\ x.jmp = x0.jmp
      /\ x.clean = x0.clean /\ x.hooks = x0.hooks /\ x.guarded = x0.guarded /\ a.n \in Nat
      /\ a = [op |-> "parser", t |-> t, n |-> a.n]
  <2>1. x.ci = x0.ci
    BY <1>2, <1>3, <1>5, FramelessEnters
  <2>2. x.count = x0.count + a.n /\ x.start = x0.start /\ x.base = x0.base /\ x.jmp = x0.jmp /\ a.n \in Nat
        /\ a = [op |-> "parser", t |-> t, n |-> a.n]
    BY <1>2, <1>3, <1>5 DEF Enters, Stays, CcallsOf, IsTarget, IsSnap
  <2>3. (x.clean <=> x0.clean) /\ (x.hooks <=> x0.hooks) /\ (x.guarded <=> x0.guarded)
    BY <1>2, <1>5 DEF Enters, Stays
  <2> QED
    BY <1>3, <1>5, <2>1, <2>2, <2>3 DEF IsSnap
<1>7. PICK m, i, K, r : m = L.nCcalls - 1 /\ i = a.n - 1 /\ K = [L EXCEPT !.nCcalls = m] /\ r = [s EXCEPT !.thread[t].nCcalls = m]
  OBVIOUS
<1>8. HasFields(K) /\ K.status = L.status /\ K.ci = L.ci /\ K.sizeci = L.sizeci /\ K.nCcalls = m
      /\ K.baseCcalls = L.baseCcalls /\ K.errfunc = L.errfunc /\ K.jmp = L.jmp /\ K.allowhook = L.allowhook /\ K.values = L.values
  BY <1>3, <1>7 DEF HasFields
<1>9. r = With(s, t, K, c)
  <2>1. PICK T : T = s.thread
    OBVIOUS
  <2>2. s = [thread |-> T, cstack |-> c] /\ [T EXCEPT ![t] = T[t]] = T /\ L = T[t]
    BY <1>3, <2>1, Parts
  <2> QED
    BY ONLY <1>7, <2>2 DEF With
<1>10. r.cstack = c /\ r.thread[t] = K
  BY ONLY <1>3, <1>9, WithFacts
<1>11. i \in Nat /\ i + 1 = a.n
  <2>1. a.n > 0
    BY <1>2 DEF leavelevel
  <2> QED
    BY <1>6, <1>7, <2>1
<1>12. PICK b : b = [op |-> "parser", t |-> t, n |-> i]
  OBVIOUS
<1>13. IsAct(b) /\ b.op = "parser" /\ b.t = t /\ b.n = i
  BY <1>3, <1>12 DEF IsAct
<1>14. Follows(a0, x0, b, x0.ci)
  <2>1. FramesOf(b) = 0 /\ Fits(a0.op, b.op)
    <3>1. Fits(a0.op, a.op)
      BY <1>2, <1>4, ReturningFacts
    <3> QED
      BY <1>2, <1>13, <3>1 DEF FramesOf, Fits
  <2>2. Extends(x0.ci, x0.ci, FramesOf(b), KindOf(b))
    BY <1>5, <2>1, ExtendsSame
  <2> QED
    BY <1>5, <1>11, <1>12, <1>13, <2>1, <2>2 DEF Follows
<1>15. PICK y : y = Above(x0, b, x0.ci, n)
  OBVIOUS
<1>16. y.count = x0.count + i /\ y.start = x.start /\ y.base = x.base /\ y.jmp = x.jmp /\ y.ci = x.ci
      /\ y.clean = x.clean /\ y.hooks = x.hooks /\ y.guarded = x.guarded
  <2>1. y.clean = x0.clean /\ y.hooks = x0.hooks /\ y.guarded = x0.guarded
    BY <1>5, <1>13, <1>15 DEF Above, IsSnap
  <2>2. y.count = x0.count + i /\ y.start = x0.start /\ y.base = x0.base /\ y.jmp = x0.jmp /\ y.ci = x0.ci
    BY <1>5, <1>13, <1>15 DEF Above, CcallsOf, IsTarget, IsSnap
  <2> QED
    BY <1>6, <2>1, <2>2
<1>17. y.count \in Nat /\ y.count + 1 = x.count
  <2>1. x0.count \in Nat
    BY <1>5 DEF IsSnap
  <2> QED
    BY <1>6, <1>11, <1>16, <2>1
<1>18. Counts(m, L.baseCcalls, y, 0) /\ m \in 0..(LUAI_MAXCCALLS + Slack)
  <2>1. Counts(L.nCcalls - 1, L.baseCcalls, y, 0) /\ L.nCcalls - 1 \in 0..(LUAI_MAXCCALLS + Slack)
    BY ONLY <1>3, <1>16, <1>17, CountLess
  <2> QED
    BY <1>7, <2>1
<1>19. Matches(t, K, y, 0)
  <2>1. IsThread(K)
    BY <1>3, <1>8, <1>18 DEF IsThread
  <2>2. Counts(K.nCcalls, K.baseCcalls, y, 0)
    BY <1>8, <1>18
  <2> QED
    BY <1>3, <1>8, <1>16, <2>1, <2>2 DEF Matches
<1>20. PICK C : C = Leveled(c, n, "parser", t, i)
  OBVIOUS
<1>21. \E h : At(With(s, t, K, C), h, t, 0)
  <2>1. a.op # "body" /\ (C = [c EXCEPT ![n] = b] \/ C = Append(Front(c), b)) /\ Matches(t, K, Above(x0, b, x0.ci, n), 0)
    BY <1>2, <1>12, <1>15, <1>19, <1>20 DEF Leveled
  <2> QED
    BY ONLY <1>2, <1>4, <1>14, <2>1, TurnAt
<1>22. WithLevel(r, n, i) = With(s, t, K, C)
  <2>1. HasLevel(c, n, "parser", t)
    BY <1>2, <1>6 DEF HasLevel, Tops
  <2> QED
    BY ONLY <1>9, <1>20, <2>1, WithLevelIs
<1>23. Becomes(WithLevel(r, n, i))
  <2>1. Becomes([Machine EXCEPT !.thread[Running.t].nCcalls = @ - 1, !.cstack[Len(cstack)].n = @ - 1])
    BY Zenon DEF leavelevel
  <2>2. Becomes([s EXCEPT !.thread[t].nCcalls = @ - 1, !.cstack[n].n = @ - 1])
    BY ONLY <1>2, <2>1, Zenon
  <2>3. [s EXCEPT !.thread[t].nCcalls = @ - 1] = r
    <3>1. s.thread[t].nCcalls - 1 = m
      BY ONLY <1>3, <1>7
    <3> QED
      BY ONLY <1>7, <3>1, Zenon
  <2>4. [[s EXCEPT !.thread[t].nCcalls = @ - 1] EXCEPT !.cstack[n].n = @ - 1] = WithLevel(r, n, i)
    <3>1. r.cstack[n].n - 1 = i
      BY <1>2, <1>7, <1>10 DEF Tops
    <3>2. [r EXCEPT !.cstack[n].n = @ - 1] = WithLevel(r, n, i)
      BY ONLY <3>1, Zenon DEF WithLevel
    <3> QED
      BY ONLY <2>3, <3>2, Zenon
  <2>5. [s EXCEPT !.thread[t].nCcalls = @ - 1, !.cstack[n].n = @ - 1]
            = [[s EXCEPT !.thread[t].nCcalls = @ - 1] EXCEPT !.cstack[n].n = @ - 1]
    BY Zenon
  <2> QED
    BY ONLY <2>2, <2>4, <2>5, Zenon
<1>24. Sound(WithLevel(r, n, i))
  BY <1>21, <1>22, AtSound
<1> QED
  BY <1>23, <1>24, StepSound

(* The parser is done, and lua_load goes on in luaD_pcall. *)
LEMMA ParserReturnSound ==
    ASSUME Sound(Machine), ParserReturn
    PROVE  Sound(Machine')
<1>1. IsRunning({"parser"}) /\ "resume" \notin {"parser"}
  BY DEF ParserReturn, IsC
<1>2. PICK s, g, t, n, c, L, x, a :
          /\ s = Machine /\ Tops(s, g, t, n, c, L, x, a) /\ t = Running.t /\ a = Running /\ a.op \in {"parser"}
          /\ n = Len(cstack) /\ L = thread[t]
  BY <1>1, TopsAt
<1>3. /\ IsMachine(s) /\ t \in Threads /\ n \in Nat /\ a.t = t /\ IsSnap(x) /\ IsFrames(x.ci) /\ IsThread(L) /\ HasFields(L)
      /\ Matches(t, L, x, 0) /\ Counts(L.nCcalls, L.baseCcalls, x, 0) /\ s.thread[t] = L /\ s.cstack = c /\ L.ci = x.ci /\ Last(c) = a
      /\ IsStack(c) /\ n \in 1..n
  <2>1. Tops(s, g, t, n, c, L, x, a)
    BY <1>2
  <2>2. s.thread[t] = L /\ s.cstack = c
    BY ONLY <2>1 DEF Tops
  <2> QED
    BY ONLY <2>1, <2>2, TopsFacts
<1>4. PICK x0, a0 : Returning(g, n, c, a, x0, a0)
  BY <1>2 DEF Returning
<1>5. IsSnap(x0) /\ IsFrames(x0.ci) /\ Enters(a0, x0, a, x, n) /\ Stays(a0, x0, a, x) /\ a0.t = t /\ IsAct(a0)
  BY <1>2, <1>4, ReturningFacts
<1>6. x.ci = x0.ci /\ x.count = x0.count + a.n /\ x.start = x0.start /\ x.base = x0.base /\ x.jmp = x0.jmp
      /\ x.clean = x0.clean /\ x.hooks = x0.hooks /\ x.guarded = x0.guarded /\ a.n \in Nat
      /\ a = [op |-> "parser", t |-> t, n |-> a.n]
  <2>1. x.ci = x0.ci
    BY <1>2, <1>3, <1>5, FramelessEnters
  <2>2. x.count = x0.count + a.n /\ x.start = x0.start /\ x.base = x0.base /\ x.jmp = x0.jmp /\ a.n \in Nat
        /\ a = [op |-> "parser", t |-> t, n |-> a.n]
    BY <1>2, <1>3, <1>5 DEF Enters, Stays, CcallsOf, IsTarget, IsSnap
  <2>3. (x.clean <=> x0.clean) /\ (x.hooks <=> x0.hooks) /\ (x.guarded <=> x0.guarded)
    BY <1>2, <1>5 DEF Enters, Stays
  <2> QED
    BY <1>3, <1>5, <2>1, <2>2, <2>3 DEF IsSnap
<1>7. a.n = 0
  BY <1>2 DEF ParserReturn
<1>8. Alike(x0, x) /\ x0.ci = x.ci
  <2>1. x.count = x0.count
    BY <1>5, <1>6, <1>7 DEF IsSnap
  <2> QED
    BY <1>6, <2>1 DEF Alike
<1>9. Matches(t, L, x0, 0)
  BY <1>3, <1>8, AlikeMatches
<1>10. s = With(s, t, L, c)
  BY <1>3, WithFacts
<1>11. Sound(Pop(s))
  BY ONLY <1>2, <1>4, <1>9, <1>10, PopSound
<1> QED
  BY <1>2, <1>11, StepSound DEF ParserReturn

-----------------------------------------------------------------------------
(* Coroutines. *)

(* A C function that may yield is two activations above the resume of its thread. *)
LEMMA YieldFacts ==
    ASSUME NEW s, NEW g, NEW t, NEW n, NEW c, NEW L, NEW x, NEW a, Tops(s, g, t, n, c, L, x, a),
           a.op \in {"body", "hook"}, Len(L.ci) > 1, L.nCcalls <= L.baseCcalls
    PROVE  /\ n > 2 /\ n - 2 \in 1..n /\ n - 2 \in Nat /\ n - 2 > 0 /\ t # Main
           /\ c[n - 2].op = "resume" /\ \A i \in (n - 2)..n : c[i].t = t
           /\ ~g[n - 2].guarded /\ ~x.guarded /\ g[n - 2].jmp = x.jmp
           /\ Counts(L.nCcalls, L.baseCcalls, g[n - 2], 0)
           /\ \E f : /\ IsFrames(f) /\ \E m \in Nat \ {0} : Extends(<<"base">>, f, m, "Lua")
                      /\ Extends(f, x.ci, IF a.op = "body" THEN 1 ELSE 0, "C")
<1>1. Live(s, g, t) /\ n \in Nat /\ n > 0 /\ n \in 1..n /\ IsSnap(x) /\ L.ci = x.ci /\ Counts(L.nCcalls, L.baseCcalls, x, 0) /\ a.t = t
  BY TopsFacts
<1>2. n = Len(s.cstack) /\ c = s.cstack /\ x = g[n] /\ a = c[n]
  BY DEF Tops
<1>3. Shape(c, n, g)
  BY ONLY <1>1, <1>2, LiveFacts
<1>4. IsHost(c[1], g[1]) /\ \A i \in 2..n : Enters(c[i - 1], g[i - 1], c[i], g[i], i)
  BY ONLY <1>1, <1>3, LevelFacts
<1>5. \A i \in 1..n : IsAct(c[i]) /\ IsSnap(g[i])
  BY ONLY <1>1, <1>3, LevelFacts
<1>6. n # 1
  <2>1. ASSUME n = 1 PROVE FALSE
    <3>1. x.ci = <<"base">>
      BY <1>2, <1>4, <2>1 DEF IsHost
    <3>2. Len(<<"base">>) = 1
      OBVIOUS
    <3> QED
      BY <1>1, <3>1, <3>2
  <2> QED
    BY <2>1
<1>7. x.count = x.start
  <2>1. PICK nC, b, k, i : nC = L.nCcalls /\ b = L.baseCcalls /\ k = x.count /\ i = x.start
    OBVIOUS
  <2>2. nC \in Nat /\ b \in Nat /\ k \in Nat /\ i \in Nat /\ i <= k /\ k + 0 - i <= nC - b /\ nC <= b
    BY <1>1, <2>1 DEF Counts, IsSnap
  <2> QED
    BY ONLY <2>1, <2>2
<1>8. PICK p, q : p = n - 1 /\ q = n - 2
  OBVIOUS
<1>9. p \in 1..n /\ n \in 2..n /\ n - 1 = p /\ p - 1 = q
  BY <1>1, <1>6, <1>8
<1>10. PICK a0, x0 : a0 = c[p] /\ x0 = g[p]
  OBVIOUS
<1>11. Enters(a0, x0, a, x, n) /\ IsSnap(x0) /\ IsAct(a0)
  BY <1>2, <1>4, <1>5, <1>9, <1>10
<1>12. Stays(a0, x0, a, x) /\ x.count = x0.count /\ x.start = x0.start /\ x.base = x0.base /\ x.jmp = x0.jmp /\ (x.clean <=> x0.clean)
       /\ (x.guarded <=> x0.guarded) /\ a0.op \in {"call", "exec"} /\ a0.t = t
  <2>1. Stays(a0, x0, a, x) /\ a0.op \in {"call", "exec"}
    BY <1>11 DEF Enters, Fits
  <2> QED
    BY <1>1, <1>11, <2>1 DEF Enters, Stays, CcallsOf, IsTarget, IsSnap
<1>13. p # 1
  BY <1>4, <1>10, <1>12 DEF IsHost
<1>14. q \in 1..n /\ q \in Nat /\ p \in 2..n /\ q > 0
  BY <1>1, <1>8, <1>9, <1>13
<1>15. PICK a1, x1 : a1 = c[q] /\ x1 = g[q]
  OBVIOUS
<1>16. Enters(a1, x1, a0, x0, p) /\ IsSnap(x1) /\ IsAct(a1)
  BY <1>4, <1>5, <1>9, <1>10, <1>14, <1>15
<1>17. a0.op = "exec"
  <2>1. ASSUME a0.op = "call" PROVE FALSE
    <3>1. x0.count = x1.count + 1 /\ x0.start = x1.start
      BY <1>16, <2>1 DEF Enters, Stays, CcallsOf
    <3>2. PICK k, k0, k1, i1 : k = x0.count /\ k0 = x0.start /\ k1 = x1.count /\ i1 = x1.start
        OBVIOUS
      <3>3. k1 \in Nat /\ i1 \in Nat /\ i1 <= k1 /\ k = k1 + 1 /\ k0 = i1 /\ k = k0
        BY <1>7, <1>12, <1>16, <3>1, <3>2 DEF IsSnap
      <3> QED
        BY ONLY <3>3
  <2> QED
    BY <1>12, <2>1
<1>18. Stays(a1, x1, a0, x0) /\ x0.count = x1.count /\ x0.start = x1.start /\ x0.base = x1.base /\ x0.jmp = x1.jmp /\ (x0.clean <=> x1.clean)
       /\ (x0.guarded <=> x1.guarded) /\ a1.op \in {"call", "resume"} /\ a1.t = t
  <2>1. Stays(a1, x1, a0, x0) /\ a1.op \in {"call", "resume"}
    BY <1>16, <1>17 DEF Enters, Fits
  <2> QED
    BY <1>12, <1>16, <1>17, <2>1 DEF Enters, Stays, CcallsOf, IsTarget, IsSnap
<1>19. q # 1
  BY <1>4, <1>15, <1>18 DEF IsHost
<1>20. q \in 2..n /\ q - 1 \in 1..n
  BY <1>1, <1>14, <1>19
<1>21. PICK a2, x2 : a2 = c[q - 1] /\ x2 = g[q - 1]
  OBVIOUS
<1>22. Enters(a2, x2, a1, x1, q) /\ IsSnap(x2)
  BY <1>4, <1>5, <1>15, <1>20, <1>21
<1>23. a1.op = "resume"
  <2>1. ASSUME a1.op = "call" PROVE FALSE
    <3>1. x1.count = x2.count + 1 /\ x1.start = x2.start
      BY <1>22, <2>1 DEF Enters, Stays, CcallsOf
    <3>2. PICK k, k0, k1, i1 : k = x1.count /\ k0 = x1.start /\ k1 = x2.count /\ i1 = x2.start
        OBVIOUS
      <3>3. k1 \in Nat /\ i1 \in Nat /\ i1 <= k1 /\ k = k1 + 1 /\ k0 = i1 /\ k = k0
        BY <1>7, <1>12, <1>18, <1>22, <3>1, <3>2 DEF IsSnap
      <3> QED
        BY ONLY <3>3
  <2> QED
    BY <1>18, <2>1
<1>24. Starts(x2, a1, x1)
  BY <1>22, <1>23 DEF Enters
<1>25. x1.ci = <<"base">> /\ ~x1.guarded /\ t # Main
  BY <1>18, <1>24 DEF Starts
<1>26. \A i \in q..n : c[i].t = t
  <2>1. \A i \in q..n : i = q \/ i = p \/ i = n
    BY <1>1, <1>8, <1>14
  <2> QED
    BY <1>1, <1>2, <1>10, <1>12, <1>15, <1>18, <2>1
<1>27. Counts(L.nCcalls, L.baseCcalls, x1, 0)
  BY <1>1, <1>12, <1>18 DEF Counts
<1>28. \E f : /\ IsFrames(f) /\ \E m \in Nat \ {0} : Extends(<<"base">>, f, m, "Lua")
              /\ Extends(f, x.ci, IF a.op = "body" THEN 1 ELSE 0, "C")
  <2>1. FramesOf(a) = (IF a.op = "body" THEN 1 ELSE 0) /\ KindOf(a) = "C"
    BY DEF FramesOf, KindOf
  <2>2. FramesOf(a0) = a0.n /\ KindOf(a0) = "Lua" /\ a0.n \in Nat \ {0}
    BY <1>17, <1>18 DEF FramesOf, KindOf, Stays
  <2>3. Extends(<<"base">>, x0.ci, a0.n, "Lua") /\ IsFrames(x0.ci)
    BY <1>11, <1>18, <1>25, <2>2 DEF Stays, IsSnap
  <2> QED
    BY <1>12, <2>1, <2>2, <2>3 DEF Stays
<1>29. n > 2 /\ q = n - 2
  BY <1>1, <1>8, <1>14
<1> QED
  BY <1>12, <1>14, <1>15, <1>18, <1>23, <1>25, <1>26, <1>27, <1>28, <1>29

LEMMA YieldedFrames ==
    ASSUME NEW e, IsFrames(e), NEW f, IsFrames(f), NEW m \in Nat \ {0}, Extends(<<"base">>, f, m, "Lua"),
           NEW i \in {0, 1}, Extends(f, e, i, "C")
    PROVE  /\ Len(e) >= 2 /\ \A k \in 2..(Len(e) - 1) : e[k] = "Lua"
           /\ e[Len(e)] = "Lua" \/ (e[Len(e)] = "C" /\ Len(e) >= 3)
<1>1. Len(e) \in Nat /\ Len(f) \in Nat /\ Len(<<"base">>) = 1
  BY FramesFacts
<1>2. Len(f) = 1 + m /\ \A k \in 2..Len(f) : f[k] = "Lua"
  BY <1>1 DEF Extends
<1>3. Len(e) = Len(f) + i /\ (\A k \in 1..Len(f) : e[k] = f[k]) /\ \A k \in (Len(f) + 1)..Len(e) : e[k] = "C"
  BY DEF Extends
<1>4. \A k \in 2..Len(f) : e[k] = "Lua"
  BY <1>1, <1>2, <1>3
<1>5. \A k \in 2..(Len(e) - 1) : k \in 2..Len(f)
  BY <1>1, <1>3
<1>6. CASE i = 0
  <2>1. Len(e) \in 2..Len(f)
    BY <1>1, <1>2, <1>3, <1>6
  <2> QED
    BY <1>4, <1>5, <2>1
<1>7. CASE i = 1
  <2>1. Len(e) \in (Len(f) + 1)..Len(e) /\ Len(e) >= 3
    BY <1>1, <1>2, <1>3, <1>7
  <2> QED
    BY <1>3, <1>4, <1>5, <2>1
<1> QED
  BY <1>6, <1>7

(* lua_yield raises an error, or leaves nothing above the resume of its thread. *)
LEMMA LuaYieldSound ==
    ASSUME Sound(Machine), lua_yield
    PROVE  Sound(Machine')
<1>1. IsRunning({"body", "hook"}) /\ "resume" \notin {"body", "hook"}
  BY DEF lua_yield, IsC
<1>2. PICK s, g, t, n, c, L, x, a :
          /\ s = Machine /\ Tops(s, g, t, n, c, L, x, a) /\ t = Running.t /\ a = Running /\ a.op \in {"body", "hook"}
          /\ n = Len(cstack) /\ L = thread[t]
  BY <1>1, TopsAt
<1>3. /\ IsMachine(s) /\ t \in Threads /\ n \in Nat /\ a.t = t /\ IsSnap(x) /\ IsFrames(x.ci) /\ IsThread(L) /\ HasFields(L)
      /\ Matches(t, L, x, 0) /\ Counts(L.nCcalls, L.baseCcalls, x, 0) /\ s.thread[t] = L /\ s.cstack = c /\ L.ci = x.ci /\ Last(c) = a
      /\ IsStack(c) /\ n \in 1..n
  <2>1. Tops(s, g, t, n, c, L, x, a)
    BY <1>2
  <2>2. s.thread[t] = L /\ s.cstack = c
    BY ONLY <2>1 DEF Tops
  <2> QED
    BY ONLY <2>1, <2>2, TopsFacts
<1>4. Len(L.ci) > 1
  BY <1>2 DEF lua_yield
<1>5. CASE YieldRaises(L)
  <2>1. Becomes(luaG_runerror(s, t))
    BY <1>2, <1>5 DEF lua_yield
  <2>2. At(s, g, t, 0)
    BY <1>2 DEF Tops
  <2>3. Sound(luaG_runerror(s, t))
    BY ONLY <2>2, RaisedSound
  <2> QED
    BY <2>1, <2>3, StepSound
<1>6. CASE ~YieldRaises(L)
  <2>1. L.nCcalls <= L.baseCcalls
    <3>1. PICK nC, b : nC = L.nCcalls /\ b = L.baseCcalls
      OBVIOUS
    <3>2. nC \in Nat /\ b \in Nat /\ ~(nC > b)
      BY <1>3, <1>6, <3>1 DEF YieldRaises, Counts, IsSnap
    <3> QED
      BY ONLY <3>1, <3>2
  <2>2. Tops(s, g, t, n, c, L, x, a) /\ a.op \in {"body", "hook"}
    BY <1>2
  <2>3. /\ n > 2 /\ n - 2 \in 1..n /\ n - 2 \in Nat /\ n - 2 > 0 /\ t # Main
        /\ c[n - 2].op = "resume" /\ (\A i \in (n - 2)..n : c[i].t = t)
        /\ ~g[n - 2].guarded /\ ~x.guarded /\ g[n - 2].jmp = x.jmp
        /\ Counts(L.nCcalls, L.baseCcalls, g[n - 2], 0)
    BY ONLY <1>4, <2>1, <2>2, YieldFacts
  <2>4. PICK f : /\ IsFrames(f) /\ (\E m \in Nat \ {0} : Extends(<<"base">>, f, m, "Lua"))
                 /\ Extends(f, x.ci, IF a.op = "body" THEN 1 ELSE 0, "C")
    BY ONLY <1>4, <2>1, <2>2, YieldFacts
  <2>5. /\ Len(x.ci) >= 2 /\ \A k \in 2..(Len(x.ci) - 1) : x.ci[k] = "Lua"
        /\ x.ci[Len(x.ci)] = "Lua" \/ (x.ci[Len(x.ci)] = "C" /\ Len(x.ci) >= 3)
    <3>1. PICK i : i = IF a.op = "body" THEN 1 ELSE 0
      OBVIOUS
    <3>2. i \in {0, 1} /\ Extends(f, x.ci, i, "C")
      BY <2>4, <3>1
    <3>3. PICK m \in Nat \ {0} : Extends(<<"base">>, f, m, "Lua")
      BY <2>4
    <3>4. PICK e : e = x.ci
      OBVIOUS
    <3>5. IsFrames(e) /\ Extends(f, e, i, "C")
      BY <1>3, <3>2, <3>4
    <3>6. /\ Len(e) >= 2 /\ \A k \in 2..(Len(e) - 1) : e[k] = "Lua"
          /\ e[Len(e)] = "Lua" \/ (e[Len(e)] = "C" /\ Len(e) >= 3)
      BY ONLY <2>4, <3>2, <3>3, <3>5, YieldedFrames
    <3> QED
      BY ONLY <3>4, <3>6
  <2>6. PICK q, C, D : q = n - 2 /\ C = SubSeq(c, 1, q) /\ D = Front(Front(c))
    OBVIOUS
  <2>7. PICK K : K = [L EXCEPT !.status = "yield", !.allowhook = TRUE]
    OBVIOUS
  <2>8. HasFields(K) /\ K.status = "yield" /\ K.ci = L.ci /\ K.sizeci = L.sizeci /\ K.nCcalls = L.nCcalls
        /\ K.baseCcalls = L.baseCcalls /\ K.errfunc = L.errfunc /\ K.jmp = L.jmp /\ K.allowhook = TRUE /\ K.values = L.values
    BY <1>3, <2>7 DEF HasFields
  <2>9. Returns(K, g[q])
    <3>1. IsThread(K)
      BY <1>3, <2>8 DEF IsThread, Statuses
    <3>2. ~K.errfunc /\ ~K.values /\ K.jmp = g[q].jmp
      BY <1>3, <2>3, <2>6, <2>8 DEF Matches, IsThread
    <3>3. Yielded(K)
      BY <1>3, <2>5, <2>8, <3>2 DEF Yielded
    <3>4. Counts(K.nCcalls, K.baseCcalls, g[q], 0)
      BY <2>3, <2>6, <2>8
    <3> QED
      BY <3>1, <3>2, <3>3, <3>4 DEF Returns
  <2>10. IsStack(C) /\ Len(C) = q /\ \A i \in 1..q : C[i] = c[i]
    <3>1. q \in Nat /\ q <= Len(c)
      <4>1. n = Len(c)
        BY <1>2 DEF Tops
      <4> QED
        BY <2>3, <2>6, <4>1
    <3> QED
      BY ONLY <1>3, <2>6, <3>1, CutFacts
  <2>11. IsStack(D) /\ Len(D) = q /\ \A i \in 1..q : D[i] = C[i]
    <3>1. PICK F, p : F = Front(c) /\ p = n - 1
      OBVIOUS
    <3>2. n = Len(c) /\ F = SubSeq(c, 1, p)
      <4>1. n = Len(c)
        BY <1>2 DEF Tops
      <4> QED
        BY ONLY <3>1, <4>1 DEF Front
    <3>3. p \in Nat /\ p <= Len(c) /\ q \in Nat /\ q <= p /\ p - 1 = q
      BY <1>3, <2>3, <2>6, <3>1, <3>2
    <3>4. IsStack(F) /\ Len(F) = p /\ \A i \in 1..p : F[i] = c[i]
      BY ONLY <1>3, <3>2, <3>3, CutFacts
    <3>5. D = SubSeq(F, 1, q)
      BY ONLY <2>6, <3>1, <3>3, <3>4 DEF Front
    <3>6. IsStack(D) /\ Len(D) = q /\ \A i \in 1..q : D[i] = F[i]
      BY ONLY <3>3, <3>4, <3>5, CutFacts
    <3>7. \A i \in 1..q : i \in 1..p
      BY ONLY <3>3
    <3> QED
      BY ONLY <2>10, <3>4, <3>6, <3>7
  <2>12. PICK r : r = With(s, t, K, D)
    OBVIOUS
  <2>13. r.thread[t] = K /\ r.cstack = D /\ Others(s.thread, r.thread, t) /\ IsMachine(r)
    BY ONLY <1>3, <2>11, <2>12, WithFacts
  <2>14. Runs(r.thread, C, g, t)
    <3>1. Runs(s.thread, c, g, t) /\ n = Len(c)
      <4>1. At(s, g, t, 0) /\ n = Len(s.cstack)
        BY <1>2 DEF Tops
      <4> QED
        BY ONLY <1>3, <4>1 DEF At
    <3>2. q \in 1..Len(c) /\ \A i \in q..Len(c) : c[i].t = t
      BY ONLY <2>3, <2>6, <3>1
    <3> QED
      BY ONLY <2>6, <2>13, <3>1, <3>2, CutRuns
  <2>15. Runs(r.thread, D, g, t)
    <3>1. IsStack(D) /\ Len(D) = Len(C) /\ \A i \in 1..Len(C) : D[i] = C[i]
      BY ONLY <2>10, <2>11
    <3> QED
      BY ONLY <2>14, <3>1, AgreeRuns
  <2>16. AtYield(r, g, t)
    <3>1. q \in 1..q
      BY <2>3, <2>6
    <3>2. D[q].op = "resume"
      BY <2>3, <2>6, <2>10, <2>11, <3>1
    <3> QED
      BY <2>9, <2>11, <2>13, <2>15, <3>2 DEF AtYield
  <2>17. Becomes(r)
    <3>1. Becomes([Pop(Pop(s)) EXCEPT !.thread[t].status = "yield", !.thread[t].allowhook = TRUE])
      BY <1>2, <1>6 DEF lua_yield
    <3>2. PICK T, w, J, y : T = s.thread /\ w = Pop(Pop(s)) /\ y = "yield" /\ J = [L EXCEPT !.status = y]
      OBVIOUS
    <3>3. s = [thread |-> T, cstack |-> c] /\ [T EXCEPT ![t] = T[t]] = T /\ L = T[t]
      BY <1>3, <3>2, Parts
    <3>4. w = [thread |-> T, cstack |-> D]
      <4>1. PICK F, v : F = Front(c) /\ v = Pop(s)
        OBVIOUS
      <4>2. v = [thread |-> T, cstack |-> F]
        BY ONLY <3>3, <4>1 DEF Pop
      <4>3. Pop(v) = [thread |-> T, cstack |-> Front(F)]
        BY ONLY <4>2, PopIs
      <4> QED
        BY ONLY <2>6, <3>2, <4>1, <4>3
    <3>5. t \in DOMAIN T
      BY <1>3, <3>2 DEF IsMachine
    <3>6. PICK U, v : U = [T EXCEPT ![t] = J] /\ v = [w EXCEPT !.thread[t].status = y]
      OBVIOUS
    <3>7. v = [thread |-> U, cstack |-> D]
      BY ONLY <3>2, <3>3, <3>4, <3>6
    <3>8. U[t] = J
      BY ONLY <3>5, <3>6
    <3>9. [J EXCEPT !.allowhook = TRUE] = K
      <4>1. K = [L EXCEPT !.status = y, !.allowhook = TRUE]
        BY ONLY <2>7, <3>2
      <4>2. PICK M : M = [L EXCEPT !.status = y, !.allowhook = TRUE]
        OBVIOUS
      <4>3. [J EXCEPT !.allowhook = TRUE] = M
        BY ONLY <3>2, <4>2, Zenon
      <4>4. K = M
        BY ONLY <4>1, <4>2, Zenon
      <4> QED
        BY ONLY <4>3, <4>4, Zenon
    <3>10. [v EXCEPT !.thread[t].allowhook = TRUE] = [thread |-> [U EXCEPT ![t] = K], cstack |-> D]
      <4>1. PICK b : b = TRUE
        OBVIOUS
      <4>2. PICK M : M = [J EXCEPT !.allowhook = b]
        OBVIOUS
      <4>3. [v EXCEPT !.thread[t].allowhook = b] = [thread |-> [U EXCEPT ![t] = M], cstack |-> D]
        BY ONLY <3>7, <3>8, <4>2
      <4>4. M = K
        BY ONLY <3>9, <4>1, <4>2, Zenon
      <4>5. [v EXCEPT !.thread[t].allowhook = TRUE] = [v EXCEPT !.thread[t].allowhook = b]
        BY ONLY <4>1, Zenon
      <4> QED
        BY ONLY <4>3, <4>4, <4>5, Zenon
    <3>11. [U EXCEPT ![t] = K] = [T EXCEPT ![t] = K]
      BY ONLY <3>6
    <3>12. [v EXCEPT !.thread[t].allowhook = TRUE] = r
      BY ONLY <2>12, <3>2, <3>10, <3>11 DEF With
    <3>13. [w EXCEPT !.thread[t].status = y, !.thread[t].allowhook = TRUE] = [v EXCEPT !.thread[t].allowhook = TRUE]
      BY ONLY <3>6, Zenon
    <3> QED
      BY ONLY <3>1, <3>2, <3>12, <3>13
  <2> QED
    BY <2>16, <2>17, StepSound DEF Sound
<1> QED
  BY <1>5, <1>6

(* A coroutine that is not running, and has failed, yielded or not started, has no
   activation. *)
LEMMA OffStack ==
    ASSUME NEW s, NEW g, NEW t, Live(s, g, t), NEW u \in Threads, u # Main, u # t,
           s.thread[u].status # "ok" \/ s.thread[u].values
    PROVE  (\A i \in 1..Len(s.cstack) : s.cstack[i].t # u) /\ Idle(s.thread[u])
<1> DEFINE c == s.cstack
           n == Len(c)
<1>1. n \in Nat /\ Shape(c, n, g) /\ c[n].t = t
  BY LiveFacts
<1>2. Waiting(c, n, g, s.thread)
  BY DEF Live, Runs
<1> HIDE DEF n, c
<1>3. ASSUME NEW i \in 1..n, c[i].t = u PROVE FALSE
  <2>1. PICK j \in i..n : c[j].t = u /\ (j < n => c[j + 1].op = "resume")
    <3>1. \E j \in i..n : /\ c[j].t = c[i].t
                          /\ (\A k \in (j + 1)..n : c[k].t # c[i].t)
                          /\ (j < n => c[j + 1].op = "resume")
      BY ONLY <1>1, i \in 1..n, TopOfThread
    <3> QED
      BY <1>3, <3>1
  <2>2. j # n
    BY <1>1, <2>1
  <2>3. j < n /\ j \in 1..(n - 1)
    BY <1>1, <2>2
  <2>4. Matches(c[j].t, s.thread[c[j].t], g[j], 0)
    BY <1>2, <2>1, <2>3 DEF Waiting
  <2> QED
    BY <2>1, <2>4 DEF Matches
<1>4. \A i \in 1..n : c[i].t # u
  BY <1>3
<1> QED
  BY <1>2, <1>4 DEF Waiting, n, c

(* Nothing that runs depends on it. *)
LEMMA OtherAt ==
    ASSUME NEW s, NEW g, NEW t, At(s, g, t, 0), NEW u \in Threads, \A i \in 1..Len(s.cstack) : s.cstack[i].t # u,
           NEW K, Idle(K)
    PROVE  At(With(s, u, K, s.cstack), g, t, 0)
<1> DEFINE c == s.cstack
           n == Len(c)
<1>1. IsMachine(s) /\ IsStack(c) /\ n \in Nat /\ n > 0 /\ n \in 1..n /\ Shape(c, n, g) /\ c[n].t = t /\ t \in Threads
  BY AtLive, LiveFacts
<1>2. Waiting(c, n, g, s.thread) /\ Matches(t, s.thread[t], g[n], 0) /\ \A i \in 1..n : c[i].t # u
  BY DEF At, Runs
<1>3. PICK r : r = With(s, u, K, c)
  OBVIOUS
<1>4. r.thread[u] = K /\ r.cstack = c /\ Others(s.thread, r.thread, u) /\ IsMachine(r)
  BY <1>1, <1>3, WithFacts
<1>5. \A i \in 1..n : IsAct(c[i])
  BY <1>1, LevelFacts
<1> HIDE DEF n, c
<1>6. \A i \in 1..n : r.thread[c[i].t] = s.thread[c[i].t]
  BY ONLY <1>2, <1>4, <1>5 DEF Others, IsAct
<1>7. \A i \in 1..(n - 1) : i \in 1..n
  BY <1>1
<1>8. Waiting(c, n, g, r.thread)
  <2>1. ASSUME NEW i \in 1..(n - 1), c[i + 1].op = "resume" PROVE Matches(c[i].t, r.thread[c[i].t], g[i], 0)
    <3>1. Matches(c[i].t, s.thread[c[i].t], g[i], 0)
      BY ONLY <1>2, <2>1 DEF Waiting
    <3>2. r.thread[c[i].t] = s.thread[c[i].t]
      BY ONLY <1>6, <1>7, i \in 1..(n - 1)
    <3> QED
      BY ONLY <3>1, <3>2
  <2>2. ASSUME NEW v \in Threads, \A i \in 1..n : c[i].t # v PROVE Idle(r.thread[v])
    <3>1. Idle(s.thread[v])
      BY ONLY <1>2, <2>2 DEF Waiting
    <3>2. v # u => r.thread[v] = s.thread[v]
      BY ONLY <1>4, <2>2 DEF Others
    <3> QED
      BY ONLY <1>4, <3>1, <3>2, Idle(K)
  <2> QED
    BY ONLY <2>1, <2>2 DEF Waiting
<1>9. r.thread[t] = s.thread[t]
  BY ONLY <1>1, <1>6
<1>10. Runs(r.thread, c, g, t)
  BY <1>1, <1>8 DEF Runs, n
<1> QED
  BY <1>2, <1>3, <1>4, <1>9, <1>10 DEF At, n, c

LEMMA PreparedIdle ==
    ASSUME NEW status \in {"ok", "none"}, NEW values \in BOOLEAN, NEW K,
           K = [status |-> status, ci |-> <<"base">>, sizeci |-> BASIC_CI_SIZE, nCcalls |-> 0,
                baseCcalls |-> 0, errfunc |-> FALSE, jmp |-> 0, allowhook |-> TRUE,
                values |-> values, started |-> FALSE]
    PROVE  Idle(K)
<1>1. K.status = status /\ K.ci = <<"base">> /\ K.sizeci = BASIC_CI_SIZE /\ K.nCcalls = 0 /\ K.baseCcalls = 0
      /\ K.errfunc = FALSE /\ K.jmp = 0 /\ K.allowhook = TRUE /\ K.values \in BOOLEAN /\ HasFields(K)
  BY DEF HasFields
<1>2. IsFrames(<<"base">>) /\ Len(<<"base">>) = 1
  BY DEF IsFrames
<1>3. /\ BASIC_CI_SIZE \in 2..(2 * LUAI_MAXCALLS) /\ 1 <= BASIC_CI_SIZE
      /\ 0 \in 0..(LUAI_MAXCCALLS + Slack)
  BY LimitsAssumption
<1>4. IsThread(K)
  BY <1>1, <1>2, <1>3 DEF IsThread, Statuses
<1> QED
  BY <1>1, <1>4 DEF Idle

(* A coroutine that does not run is prepared. *)
LEMMA CocreateSound ==
    ASSUME Sound(Machine), NEW co \in Coroutines, luaB_cocreate(co)
    PROVE  Sound(Machine')
<1>1. IsRunning({"body", "hook"}) /\ "resume" \notin {"body", "hook"}
  BY DEF luaB_cocreate, IsC
<1>2. PICK s, g, t, n, c, L, x, a :
          /\ s = Machine /\ Tops(s, g, t, n, c, L, x, a) /\ t = Running.t /\ a = Running /\ a.op \in {"body", "hook"}
          /\ n = Len(cstack) /\ L = thread[t]
  BY <1>1, TopsAt
<1>3. /\ IsMachine(s) /\ t \in Threads /\ n \in Nat /\ a.t = t /\ IsSnap(x) /\ IsFrames(x.ci) /\ IsThread(L) /\ HasFields(L)
      /\ Matches(t, L, x, 0) /\ Counts(L.nCcalls, L.baseCcalls, x, 0) /\ s.thread[t] = L /\ s.cstack = c /\ L.ci = x.ci /\ Last(c) = a
      /\ IsStack(c) /\ n \in 1..n
  <2>1. Tops(s, g, t, n, c, L, x, a)
    BY <1>2
  <2>2. s.thread[t] = L /\ s.cstack = c
    BY ONLY <2>1 DEF Tops
  <2> QED
    BY ONLY <2>1, <2>2, TopsFacts
<1>4. co \in Threads /\ co # Main /\ s.thread = thread /\ s.cstack = cstack
  BY <1>2 DEF Coroutines, Machine
<1>5. thread[co].status = "none" /\ L.status = "ok" /\ thread[t] = L
  BY <1>2, <1>3 DEF luaB_cocreate, Matches
<1>6. co # t /\ s.thread[co].status # "ok"
  BY <1>4, <1>5
<1>7. At(s, g, t, 0) /\ Live(s, g, t)
  <2>1. Tops(s, g, t, n, c, L, x, a)
    BY <1>2
  <2> QED
    BY ONLY <2>1, TopsFacts, ZenonT(60) DEF Tops
<1>8. \A i \in 1..Len(s.cstack) : s.cstack[i].t # co
  BY ONLY <1>4, <1>6, <1>7, OffStack
<1>9. PICK K : K = preinit_state("ok")
  OBVIOUS
<1>10. Idle(K)
  <2>1. K = [status |-> "ok", ci |-> <<"base">>, sizeci |-> BASIC_CI_SIZE, nCcalls |-> 0,
             baseCcalls |-> 0, errfunc |-> FALSE, jmp |-> 0, allowhook |-> TRUE,
             values |-> TRUE, started |-> FALSE]
    BY ONLY <1>9 DEF preinit_state
  <2> QED
    BY <2>1, PreparedIdle
<1>11. PICK r : r = With(s, co, K, c)
  OBVIOUS
<1>12. At(r, g, t, 0)
  BY ONLY <1>3, <1>4, <1>7, <1>8, <1>10, <1>11, OtherAt
<1>13. Becomes(r)
  <2>1. r.thread = [s.thread EXCEPT ![co] = K] /\ r.cstack = c
    BY ONLY <1>11 DEF With
  <2> QED
    BY <1>3, <1>4, <1>9, <2>1 DEF Becomes, luaB_cocreate
<1> QED
  BY <1>12, <1>13, StepSound DEF Sound

-----------------------------------------------------------------------------
(* lua_resume. *)

(* The snapshot of the resume at position i of the C stack, when nCcalls is k. *)
Resumed(x0, i, k) ==
    [count |-> x0.count + 1, start |-> x0.count + 1, base |-> k, clean |-> x0.clean,
     ci |-> <<"base">>, hooks |-> TRUE, guarded |-> FALSE, jmp |-> i]

ResumeOf(co) == [op |-> "resume", t |-> co, previous |-> 0]

LEMMA ResumedEnters ==
    ASSUME NEW a0, a0.op \in {"body", "hook"}, NEW x0, IsSnap(x0), NEW co \in Threads, co # Main,
           NEW i \in Nat, NEW k \in Nat, NEW b, b = ResumeOf(co), NEW x, x = Resumed(x0, i, k)
    PROVE  IsSnap(x) /\ Enters(a0, x0, b, x, i) /\ IsAct(b) /\ b.op = "resume" /\ b.t = co
<1>1. b = [op |-> "resume", t |-> b.t, previous |-> 0] /\ b.op = "resume" /\ b.t = co /\ IsAct(b)
  BY DEF ResumeOf, IsAct
<1>2. x.count = x0.count + 1 /\ x.start = x.count /\ x.base = k /\ (x.clean <=> x0.clean) /\ x.ci = <<"base">>
      /\ x.hooks = TRUE /\ x.guarded = FALSE /\ x.jmp = i /\ x.clean \in BOOLEAN
  BY DEF Resumed, IsSnap
<1>3. IsFrames(<<"base">>)
  BY DEF IsFrames
<1>4. IsSnap(x)
  <2>1. x.count \in Nat /\ x.start \in Nat /\ x.start <= x.count
    <3>1. x0.count \in Nat
      BY DEF IsSnap
    <3> QED
      BY ONLY <1>2, <3>1
  <2>2. x.clean \in BOOLEAN /\ x.hooks \in BOOLEAN /\ x.guarded \in BOOLEAN /\ x.base \in Nat /\ x.jmp \in Nat /\ IsFrames(x.ci)
    BY <1>2, <1>3
  <2> QED
    BY ONLY <2>1, <2>2 DEF IsSnap
<1>5. Starts(x0, b, x)
  BY <1>1, <1>2 DEF Starts
<1>6. IsTarget(b) /\ CcallsOf(b) = 1 /\ Fits(a0.op, b.op)
  BY <1>1 DEF IsTarget, CcallsOf, Fits
<1> QED
  BY <1>1, <1>2, <1>4, <1>5, <1>6 DEF Enters

(* lua_resume leaves the coroutine K running, without frames of its own as yet. *)
Resuming(s, c, a, co, b, C, K, r) ==
    /\ a.op \in {"body", "hook"} /\ co # Main /\ \A i \in 1..Len(s.cstack) : s.cstack[i].t # co
    /\ b = ResumeOf(co) /\ C = Append(c, b) /\ r = With(s, co, K, C)

LEMMA ResumeLive ==
    ASSUME NEW s, NEW g, NEW t, NEW n, NEW c, NEW L, NEW x, NEW a, Tops(s, g, t, n, c, L, x, a),
           NEW co \in Threads, NEW k \in Nat, NEW b, NEW C, NEW K, NEW r, Resuming(s, c, a, co, b, C, K, r)
    PROVE  \E h : Live(r, h, co) /\ h[n + 1] = Resumed(x, n + 1, k) /\ Len(C) = n + 1 /\ C[n + 1] = b
<1>1. Live(s, g, t) /\ IsMachine(s) /\ n \in Nat /\ IsSnap(x) /\ IsStack(c)
  BY TopsFacts
<1>2. n = Len(s.cstack) /\ c = s.cstack /\ x = g[n] /\ a = c[n] /\ At(s, g, t, 0)
  BY DEF Tops
<1> USE DEF Resuming
<1>3. Runs(s.thread, c, g, t) /\ Matches(t, s.thread[t], g[Len(c)], 0)
  BY ONLY <1>2 DEF At
<1>4. IsStack(C) /\ Len(C) = n + 1 /\ C[n + 1] = b
  BY <1>1, <1>2, AppendFacts
<1>5. r.cstack = C /\ IsMachine(r) /\ Others(s.thread, r.thread, co)
  BY ONLY <1>1, <1>4, co \in Threads, r = With(s, co, K, C), WithFacts
<1>6. PICK y : y = Resumed(x, n + 1, k)
  OBVIOUS
<1>7. IsSnap(y) /\ Enters(a, x, b, y, n + 1) /\ IsAct(b) /\ b.op = "resume" /\ b.t = co
  BY <1>1, <1>6, ResumedEnters
<1>8. \E h : Runs(r.thread, Append(c, b), h, b.t) /\ h[Len(c) + 1] = y
  <2>1. \A i \in 1..Len(c) : c[i].t # b.t
    BY <1>2, <1>7
  <2>2. PICK T, U : T = s.thread /\ U = r.thread
    OBVIOUS
  <2>3. Others(T, U, b.t) /\ Runs(T, c, g, t) /\ Matches(t, T[t], g[Len(c)], 0)
    BY ONLY <1>3, <1>5, <1>7, <2>2
  <2>4. IsSnap(y) /\ Enters(c[Len(c)], g[Len(c)], b, y, Len(c) + 1)
    BY ONLY <1>2, <1>7
  <2>5. IsAct(b) /\ Resumes(c, b)
    BY ONLY <1>7, <2>1 DEF Resumes
  <2>6. \E h : Runs(U, Append(c, b), h, b.t) /\ h[Len(c) + 1] = y
    <3>1. Entering(T, c, g, t, b, U, y)
      BY ONLY <2>3, <2>4, <2>5 DEF Entering
    <3> QED
      BY ONLY <3>1, EnterRuns
  <2> QED
    BY ONLY <2>2, <2>6
<1> QED
  BY <1>2, <1>4, <1>5, <1>6, <1>7, <1>8 DEF Live

(* nCcalls of a coroutine that is resumed is that of its caller, and one more. *)
LEMMA ResumedCounts ==
    ASSUME NEW nC, NEW b, NEW x, IsSnap(x), Counts(nC, b, x, 0), nC + 1 <= LUAI_MAXCCALLS, NEW i,
           NEW y, y = Resumed(x, i, nC + 1)
    PROVE  Counts(nC + 1, nC + 1, y, 0) /\ nC + 1 \in 0..(LUAI_MAXCCALLS + Slack)
<1>1. PICK k, M, S : k = x.count /\ M = LUAI_MAXCCALLS /\ S = Slack
  OBVIOUS
<1>2. k \in Nat /\ M \in Nat /\ S \in Nat \ {0} /\ nC \in Nat /\ k + 0 <= nC /\ nC + 1 <= M /\ (x.clean => nC = k + 0)
  BY <1>1, LimitsAssumption DEF IsSnap, Counts
<1>3. y.count = k + 1 /\ y.start = k + 1 /\ y.base = nC + 1 /\ y.clean = x.clean
  BY <1>1 DEF Resumed
<1>4. /\ nC + 1 \in Nat /\ k + 1 + 0 <= nC + 1 /\ nC + 1 < M + S + 0 /\ (x.clean => nC + 1 = k + 1 + 0)
      /\ k + 1 + 0 - (k + 1) <= nC + 1 - (nC + 1) /\ nC + 1 \in 0..(M + S)
  BY ONLY <1>2
<1>5. PICK N, z : N = nC + 1 /\ z = 0
  OBVIOUS
<1>6. PICK p, q : p = y.count /\ q = y.start
  OBVIOUS
<1>7. p = k + 1 /\ q = k + 1 /\ y.base = N
  BY ONLY <1>3, <1>5, <1>6
<1>8. N \in Nat /\ k + 1 + z <= N /\ N < M + S + z /\ N \in 0..(M + S) /\ k + 1 + z - (k + 1) <= N - N
  BY ONLY <1>2, <1>4, <1>5
<1>9. y.clean => N = y.count + z
  BY ONLY <1>3, <1>4, <1>5
<1>10. N \in Nat /\ p + z <= N /\ N < M + S + z /\ p + z - q <= N - N /\ N \in 0..(M + S)
  BY ONLY <1>7, <1>8
<1>11. N \in Nat /\ N = y.base /\ y.count + z <= N /\ N < LUAI_MAXCCALLS + Slack + z /\ y.count + z - y.start <= N - N
       /\ N \in 0..(LUAI_MAXCCALLS + Slack)
  BY ONLY <1>1, <1>6, <1>7, <1>10
<1>12. Counts(N, N, y, z)
  BY ONLY <1>9, <1>11 DEF Counts
<1> QED
  BY ONLY <1>5, <1>11, <1>12

(* The coroutine that lua_resume starts: it is C but for these fields. *)
Begun(K, C, k, j) ==
    /\ HasFields(K) /\ K.status = C.status /\ K.ci = C.ci /\ K.sizeci = C.sizeci /\ K.nCcalls = k /\ K.baseCcalls = k
    /\ K.errfunc = C.errfunc /\ K.jmp = j /\ K.allowhook = C.allowhook /\ K.values = FALSE

LEMMA BegunThread ==
    ASSUME NEW C, IsThread(C), NEW k \in 0..(LUAI_MAXCCALLS + Slack), NEW j \in Nat, NEW K, Begun(K, C, k, j)
    PROVE  IsThread(K)
BY DEF Begun, IsThread

(* A coroutine starts: it calls its function. *)
LEMMA StartSound ==
    ASSUME NEW C, Idle(C), C.status = "ok", NEW k \in 0..(LUAI_MAXCCALLS + Slack), NEW n \in Nat, NEW K, Begun(K, C, k, n + 1),
           NEW r, NEW h, NEW co, Live(r, h, co), Len(r.cstack) = n + 1, r.cstack[n + 1] = ResumeOf(co), r.thread[co] = K,
           NEW x, h[n + 1] = Resumed(x, n + 1, k), Counts(k, k, h[n + 1], 0)
    PROVE  Sound(resume(r, co))
<1>1. PICK y : y = h[n + 1]
  OBVIOUS
<1>2. y.jmp = n + 1 /\ y.ci = <<"base">> /\ y.hooks = TRUE
  BY <1>1 DEF Resumed
<1>3. IsThread(K)
  BY BegunThread DEF Idle
<1>4. K.status = "ok" /\ K.ci = <<"base">> /\ K.allowhook = TRUE /\ K.errfunc = FALSE /\ K.values = FALSE /\ K.jmp = n + 1
      /\ K.nCcalls = k /\ K.baseCcalls = k
  <2>1. C.ci = <<"base">> /\ C.allowhook /\ ~C.errfunc /\ C.allowhook \in BOOLEAN /\ C.errfunc \in BOOLEAN
    BY DEF Idle, IsThread
  <2> QED
    BY <2>1 DEF Begun
<1>5. Matches(co, K, y, 0)
  BY <1>1, <1>2, <1>3, <1>4 DEF Matches
<1>6. At(r, h, co, 0)
  BY <1>1, <1>5 DEF At, Live
<1>7. IsMachine(r) /\ co \in Threads
  BY LiveFacts
<1>8. PICK fn, b, one : fn = "Lua" /\ b = [op |-> "exec", t |-> co, n |-> 1] /\ one = 1
  OBVIOUS
<1>9. PICK w : w = WithFrame(r, co, fn)
  OBVIOUS
<1>10. Len(w.thread[co].ci) - 1 = 1
  <2>1. w = With(r, co, Framed(K, Append(K.ci, fn), K.sizeci), r.cstack)
    BY ONLY <1>3, <1>7, <1>9, r.thread[co] = K, WithFrameIs
  <2>2. w.thread[co] = Framed(K, Append(K.ci, fn), K.sizeci)
    BY ONLY <1>7, <2>1, WithFacts
  <2>3. w.thread[co].ci = Append(K.ci, fn)
    <3>1. PICK e, z : e = Append(K.ci, fn) /\ z = K.sizeci
      OBVIOUS
    <3>2. Framed(K, e, z).ci = e
      BY ONLY <1>3 DEF Framed, IsThread, HasFields
    <3> QED
      BY ONLY <2>2, <3>1, <3>2
  <2>4. Len(Append(<<"base">>, fn)) = 2
    OBVIOUS
  <2> QED
    BY ONLY <1>4, <2>3, <2>4
<1>11. PICK ok : ok = Push(w, b)
  OBVIOUS
<1>12. ok = With(r, co, Framed(K, Append(K.ci, fn), K.sizeci), Append(r.cstack, b))
  <2>1. Entered(r, co, fn, b) = ok
    BY ONLY <1>9, <1>11 DEF Entered, WithFrame
  <2> QED
    BY ONLY <1>3, <1>7, <2>1, r.thread[co] = K, EnteredIs
<1>13. resume(r, co) = inc_ci(r, co, ok)
  <2>1. resume(r, co) = luaD_precall(r, co, fn, LAMBDA e : luaV_execute(e, co, Len(e.thread[co].ci) - 1))
    BY ONLY <1>4, <1>8, r.thread[co] = K DEF resume
  <2>2. fn # "C"
    BY ONLY <1>8
  <2>3. luaD_precall(r, co, fn, LAMBDA e : luaV_execute(e, co, Len(e.thread[co].ci) - 1))
            = inc_ci(r, co, luaV_execute(w, co, Len(w.thread[co].ci) - 1))
    BY ONLY <1>9, <2>2 DEF luaD_precall, WithFrame
  <2>4. luaV_execute(w, co, 1) = ok
    BY ONLY <1>8, <1>11 DEF luaV_execute
  <2> QED
    BY ONLY <1>10, <2>1, <2>3, <2>4
<1>14. IsAct(b) /\ b.t = co /\ b.op = "exec" /\ KindOf(b) = fn
  BY <1>7, <1>8 DEF IsAct, KindOf
<1>15. Fits(r.cstack[Len(r.cstack)].op, b.op)
  <2>1. r.cstack[Len(r.cstack)].op = "resume"
    BY DEF ResumeOf
  <2> QED
    BY <1>14, <2>1 DEF Fits
<1>16. Sound(inc_ci(r, co, ok))
  <2>1. b = [op |-> "exec", t |-> co, n |-> 1]
    BY <1>8
  <2>2. ok = With(r, co, Framed(K, Append(K.ci, KindOf(b)), K.sizeci), Append(r.cstack, b))
    BY ONLY <1>12, <1>14
  <2> QED
    BY ONLY <1>6, <1>14, <1>15, <2>1, <2>2, r.thread[co] = K, PrecallSound
<1> QED
  BY ONLY <1>13, <1>16


LEMMA FramedSame ==
    ASSUME NEW L, HasFields(L), L = [f \in DOMAIN L |-> L[f]]
    PROVE  Framed(L, L.ci, L.sizeci) = L
BY DEF Framed, HasFields

(* A coroutine goes on after lua_yield: one luaV_execute runs all its frames. *)
LEMMA WokenSound ==
    ASSUME NEW C, Idle(C), C.status = "yield", NEW k \in 0..(LUAI_MAXCCALLS + Slack), NEW n \in Nat, NEW K, Begun(K, C, k, n + 1),
           K = [f \in DOMAIN K |-> K[f]],
           NEW r, NEW h, NEW co, Live(r, h, co), Len(r.cstack) = n + 1, r.cstack[n + 1] = ResumeOf(co), r.thread[co] = K,
           NEW x, h[n + 1] = Resumed(x, n + 1, k), Counts(k, k, h[n + 1], 0)
    PROVE  Sound(resume(r, co))
<1>1. PICK y, D, e : y = h[n + 1] /\ D = r.cstack /\ e = K.ci
  OBVIOUS
<1>2. y.jmp = n + 1 /\ y.ci = <<"base">> /\ y.hooks = TRUE
  BY <1>1 DEF Resumed
<1>3. IsThread(K) /\ HasFields(K)
  <2>1. IsThread(K)
    <3>1. IsThread(C) /\ n + 1 \in Nat
      BY DEF Idle
    <3> QED
      BY ONLY <3>1, k \in 0..(LUAI_MAXCCALLS + Slack), Begun(K, C, k, n + 1), BegunThread
  <2> QED
    BY <2>1 DEF Begun
<1>4. K.status = "yield" /\ K.allowhook = TRUE /\ K.errfunc = FALSE /\ K.values = FALSE /\ K.jmp = n + 1
      /\ K.nCcalls = k /\ K.baseCcalls = k /\ Len(e) >= 2 /\ (\A i \in 2..(Len(e) - 1) : e[i] = "Lua")
      /\ (e[Len(e)] = "Lua" \/ (e[Len(e)] = "C" /\ Len(e) >= 3))
  <2>1. Yielded(C) /\ C.allowhook \in BOOLEAN /\ C.errfunc \in BOOLEAN
    BY DEF Idle, IsThread
  <2>2. e = C.ci
    BY <1>1 DEF Begun
  <2>3. C.allowhook = TRUE /\ C.errfunc = FALSE /\ Len(e) >= 2 /\ (\A i \in 2..(Len(e) - 1) : e[i] = "Lua")
        /\ (e[Len(e)] = "Lua" \/ (e[Len(e)] = "C" /\ Len(e) >= 3))
    BY <2>1, <2>2 DEF Yielded
  <2> QED
    BY <2>3 DEF Begun
<1>5. IsFrames(e) /\ Len(e) \in Nat
  BY <1>1, <1>3, FramesFacts DEF IsThread
<1>6. IsMachine(r) /\ co \in Threads /\ IsSnap(y) /\ IsStack(D) /\ Len(D) = n + 1 /\ D[n + 1] = ResumeOf(co)
  BY <1>1, LiveFacts
<1>7. PICK f : f = IF Last(e) = "C" THEN Front(e) ELSE e
  OBVIOUS
<1>8. IsFrames(f) /\ Len(f) \in Nat /\ Len(f) >= 2 /\ Len(f) <= Len(e) /\ \A i \in 2..Len(f) : f[i] = "Lua"
  <2>1. Last(e) = e[Len(e)]
    BY DEF Last
  <2>2. CASE e[Len(e)] = "Lua"
    <3>1. f = e
      BY <1>7, <2>1, <2>2
    <3>2. \A i \in 2..Len(e) : i = Len(e) \/ i \in 2..(Len(e) - 1)
      BY <1>5
    <3> QED
      BY <1>4, <1>5, <2>2, <3>1, <3>2
  <2>3. CASE e[Len(e)] = "C" /\ Len(e) >= 3
    <3>1. f = Front(e)
      BY <1>7, <2>1, <2>3
    <3>2. Len(e) > 1
      BY <1>5, <2>3
    <3>3. IsFrames(f) /\ Len(f) = Len(e) - 1 /\ \A i \in 1..(Len(e) - 1) : f[i] = e[i]
      BY ONLY <1>5, <3>1, <3>2, FrontFrames
    <3>4. \A i \in 2..Len(f) : i \in 1..(Len(e) - 1) /\ i \in 2..(Len(e) - 1)
      BY ONLY <1>5, <3>3
    <3>5. \A i \in 2..Len(f) : f[i] = "Lua"
      BY ONLY <1>4, <3>3, <3>4
    <3>6. Len(f) \in Nat /\ Len(f) >= 2 /\ Len(f) <= Len(e)
      BY ONLY <1>5, <2>3, <3>3
    <3> QED
      BY ONLY <3>3, <3>5, <3>6
  <2> QED
    BY <1>4, <2>2, <2>3
<1>9. PICK m, b, ok : m = Len(f) - 1 /\ ok = "ok" /\ b = [op |-> "exec", t |-> co, n |-> Len(f) - 1]
  OBVIOUS
<1>10. m \in Nat \ {0} /\ b.op = "exec" /\ b.t = co /\ b.n = m /\ b = [op |-> "exec", t |-> b.t, n |-> b.n] /\ IsAct(b)
       /\ FramesOf(b) = m /\ KindOf(b) = "Lua" /\ CcallsOf(b) = 0 /\ ~IsTarget(b)
  <2>1. m \in Nat \ {0}
    BY ONLY <1>8, <1>9
  <2>2. b.op = "exec" /\ b.t = co /\ b.n = m /\ b = [op |-> "exec", t |-> b.t, n |-> b.n] /\ {"op", "t"} \subseteq DOMAIN b
    BY ONLY <1>9
  <2> QED
    BY ONLY <1>6, <2>1, <2>2 DEF IsAct, FramesOf, KindOf, CcallsOf, IsTarget
<1>11. Extends(y.ci, f, m, "Lua")
  <2>1. Len(<<"base">>) = 1 /\ <<"base">>[1] = "base" /\ \A i \in 1..1 : i = 1
    OBVIOUS
  <2>2. Len(f) = 1 + m /\ 1 + 1 = 2
    BY ONLY <1>8, <1>9
  <2>3. f[1] = "base"
    BY ONLY <1>8, FramesFacts
  <2> QED
    BY ONLY <1>2, <1>8, <2>1, <2>2, <2>3 DEF Extends
<1>12. D[Len(D)].op = "resume" /\ D[Len(D)].t = co
  BY <1>6 DEF ResumeOf
<1>13. Follows(D[Len(D)], y, b, f)
  <2>1. b.op # "resume" /\ b.op # "hook" /\ b.op # "parser" /\ b.op # "pcall" /\ Fits(D[Len(D)].op, b.op)
    BY ONLY <1>10, <1>12 DEF Fits
  <2>2. IsFrames(f) /\ Extends(y.ci, f, FramesOf(b), KindOf(b))
    BY ONLY <1>8, <1>10, <1>11
  <2> QED
    BY ONLY <1>10, <1>12, <2>1, <2>2 DEF Follows
<1>14. PICK B, Q : B = Framed(K, f, K.sizeci) /\ Q = [B EXCEPT !.status = ok]
  OBVIOUS
<1>15. HasFields(Q) /\ Q.status = "ok" /\ Q.ci = f /\ Q.sizeci = K.sizeci /\ Q.nCcalls = k /\ Q.baseCcalls = k
       /\ Q.errfunc = FALSE /\ Q.jmp = n + 1 /\ Q.allowhook = TRUE /\ Q.values = FALSE
  <2>1. HasFields(B) /\ B.ci = f /\ B.sizeci = K.sizeci /\ B.nCcalls = K.nCcalls /\ B.baseCcalls = K.baseCcalls
        /\ B.errfunc = K.errfunc /\ B.jmp = K.jmp /\ B.allowhook = K.allowhook /\ B.values = K.values
    BY ONLY <1>3, <1>14 DEF Framed, HasFields
  <2>2. HasFields(Q) /\ Q.status = ok /\ Q.ci = B.ci /\ Q.sizeci = B.sizeci /\ Q.nCcalls = B.nCcalls /\ Q.baseCcalls = B.baseCcalls
        /\ Q.errfunc = B.errfunc /\ Q.jmp = B.jmp /\ Q.allowhook = B.allowhook /\ Q.values = B.values
    BY ONLY <1>14, <2>1 DEF HasFields
  <2> QED
    BY ONLY <1>4, <1>9, <2>1, <2>2
<1>16. PICK z : z = Above(y, b, f, n + 2)
  OBVIOUS
<1>17. Alike(z, y) /\ z.ci = f
  <2>1. y.clean \in BOOLEAN /\ y.hooks \in BOOLEAN /\ y.guarded \in BOOLEAN /\ y.count \in Nat
    BY <1>6 DEF IsSnap
  <2>2. z.count = y.count /\ z.start = y.start /\ z.base = y.base /\ z.jmp = y.jmp /\ z.ci = f
    BY ONLY <1>10, <1>16, <2>1 DEF Above
  <2>3. z.clean = y.clean /\ z.hooks = y.hooks /\ z.guarded = y.guarded
    BY ONLY <1>10, <1>16, <2>1 DEF Above
  <2> QED
    BY ONLY <2>2, <2>3 DEF Alike
<1>18. Matches(co, Q, z, 0)
  <2>1. IsThread(Q)
    <3>1. Len(f) <= K.sizeci
      BY ONLY <1>1, <1>3, <1>5, <1>8 DEF IsThread
    <3> QED
      BY ONLY <1>3, <1>4, <1>8, <1>15, <3>1, n \in Nat, k \in 0..(LUAI_MAXCCALLS + Slack) DEF IsThread, Statuses
  <2>2. Counts(k, k, z, 0)
    BY <1>1, <1>17 DEF Counts, Alike
  <2>3. z.jmp = n + 1 /\ z.hooks = TRUE
    BY ONLY <1>2, <1>17 DEF Alike
  <2> QED
    BY ONLY <1>15, <1>17, <2>1, <2>2, <2>3 DEF Matches
<1>19. PICK W : W = With(r, co, Q, Append(D, b))
  OBVIOUS
<1>20. Sound(W)
  <2>1. Live(r, h, co) /\ Len(r.cstack) + 1 = n + 2 /\ Len(r.cstack) = n + 1
    BY <1>6
  <2>2. Follows(r.cstack[Len(r.cstack)], h[Len(r.cstack)], b, f)
    BY <1>1, <1>13, <2>1
  <2>3. Matches(co, Q, Above(h[Len(r.cstack)], b, f, Len(r.cstack) + 1), 0)
    BY <1>1, <1>16, <1>18, <2>1
  <2>4. \E i : At(With(r, co, Q, Append(r.cstack, b)), i, co, 0)
    BY ONLY <2>1, <2>2, <2>3, AtPush
  <2> QED
    BY ONLY <1>1, <1>19, <2>4, AtSound
<1>21. PICK back : back = IF Last(r.thread[co].ci) = "C" THEN luaD_poscall(r, co) ELSE r
  OBVIOUS
<1>22. back = With(r, co, B, D)
  <2>1. CASE Last(e) = "C"
    <3>1. luaD_poscall(r, co) = With(r, co, Framed(K, Front(K.ci), K.sizeci), r.cstack)
      BY ONLY <1>3, <1>6, r.thread[co] = K, PoscallIs
    <3> QED
      BY ONLY <1>1, <1>7, <1>14, <1>21, <2>1, <3>1, r.thread[co] = K
  <2>2. CASE Last(e) # "C"
    <3>1. B = K
      BY ONLY <1>1, <1>3, <1>7, <1>14, <2>2, K = [i \in DOMAIN K |-> K[i]], FramedSame
    <3>2. r = With(r, co, r.thread[co], r.cstack)
      BY ONLY <1>6, WithFacts
    <3> QED
      BY ONLY <1>1, <1>21, <2>2, <3>1, <3>2, r.thread[co] = K
  <2> QED
    BY ONLY <2>1, <2>2
<1>23. back.thread[co] = B /\ back.cstack = D /\ IsMachine(back) /\ \A M, E : With(back, co, M, E) = With(r, co, M, E)
  BY ONLY <1>6, <1>22, WithFacts
<1>24. Len(back.thread[co].ci) - 1 = m
  <2>1. B.ci = f
    BY ONLY <1>3, <1>14 DEF Framed, IsThread, HasFields
  <2> QED
    BY ONLY <1>9, <1>23, <2>1
<1>25. PICK w : w = [back EXCEPT !.thread[co].status = ok]
  OBVIOUS
<1>26. w = With(r, co, Q, D)
  <2>1. PICK T : T = back.thread
    OBVIOUS
  <2>2. back = [thread |-> T, cstack |-> D] /\ [T EXCEPT ![co] = T[co]] = T /\ B = T[co]
    BY ONLY <1>6, <1>23, <2>1, Parts
  <2>3. w = [thread |-> [T EXCEPT ![co] = Q], cstack |-> D]
    BY ONLY <1>14, <1>25, <2>2
  <2>4. w = With(back, co, Q, D)
    BY ONLY <2>1, <2>3 DEF With
  <2> QED
    BY ONLY <1>23, <2>4
<1>27. Push(w, b) = W
  <2>1. w = [thread |-> [r.thread EXCEPT ![co] = Q], cstack |-> D]
    BY ONLY <1>26 DEF With
  <2>2. Push(w, b) = [thread |-> [r.thread EXCEPT ![co] = Q], cstack |-> Append(D, b)]
    BY ONLY <2>1, PushIs
  <2> QED
    BY ONLY <1>19, <2>2 DEF With
<1>28. resume(r, co) = Push(w, b)
  <2>1. ok # r.thread[co].status
    BY ONLY <1>4, <1>9, r.thread[co] = K
  <2>2. resume(r, co) = luaV_execute([back EXCEPT !.thread[co].status = "ok"], co, Len(back.thread[co].ci) - 1)
    BY ONLY <1>9, <1>21, <2>1 DEF resume
  <2>3. luaV_execute(w, co, m) = Push(w, b)
    BY ONLY <1>9 DEF luaV_execute
  <2> QED
    BY ONLY <1>9, <1>24, <1>25, <2>2, <2>3
<1> QED
  BY ONLY <1>20, <1>27, <1>28

(* auxresume refuses a coroutine when there are too many nested C calls. *)
LEMMA RefusedIdle ==
    ASSUME NEW C, Idle(C), NEW k \in 0..(LUAI_MAXCCALLS + Slack), NEW v \in BOOLEAN, NEW C1, C1 = [C EXCEPT !.nCcalls = k],
           NEW K, K = [C1 EXCEPT !.values = v]
    PROVE  Idle(K)
<1>1. IsThread(C) /\ HasFields(C)
  BY DEF Idle, IsThread
<1>2. HasFields(C1) /\ C1.status = C.status /\ C1.ci = C.ci /\ C1.sizeci = C.sizeci /\ C1.nCcalls = k /\ C1.baseCcalls = C.baseCcalls
      /\ C1.errfunc = C.errfunc /\ C1.jmp = C.jmp /\ C1.allowhook = C.allowhook
  BY <1>1 DEF HasFields
<1>3. HasFields(K) /\ K.status = C1.status /\ K.ci = C1.ci /\ K.sizeci = C1.sizeci /\ K.nCcalls = C1.nCcalls /\ K.baseCcalls = C1.baseCcalls
      /\ K.errfunc = C1.errfunc /\ K.jmp = C1.jmp /\ K.allowhook = C1.allowhook /\ K.values = v
  BY <1>2 DEF HasFields
<1>4. IsThread(K)
  BY <1>1, <1>2, <1>3 DEF IsThread
<1>5. Yielded(C) => Yielded(K)
  BY <1>2, <1>3 DEF Yielded
<1>6. (K.status = "ok" => K.ci = <<"base">> /\ K.allowhook /\ ~K.errfunc) /\ K.jmp = 0 /\ (K.status = "yield" => Yielded(C))
  <2>1. (C.status = "ok" => C.ci = <<"base">> /\ C.allowhook /\ ~C.errfunc) /\ C.jmp = 0 /\ (C.status = "yield" => Yielded(C))
    BY DEF Idle
  <2> QED
    BY <1>2, <1>3, <2>1
<1> QED
  BY <1>4, <1>5, <1>6 DEF Idle

(* What lua_resume stores before it calls resume. *)
Preparing(C, k, n, j, no, yes, C1, R, K) ==
    /\ C1 = [C EXCEPT !.nCcalls = k]
    /\ R = [C1 EXCEPT !.nCcalls = n, !.baseCcalls = n, !.values = no, !.started = yes]
    /\ K = [R EXCEPT !.jmp = j]
    /\ no = FALSE

LEMMA BegunIs ==
    ASSUME NEW C, IsThread(C), NEW k, NEW n, NEW j, NEW no, NEW yes,
           NEW C1, NEW R, NEW K, Preparing(C, k, n, j, no, yes, C1, R, K)
    PROVE  Begun(K, C, n, j) /\ R.jmp = C.jmp /\ K = [f \in DOMAIN K |-> K[f]] /\ C1.nCcalls = k /\ C1.status = C.status
<1>1. HasFields(C)
  BY DEF IsThread
<1> USE DEF Preparing
<1>2. HasFields(C1) /\ C1.status = C.status /\ C1.ci = C.ci /\ C1.sizeci = C.sizeci /\ C1.nCcalls = k
      /\ C1.errfunc = C.errfunc /\ C1.jmp = C.jmp /\ C1.allowhook = C.allowhook
  BY ONLY <1>1, Preparing(C, k, n, j, no, yes, C1, R, K) DEF HasFields
<1>3. HasFields(R) /\ R.status = C1.status /\ R.ci = C1.ci /\ R.sizeci = C1.sizeci /\ R.nCcalls = n /\ R.baseCcalls = n
      /\ R.errfunc = C1.errfunc /\ R.jmp = C1.jmp /\ R.allowhook = C1.allowhook /\ R.values = no
  BY ONLY <1>2, Preparing(C, k, n, j, no, yes, C1, R, K) DEF HasFields
<1>4. HasFields(K) /\ K.status = R.status /\ K.ci = R.ci /\ K.sizeci = R.sizeci /\ K.nCcalls = R.nCcalls /\ K.baseCcalls = R.baseCcalls
      /\ K.errfunc = R.errfunc /\ K.jmp = j /\ K.allowhook = R.allowhook /\ K.values = R.values
      /\ K = [f \in DOMAIN K |-> K[f]]
  BY ONLY <1>3, Preparing(C, k, n, j, no, yes, C1, R, K) DEF HasFields
<1>5. K.values = FALSE
  BY <1>3, <1>4
<1> QED
  BY ONLY <1>2, <1>3, <1>4, <1>5 DEF Begun

CanResume(C) == C.status = "yield" \/ (C.status = "ok" /\ C.values)

LEMMA SuspendedIs ==
    ASSUME NEW t, NEW co, costatus(t, co) = "suspended"
    PROVE  co # t /\ CanResume(thread[co])
BY DEF costatus, CanResume

(* A coroutine is resumed, or refused. *)
LEMMA AuxresumeSound ==
    ASSUME Sound(Machine), NEW co \in Coroutines, auxresume(co)
    PROVE  Sound(Machine')
<1>1. IsRunning({"body", "hook"}) /\ "resume" \notin {"body", "hook"}
  BY DEF auxresume, IsC
<1>2. PICK s, g, t, n, c, L, x, a :
          /\ s = Machine /\ Tops(s, g, t, n, c, L, x, a) /\ t = Running.t /\ a = Running /\ a.op \in {"body", "hook"}
          /\ n = Len(cstack) /\ L = thread[t]
  BY <1>1, TopsAt
<1>3. /\ IsMachine(s) /\ t \in Threads /\ n \in Nat /\ a.t = t /\ IsSnap(x) /\ IsFrames(x.ci) /\ IsThread(L) /\ HasFields(L)
      /\ Matches(t, L, x, 0) /\ Counts(L.nCcalls, L.baseCcalls, x, 0) /\ s.thread[t] = L /\ s.cstack = c /\ L.ci = x.ci /\ Last(c) = a
      /\ IsStack(c) /\ n \in 1..n
  <2>1. Tops(s, g, t, n, c, L, x, a)
    BY <1>2
  <2>2. s.thread[t] = L /\ s.cstack = c
    BY ONLY <2>1 DEF Tops
  <2> QED
    BY ONLY <2>1, <2>2, TopsFacts
<1>4. co \in Threads /\ co # Main /\ s.thread = thread /\ s.cstack = cstack /\ thread[t] = L /\ costatus(t, co) = "suspended"
      /\ t \in Threads
  BY <1>2, <1>3 DEF Coroutines, Machine, auxresume
<1>5. PICK C : C = s.thread[co]
  OBVIOUS
<1>6. co # t /\ CanResume(C)
  BY ONLY <1>4, <1>5, SuspendedIs
<1>7. At(s, g, t, 0) /\ Live(s, g, t) /\ n = Len(c) /\ n = Len(s.cstack) /\ Tops(s, g, t, n, c, L, x, a)
  <2>1. Tops(s, g, t, n, c, L, x, a)
    BY <1>2
  <2> QED
    BY ONLY <2>1, TopsFacts, ZenonT(60) DEF Tops
<1>8. (\A i \in 1..Len(s.cstack) : s.cstack[i].t # co) /\ Idle(C)
  <2>1. s.thread[co].status # "ok" \/ s.thread[co].values
    BY ONLY <1>5, <1>6 DEF CanResume
  <2> QED
    BY ONLY <1>4, <1>5, <1>6, <1>7, <2>1, OffStack
<1> HIDE DEF auxresume
<1>9. IsThread(C)
  BY <1>8 DEF Idle
<1>10. PICK nC, C1, k : nC = L.nCcalls /\ C1 = [C EXCEPT !.nCcalls = L.nCcalls] /\ k = L.nCcalls + 1
  OBVIOUS
<1>11. C1 = [C EXCEPT !.nCcalls = nC] /\ nC \in 0..(LUAI_MAXCCALLS + Slack) /\ k = nC + 1 /\ nC \in Nat /\ LUAI_MAXCCALLS \in Nat
  BY <1>3, <1>10, LimitsAssumption DEF IsThread
<1>12. PICK w : w = [s EXCEPT !.thread[co].nCcalls = nC]
  OBVIOUS
<1>13. w = With(s, co, C1, c)
  <2>1. PICK T : T = s.thread
    OBVIOUS
  <2>2. s = [thread |-> T, cstack |-> c] /\ [T EXCEPT ![co] = T[co]] = T /\ C = T[co]
    BY ONLY <1>3, <1>4, <1>5, <2>1, Parts
  <2> QED
    BY ONLY <1>11, <1>12, <2>1, <2>2 DEF With
<1>14. w.thread[co] = C1 /\ w.cstack = c /\ IsMachine(w) /\ \A M, E : With(w, co, M, E) = With(s, co, M, E)
  <2>1. IsMachine(s) /\ co \in Threads /\ IsStack(c)
    BY ONLY <1>3, <1>4
  <2> QED
    BY ONLY <1>13, <2>1, WithFacts
<1>15. Becomes(lua_resume(w, co))
  <2>1. Becomes(lua_resume([Machine EXCEPT !.thread[co].nCcalls = thread[Running.t].nCcalls], co))
    BY DEF auxresume
  <2>2. thread[Running.t].nCcalls = nC
    BY <1>2, <1>10
  <2> QED
    BY ONLY <1>2, <1>12, <2>1, <2>2
<1>16. C1.nCcalls = nC /\ C1.status = C.status
  BY ONLY <1>9, <1>11 DEF IsThread, HasFields
<1>17. k = w.thread[co].nCcalls + 1
  BY ONLY <1>11, <1>14, <1>16
<1>18. CASE k > LUAI_MAXCCALLS
  <2>1. PICK v, K : v = (w.thread[co].values /\ w.thread[co].status # "ok") /\ K = [C1 EXCEPT !.values = v]
    OBVIOUS
  <2>2. lua_resume(w, co) = [w EXCEPT !.thread[co].values = @ /\ w.thread[co].status # "ok"]
    BY ONLY <1>17, <1>18 DEF lua_resume
  <2>3. [w EXCEPT !.thread[co].values = @ /\ w.thread[co].status # "ok"] = [w EXCEPT !.thread[co].values = v]
    BY ONLY <2>1, Zenon
  <2>4. v \in BOOLEAN
    BY ONLY <2>1
  <2>5. [w EXCEPT !.thread[co].values = v] = With(w, co, K, c)
    <3>1. PICK T : T = w.thread
      OBVIOUS
    <3>2. w = [thread |-> T, cstack |-> c] /\ [T EXCEPT ![co] = T[co]] = T /\ C1 = T[co]
      BY ONLY <1>4, <1>14, <3>1, Parts
    <3>3. K = [C1 EXCEPT !.values = v]
      BY ONLY <2>1, Zenon
    <3> QED
      BY ONLY <3>1, <3>2, <3>3 DEF With
  <2>6. Idle(K)
    <3>1. K = [C1 EXCEPT !.values = v]
      BY ONLY <2>1, Zenon
    <3> QED
      BY ONLY <1>8, <1>11, <2>4, <3>1, RefusedIdle
  <2>7. PICK r : r = With(s, co, K, s.cstack)
    OBVIOUS
  <2>8. At(r, g, t, 0)
    BY ONLY <1>4, <1>7, <1>8, <2>6, <2>7, OtherAt
  <2>9. lua_resume(w, co) = r
    BY ONLY <1>3, <1>14, <2>2, <2>3, <2>5, <2>7
  <2> QED
    BY <1>15, <2>8, <2>9, StepSound DEF Sound
<1>19. CASE ~(k > LUAI_MAXCCALLS)
  <2>1. PICK no, yes : no = FALSE /\ yes = TRUE
    OBVIOUS
  <2>2. PICK R, j, K : R = [C1 EXCEPT !.nCcalls = k, !.baseCcalls = k, !.values = no, !.started = yes] /\ j = n + 1
                       /\ K = [R EXCEPT !.jmp = n + 1]
    OBVIOUS
  <2>3. Begun(K, C, k, j) /\ R.jmp = C.jmp /\ K = [f \in DOMAIN K |-> K[f]]
    <3>1. K = [R EXCEPT !.jmp = j] /\ R = [C1 EXCEPT !.nCcalls = k, !.baseCcalls = k, !.values = no, !.started = yes]
      BY ONLY <2>2, Zenon
    <3>2. Preparing(C, nC, k, j, no, yes, C1, R, K)
      BY ONLY <1>11, <2>1, <3>1, Zenon DEF Preparing
    <3> QED
      BY ONLY <1>9, <3>2, BegunIs
  <2>4. PICK b, D, r, u : b = [op |-> "resume", t |-> co, previous |-> R.jmp] /\ D = Append(c, b) /\ r = With(s, co, K, D)
                          /\ u = [w EXCEPT !.thread[co] = R]
    OBVIOUS
  <2>5. b = ResumeOf(co)
    <3>1. C.jmp = 0
      BY ONLY <1>8 DEF Idle
    <3> QED
      BY ONLY <2>3, <2>4, <3>1 DEF ResumeOf
  <2>6. u = With(s, co, R, c)
    <3>1. w = [thread |-> [s.thread EXCEPT ![co] = C1], cstack |-> c]
      BY ONLY <1>13 DEF With
    <3>2. u = With(w, co, R, c)
      BY ONLY <2>4, <3>1 DEF With
    <3> QED
      BY ONLY <1>14, <3>2
  <2>7. luaD_rawrunprotected(u, co, b) = r
    <3>1. PICK U, v : U = [s.thread EXCEPT ![co] = R] /\ v = Push(u, b)
      OBVIOUS
    <3>2. u = [thread |-> U, cstack |-> c]
      BY ONLY <2>6, <3>1 DEF With
    <3>3. v = [thread |-> U, cstack |-> D]
      <4>1. D = Append(c, b) /\ v = Push(u, b)
        BY ONLY <2>4, <3>1
      <4> QED
        BY ONLY <3>2, <4>1, PushIs
    <3>4. Len(u.cstack) + 1 = n + 1
      BY ONLY <1>7, <3>2
    <3>5. co \in DOMAIN s.thread
      BY ONLY <1>3, <1>4 DEF IsMachine
    <3>6. U[co] = R /\ [U EXCEPT ![co] = K] = [s.thread EXCEPT ![co] = K]
      BY ONLY <3>1, <3>5
    <3>7. K = [R EXCEPT !.jmp = n + 1]
      BY ONLY <2>2, Zenon
    <3>8. [v EXCEPT !.thread[co].jmp = n + 1] = [thread |-> [U EXCEPT ![co] = K], cstack |-> D]
      BY ONLY <3>3, <3>6, <3>7
    <3>9. luaD_rawrunprotected(u, co, b) = [v EXCEPT !.thread[co].jmp = n + 1]
      BY ONLY <3>1, <3>4, Zenon DEF luaD_rawrunprotected
    <3> QED
      BY ONLY <2>4, <3>6, <3>8, <3>9 DEF With
  <2>8. lua_resume(w, co) = resume(r, co)
    <3>1. lua_resume(w, co) = resume(luaD_rawrunprotected([w EXCEPT !.thread[co] = R], co, [op |-> "resume", t |-> co, previous |-> R.jmp]), co)
      <4>1. R = [w.thread[co] EXCEPT !.nCcalls = k, !.baseCcalls = k, !.values = FALSE, !.started = TRUE]
        BY ONLY <1>14, <2>1, <2>2, Zenon
      <4> QED
        BY ONLY <1>17, <1>19, <4>1, Zenon DEF lua_resume
    <3> QED
      BY ONLY <2>4, <2>7, <3>1
  <2>9. k \in 0..(LUAI_MAXCCALLS + Slack) /\ k \in Nat /\ nC + 1 <= LUAI_MAXCCALLS
    BY ONLY <1>11, <1>19, LimitsAssumption
  <2>10. a.op \in {"body", "hook"}
    BY ONLY <1>2
  <2>11. PICK h : Live(r, h, co) /\ h[n + 1] = Resumed(x, n + 1, k) /\ Len(D) = n + 1 /\ D[n + 1] = b
    <3>1. Resuming(s, c, a, co, b, D, K, r)
      BY ONLY <1>4, <1>8, <2>4, <2>5, <2>10 DEF Resuming
    <3>2. Tops(s, g, t, n, c, L, x, a) /\ co \in Threads /\ k \in Nat
      BY ONLY <1>4, <1>7, <2>9
    <3> QED
      BY ONLY <3>1, <3>2, ResumeLive
  <2>12. Counts(k, k, h[n + 1], 0)
    <3>1. PICK y, i, z : y = h[n + 1] /\ i = n + 1 /\ z = L.baseCcalls
      OBVIOUS
    <3>2. y = Resumed(x, i, nC + 1)
      BY ONLY <1>11, <2>11, <3>1
    <3>3. Counts(nC, z, x, 0)
      BY ONLY <1>3, <1>10, <3>1
    <3>4. Counts(nC + 1, nC + 1, y, 0)
      BY ONLY <1>3, <2>9, <3>2, <3>3, ResumedCounts
    <3> QED
      BY ONLY <1>11, <3>1, <3>4
  <2>13. r.thread[co] = K /\ r.cstack = D
    <3>1. IsMachine(s) /\ co \in Threads /\ r = With(s, co, K, D)
      BY ONLY <1>3, <1>4, <2>4
    <3> QED
      BY ONLY <3>1, WithFacts
  <2>14. Len(r.cstack) = n + 1 /\ r.cstack[n + 1] = ResumeOf(co) /\ Begun(K, C, k, n + 1)
    BY ONLY <2>2, <2>3, <2>5, <2>11, <2>13
  <2>15. Sound(resume(r, co))
    <3>1. CASE C.status = "yield"
      BY ONLY <1>3, <1>8, <2>3, <2>9, <2>11, <2>12, <2>13, <2>14, <3>1, WokenSound
    <3>2. CASE C.status = "ok"
      BY ONLY <1>3, <1>8, <2>9, <2>11, <2>12, <2>13, <2>14, <3>2, StartSound
    <3> QED
      BY ONLY <1>6, <3>1, <3>2 DEF CanResume
  <2> QED
    BY <1>15, <2>8, <2>15, StepSound
<1> QED
  BY <1>18, <1>19

(* lua_resume returns: the coroutine has no activation any more. *)
ResumeEnds(s, g, t, n, c, L, x, a, x0, a0) ==
    /\ Live(s, g, t) /\ n = Len(s.cstack) /\ c = s.cstack /\ L = s.thread[t] /\ x = g[n] /\ a = c[n]
    /\ x0 = g[n - 1] /\ a0 = c[n - 1] /\ a.op = "resume"
    /\ Matches(t, L, x, 0) \/ Returns(L, x)

LEMMA ResumeEndsFacts ==
    ASSUME NEW s, NEW g, NEW t, NEW n, NEW c, NEW L, NEW x, NEW a, NEW x0, NEW a0, ResumeEnds(s, g, t, n, c, L, x, a, x0, a0)
    PROVE  /\ n \in 2..Len(c) /\ n - 1 \in Nat /\ a.previous = 0 /\ a.t = t /\ t \in Threads /\ IsStack(c) /\ IsMachine(s)
           /\ Front(c) = SubSeq(c, 1, n - 1) /\ n \in Nat /\ IsSnap(x) /\ IsSnap(x0) /\ x.count = x0.count + 1
           /\ x.ci = <<"base">> /\ x.hooks /\ ~x.guarded /\ IsThread(L) /\ Counts(L.nCcalls, L.baseCcalls, x, 0)
<1>1. Live(s, g, t) /\ n = Len(s.cstack) /\ c = s.cstack /\ L = s.thread[t] /\ x = g[n] /\ a = c[n]
      /\ x0 = g[n - 1] /\ a0 = c[n - 1] /\ a.op = "resume" /\ (Matches(t, L, x, 0) \/ Returns(L, x))
  BY DEF ResumeEnds
<1>2. IsMachine(s) /\ IsStack(c) /\ n \in Nat /\ n > 0 /\ n \in 1..n /\ t \in Threads /\ a.t = t /\ IsSnap(x) /\ Shape(c, n, g) /\ n = Len(c)
  BY <1>1, LiveFacts
<1>3. n # 1
  <2>1. n = 1 => IsHost(a, x)
    BY <1>1, <1>2, LevelFacts
  <2> QED
    BY <1>1, <2>1 DEF IsHost
<1>4. n \in 2..n /\ n - 1 \in Nat /\ n - 1 \in 1..n
  BY <1>2, <1>3
<1>5. Enters(a0, x0, a, x, n) /\ IsSnap(x0)
  BY <1>1, <1>2, <1>4, LevelFacts
<1>6. Starts(x0, a, x) /\ CcallsOf(a) = 1
  BY <1>1, <1>5 DEF Enters, CcallsOf
<1>7. a.previous = 0 /\ x.ci = <<"base">> /\ x.hooks /\ ~x.guarded
  BY <1>6 DEF Starts
<1>8. IsThread(L) /\ Counts(L.nCcalls, L.baseCcalls, x, 0)
  BY <1>1 DEF Matches, Returns
<1>9. Front(c) = SubSeq(c, 1, n - 1)
  BY <1>2 DEF Front
<1>10. x.count = x0.count + 1
  BY <1>5, <1>6 DEF Enters
<1> QED
  BY <1>2, <1>4, <1>5, <1>7, <1>8, <1>9, <1>10

LEMMA EndedIdle ==
    ASSUME NEW s, NEW g, NEW t, NEW n, NEW c, NEW L, NEW x, NEW a, NEW x0, NEW a0, ResumeEnds(s, g, t, n, c, L, x, a, x0, a0),
           NEW k, k = L.nCcalls - 1, NEW z, z = 0, NEW K, K = [L EXCEPT !.nCcalls = k, !.jmp = z]
    PROVE  Idle(K) /\ \A v \in BOOLEAN : Idle([K EXCEPT !.values = v])
<1>1. IsThread(L) /\ HasFields(L) /\ IsSnap(x0) /\ IsSnap(x) /\ x.count = x0.count + 1 /\ x.ci = <<"base">> /\ x.hooks /\ ~x.guarded
      /\ Counts(L.nCcalls, L.baseCcalls, x, 0)
  BY ResumeEndsFacts DEF IsThread
<1>2. k \in 0..(LUAI_MAXCCALLS + Slack)
  <2>1. PICK nC, i, j, MS : nC = L.nCcalls /\ i = x0.count /\ j = x.count /\ MS = LUAI_MAXCCALLS + Slack
    OBVIOUS
  <2>2. nC \in 0..MS /\ MS \in Nat /\ i \in Nat /\ j = i + 1 /\ j + 0 <= nC
    <3>1. nC \in 0..MS
      BY ONLY <1>1, <2>1 DEF IsThread
    <3>2. i \in Nat /\ j = i + 1
      BY ONLY <1>1, <2>1 DEF IsSnap
    <3>3. j + 0 <= nC
      BY ONLY <1>1, <2>1 DEF Counts
    <3>4. MS \in Nat
      BY ONLY <2>1, LimitsAssumption
    <3> QED
      BY ONLY <3>1, <3>2, <3>3, <3>4
  <2>3. nC - 1 \in 0..MS
    BY ONLY <2>2
  <2> QED
    BY ONLY <2>1, <2>3, k = L.nCcalls - 1
<1>3. HasFields(K) /\ K.status = L.status /\ K.ci = L.ci /\ K.sizeci = L.sizeci /\ K.nCcalls = k /\ K.baseCcalls = L.baseCcalls
      /\ K.errfunc = L.errfunc /\ K.jmp = z /\ K.allowhook = L.allowhook /\ K.values = L.values
  BY ONLY <1>1, K = [L EXCEPT !.nCcalls = k, !.jmp = z] DEF HasFields
<1>4. IsThread(K)
  BY ONLY <1>1, <1>2, <1>3, z = 0 DEF IsThread
<1>5. (L.status = "ok" /\ L.ci = <<"base">> /\ L.allowhook /\ ~L.errfunc) \/ Yielded(L)
  <2>1. Matches(t, L, x, 0) \/ Returns(L, x)
    BY DEF ResumeEnds
  <2> QED
    BY <1>1, <2>1 DEF Matches, Returns
<1>6. ASSUME NEW J, IsThread(J), J.status = L.status, J.ci = L.ci, J.errfunc = L.errfunc, J.allowhook = L.allowhook, J.jmp = z PROVE Idle(J)
  <2>1. Yielded(L) => Yielded(J)
    BY <1>6 DEF Yielded
  <2> QED
    BY <1>5, <1>6, <2>1 DEF Idle, Yielded
<1>7. ASSUME NEW v \in BOOLEAN PROVE Idle([K EXCEPT !.values = v])
  <2>1. PICK J : J = [K EXCEPT !.values = v]
    OBVIOUS
  <2>2. HasFields(J) /\ J.status = K.status /\ J.ci = K.ci /\ J.sizeci = K.sizeci /\ J.nCcalls = K.nCcalls /\ J.baseCcalls = K.baseCcalls
        /\ J.errfunc = K.errfunc /\ J.jmp = K.jmp /\ J.allowhook = K.allowhook /\ J.values = v
    BY ONLY <1>3, <2>1 DEF HasFields
  <2>3. IsThread(J)
    BY ONLY <1>4, <2>2, v \in BOOLEAN DEF IsThread
  <2>4. Idle(J)
    BY ONLY <1>3, <1>6, <2>2, <2>3
  <2> QED
    BY ONLY <2>1, <2>4
<1> QED
  BY ONLY <1>3, <1>4, <1>6, <1>7

LEMMA FinishResumeSound ==
    ASSUME Sound(Machine), NEW room \in BOOLEAN, FinishResume(room)
    PROVE  Sound(Machine')
<1>1. PICK s : s = Machine
  OBVIOUS
<1>2. IsRunning({"resume"})
  BY DEF FinishResume
<1>3. s.cstack = cstack /\ s.thread = thread /\ cstack # <<>> /\ Running.op = "resume" /\ Sound(s)
  BY <1>1, <1>2 DEF Machine, IsRunning, Running
<1>4. PICK g, t : At(s, g, t, 0) \/ AtYield(s, g, t)
  BY <1>3 DEF Sound, Exited
<1>5. PICK n, c, L, x, a, x0, a0 : n = Len(s.cstack) /\ c = s.cstack /\ L = s.thread[t] /\ x = g[n] /\ a = c[n]
                                   /\ x0 = g[n - 1] /\ a0 = c[n - 1]
  OBVIOUS
<1>6. Live(s, g, t) /\ (Matches(t, L, x, 0) \/ Returns(L, x))
  BY <1>4, <1>5 DEF Live, At, AtYield
<1>7. a = Running /\ a.op = "resume"
  <2>1. Last(cstack) = cstack[Len(cstack)]
    BY <1>3, <1>6, LiveFacts
  <2> QED
    BY <1>3, <1>5, <2>1 DEF Running
<1>8. ResumeEnds(s, g, t, n, c, L, x, a, x0, a0)
  BY <1>5, <1>6, <1>7 DEF ResumeEnds
<1>9. n \in 2..Len(c) /\ a.previous = 0 /\ a.t = t /\ t \in Threads /\ IsStack(c) /\ IsMachine(s) /\ Front(c) = SubSeq(c, 1, n - 1) /\ n \in Nat
  BY ONLY <1>8, ResumeEndsFacts
<1>10. PICK k, z, K, J, yes : k = L.nCcalls - 1 /\ z = 0 /\ K = [L EXCEPT !.nCcalls = k, !.jmp = z] /\ yes = TRUE /\ J = [K EXCEPT !.values = yes]
  <2>1. PICK k, z, yes : k = L.nCcalls - 1 /\ z = 0 /\ yes = TRUE
    OBVIOUS
  <2>2. PICK K : K = [L EXCEPT !.nCcalls = k, !.jmp = z]
    OBVIOUS
  <2> QED
    BY <2>1, <2>2, Zenon
<1>11. Idle(K) /\ Idle(J)
  <2>1. k = L.nCcalls - 1 /\ z = 0 /\ yes \in BOOLEAN
    BY <1>10
  <2>2. K = [L EXCEPT !.nCcalls = k, !.jmp = z]
    BY ONLY <1>10, Zenon
  <2>3. J = [K EXCEPT !.values = yes]
    BY ONLY <1>10, Zenon
  <2>4. Idle(K) /\ \A v \in BOOLEAN : Idle([K EXCEPT !.values = v])
    BY ONLY <1>8, <2>1, <2>2, EndedIdle
  <2> QED
    BY ONLY <2>1, <2>3, <2>4
<1>12. PICK D, r, q : D = SubSeq(c, 1, n - 1) /\ r = With(s, t, K, D) /\ q = With(s, t, J, D)
  OBVIOUS
<1>13. PICK u : u = a0.t
  OBVIOUS
<1>14. \A i \in n..Len(c) : c[i].t = t
  <2>1. \A i \in n..Len(c) : i = n
    BY <1>5, <1>9
  <2> QED
    BY <1>5, <1>9, <2>1
<1>15. At(r, g, u, 0) /\ r.cstack # <<>> /\ Last(r.cstack).t = u /\ At(q, g, u, 0)
  <2>1. n \in 2..Len(s.cstack) /\ s.cstack[n].op = "resume" /\ \A i \in n..Len(s.cstack) : s.cstack[i].t = t
    BY <1>5, <1>7, <1>9, <1>14
  <2>2. r = With(s, t, K, SubSeq(s.cstack, 1, n - 1)) /\ q = With(s, t, J, SubSeq(s.cstack, 1, n - 1)) /\ u = s.cstack[n - 1].t
    BY <1>5, <1>12, <1>13
  <2>3. At(r, g, u, 0) /\ r.cstack # <<>> /\ Last(r.cstack).t = u
    BY ONLY <1>6, <1>11, <2>1, <2>2, LeaveAt
  <2>4. At(q, g, u, 0)
    BY ONLY <1>6, <1>11, <2>1, <2>2, LeaveAt
  <2> QED
    BY <2>3, <2>4
<1>16. PICK p, w : p = Pop([s EXCEPT !.thread[t].nCcalls = @ - 1, !.thread[t].jmp = a.previous])
                   /\ w = [s EXCEPT !.thread[t].nCcalls = @ - 1, !.thread[t].jmp = a.previous]
  OBVIOUS
<1>17. p = r
  <2>1. PICK T : T = s.thread
    OBVIOUS
  <2>2. s = [thread |-> T, cstack |-> c] /\ [T EXCEPT ![t] = T[t]] = T /\ L = T[t]
    BY ONLY <1>5, <1>9, <2>1, Parts
  <2>3. k = L.nCcalls - 1 /\ z = 0 /\ a.previous = z
    BY ONLY <1>9, <1>10
  <2>4. w = [s EXCEPT !.thread[t].nCcalls = k, !.thread[t].jmp = z]
    <3>1. k = s.thread[t].nCcalls - 1
      BY ONLY <1>5, <2>3
    <3> QED
      BY ONLY <1>16, <2>3, <3>1, Zenon
  <2>5. K = [L EXCEPT !.nCcalls = k, !.jmp = z]
    BY ONLY <1>10, Zenon
  <2>6. PICK H, v, U : H = [L EXCEPT !.nCcalls = k] /\ v = [s EXCEPT !.thread[t].nCcalls = k] /\ U = [T EXCEPT ![t] = H]
    <3>1. PICK H : H = [L EXCEPT !.nCcalls = k]
      OBVIOUS
    <3> QED
      BY <3>1, Zenon
  <2>7. v = [thread |-> U, cstack |-> c]
    BY ONLY <2>2, <2>6
  <2>8. t \in DOMAIN T
    BY ONLY <1>9, <2>1 DEF IsMachine
  <2>9. U[t] = H /\ [U EXCEPT ![t] = K] = [T EXCEPT ![t] = K]
    BY ONLY <2>6, <2>8
  <2>10. [H EXCEPT !.jmp = z] = K
    BY ONLY <2>5, <2>6, Zenon
  <2>11. [v EXCEPT !.thread[t].jmp = z] = [thread |-> [U EXCEPT ![t] = K], cstack |-> c]
    <3>1. PICK M : M = [H EXCEPT !.jmp = z]
      OBVIOUS
    <3>2. [v EXCEPT !.thread[t].jmp = z] = [thread |-> [U EXCEPT ![t] = M], cstack |-> c]
      BY ONLY <2>7, <2>9, <3>1
    <3>3. M = K
      BY ONLY <2>10, <3>1, Zenon
    <3> QED
      BY ONLY <3>2, <3>3
  <2>12. w = [v EXCEPT !.thread[t].jmp = z]
    BY ONLY <2>4, <2>6, Zenon
  <2>13. Pop(w) = [thread |-> [T EXCEPT ![t] = K], cstack |-> Front(c)]
    BY ONLY <2>9, <2>11, <2>12, PopIs
  <2>14. p = Pop(w)
    BY ONLY <1>16, Zenon
  <2> QED
    BY ONLY <1>9, <1>12, <2>1, <2>13, <2>14 DEF With
<1>18. Becomes(IF room THEN p ELSE luaG_runerror([p EXCEPT !.thread[t].values = TRUE], Last(p.cstack).t))
  <2>1. t = Running.t
    BY <1>7, <1>9
  <2> QED
    BY <1>1, <1>7, <1>16, <2>1 DEF FinishResume
<1>19. CASE room
  BY <1>15, <1>17, <1>18, <1>19, StepSound DEF Sound
<1>20. CASE ~room
  <2>1. [r EXCEPT !.thread[t].values = TRUE] = q
    <3>1. PICK U : U = [s.thread EXCEPT ![t] = K]
      OBVIOUS
    <3>2. r = [thread |-> U, cstack |-> D]
      BY ONLY <1>12, <3>1 DEF With
    <3>3. t \in DOMAIN s.thread
      BY ONLY <1>9 DEF IsMachine
    <3>4. U[t] = K /\ [U EXCEPT ![t] = J] = [s.thread EXCEPT ![t] = J]
      BY ONLY <3>1, <3>3
    <3>5. J = [K EXCEPT !.values = yes] /\ yes = TRUE
      BY ONLY <1>10, Zenon
    <3>6. [r EXCEPT !.thread[t].values = yes] = [thread |-> [U EXCEPT ![t] = J], cstack |-> D]
      <4>1. J = [K EXCEPT !.values = yes]
        BY ONLY <3>5, Zenon
      <4> QED
        BY ONLY <3>2, <3>4, <4>1
    <3>7. [r EXCEPT !.thread[t].values = yes] = q
      BY ONLY <1>12, <3>4, <3>6 DEF With
    <3> QED
      BY ONLY <3>5, <3>7, Zenon
  <2>2. Becomes(luaG_runerror(q, u))
    BY ONLY <1>15, <1>17, <1>18, <1>20, <2>1, Zenon
  <2>3. Sound(luaG_runerror(q, u))
    BY ONLY <1>15, RaisedSound
  <2> QED
    BY <2>2, <2>3, StepSound
<1> QED
  BY <1>19, <1>20

-----------------------------------------------------------------------------
(* The invariant. *)

LEMMA InitSound == Init => Sound(Machine)
<1> SUFFICES ASSUME Init PROVE Sound(Machine)
  OBVIOUS
<1>1. PICK s, c, x, g, a : /\ s = Machine /\ c = cstack /\ a = [op |-> "body", t |-> Main]
                           /\ x = [count |-> 0, start |-> 0, base |-> 0, clean |-> TRUE, ci |-> <<"base">>,
                                   hooks |-> TRUE, guarded |-> FALSE, jmp |-> 0]
                           /\ g = [i \in {1} |-> [count |-> 0, start |-> 0, base |-> 0, clean |-> TRUE, ci |-> <<"base">>,
                                                  hooks |-> TRUE, guarded |-> FALSE, jmp |-> 0]]
  OBVIOUS
<1>2. c = <<a>> /\ Len(c) = 1 /\ c[1] = a /\ g[1] = x /\ s.cstack = c /\ s.thread = thread
  BY <1>1 DEF Init, Machine
<1>3. a.op = "body" /\ a.t = Main /\ IsAct(a) /\ Main \in Threads
  BY <1>1, LimitsAssumption DEF IsAct
<1>4. x.count = 0 /\ x.start = 0 /\ x.base = 0 /\ x.clean = TRUE /\ x.ci = <<"base">> /\ x.hooks = TRUE /\ x.guarded = FALSE /\ x.jmp = 0
  BY <1>1
<1>5. IsFrames(<<"base">>)
  BY DEF IsFrames
<1>6. IsSnap(x)
  <2>1. x.count \in Nat /\ x.start \in Nat /\ x.start <= x.count /\ x.base \in Nat /\ x.jmp \in Nat
    BY ONLY <1>4
  <2>2. x.clean \in BOOLEAN /\ x.hooks \in BOOLEAN /\ x.guarded \in BOOLEAN /\ IsFrames(x.ci)
    BY ONLY <1>4, <1>5
  <2> QED
    BY ONLY <2>1, <2>2 DEF IsSnap
<1>7. IsHost(a, x)
  BY <1>3, <1>4 DEF IsHost
<1>8. \A i \in 1..1 : i = 1
  OBVIOUS
<1>9. Aims(c, g, 1)
  <2>1. \A k \in (0 + 1)..1 : k = 1
    OBVIOUS
  <2> QED
    BY <1>2, <1>3, <1>4, <2>1 DEF Aims, IsTarget
<1>10. Agrees(c, g, 1)
  <2>1. g[1].hooks <=> \A k \in 1..1 : c[k].t = c[1].t => c[k].op # "hook"
    BY ONLY <1>2, <1>3, <1>4, <1>8
  <2>2. c[1].t = Main
    BY ONLY <1>2, <1>3
  <2>3. Begins(g[1].ci, g[1].ci)
    <3>1. Len(g[1].ci) = 1
      BY ONLY <1>2, <1>4
    <3> QED
      BY ONLY <3>1 DEF Begins
  <2> QED
    BY ONLY <1>8, <2>1, <2>2, <2>3 DEF Agrees
<1>11. Fresh(c, 1)
  BY DEF Fresh
<1>12. Shape(c, 1, g)
  BY <1>2, <1>3, <1>6, <1>7, <1>8, <1>9, <1>10, <1>11 DEF Shape, Level
<1>13. \A u \in Threads : thread[u] = preinit_state(IF u = Main THEN "ok" ELSE "none")
  BY DEF Init
<1>14. \A u \in Threads : Idle(thread[u])
  <2>1. ASSUME NEW u \in Threads PROVE Idle(thread[u])
    <3>1. PICK status : status = (IF u = Main THEN "ok" ELSE "none")
      OBVIOUS
    <3>2. PICK v : v = (status = "ok")
      OBVIOUS
    <3>3. thread[u] = [status |-> status, ci |-> <<"base">>, sizeci |-> BASIC_CI_SIZE, nCcalls |-> 0,
                       baseCcalls |-> 0, errfunc |-> FALSE, jmp |-> 0, allowhook |-> TRUE,
                       values |-> v, started |-> FALSE]
      <4>1. thread[u] = preinit_state(status)
        BY <1>13, <3>1
      <4> QED
        BY ONLY <3>2, <4>1, Zenon DEF preinit_state
    <3>4. status \in {"ok", "none"} /\ v \in BOOLEAN
      BY <3>1, <3>2
    <3> QED
      BY ONLY <3>3, <3>4, PreparedIdle
  <2> QED
    BY <2>1
<1>15. Matches(Main, thread[Main], x, 0)
  <2>1. PICK L : L = thread[Main]
    OBVIOUS
  <2>2. L = preinit_state("ok") /\ Idle(L)
    BY <1>3, <1>13, <1>14, <2>1
  <2>3. L.status = "ok" /\ L.nCcalls = 0 /\ L.baseCcalls = 0 /\ L.jmp = 0
    BY ONLY <2>2 DEF preinit_state
  <2>4. IsThread(L) /\ L.ci = <<"base">> /\ L.allowhook /\ ~L.errfunc
    BY <2>2, <2>3 DEF Idle
  <2>5. Counts(0, 0, x, 0)
    BY ONLY <1>4, LimitsAssumption DEF Counts
  <2> QED
    BY <1>4, <2>1, <2>3, <2>4, <2>5 DEF Matches
<1>16. IsStack(c)
  <2>1. c \in Seq({a})
    BY <1>2
  <2> QED
    BY <2>1 DEF IsStack
<1>17. IsMachine(s)
  <2>1. thread = [u \in Threads |-> thread[u]]
    BY DEF Init
  <2>2. s = [thread |-> s.thread, cstack |-> s.cstack]
    BY <1>1 DEF Machine
  <2> QED
    BY <1>2, <1>16, <2>1, <2>2 DEF IsMachine
<1>18. Waiting(c, 1, g, thread)
  <2>1. \A i \in 1..(1 - 1) : FALSE
    OBVIOUS
  <2> QED
    BY <1>14, <2>1 DEF Waiting
<1>19. At(s, g, Main, 0)
  BY <1>2, <1>3, <1>12, <1>15, <1>16, <1>17, <1>18 DEF At, Runs
<1> QED
  BY <1>1, <1>19, AtSound

LEMMA NextSound == Sound(Machine) /\ [Next]_vars => Sound(Machine')
<1> SUFFICES ASSUME Sound(Machine), [Next]_vars PROVE Sound(Machine')
  OBVIOUS
<1>1. CASE LuaStep
  <2>1. CASE \E fn \in Kinds : OpCall(fn) \/ CallMetamethod(fn)
    BY <2>1, OpCallSound, CallMetamethodSound
  <2>2. CASE OpTailCall
    BY <2>2, OpTailCallSound
  <2>3. CASE OpReturn
    BY <2>3, OpReturnSound
  <2>4. CASE CallHook
    BY <2>4, CallHookSound
  <2> QED
    BY <1>1, <2>1, <2>2, <2>3, <2>4 DEF LuaStep
<1>2. CASE CStep
  <2>1. CASE \E fn \in Kinds : lua_call(fn) \/ \E ef \in BOOLEAN : lua_pcall(fn, ef)
    BY <2>1, LuaCallSound, LuaPcallSound
  <2>2. CASE CReturn
    BY <2>2, CReturnSound
  <2>3. CASE HookReturn
    BY <2>3, HookReturnSound
  <2>4. CASE lua_yield
    BY <2>4, LuaYieldSound
  <2>5. CASE lua_load
    BY <2>5, LuaLoadSound
  <2>6. CASE \E co \in Coroutines : luaB_cocreate(co) \/ auxresume(co)
    BY <2>6, CocreateSound, AuxresumeSound
  <2> QED
    BY <1>2, <2>1, <2>2, <2>3, <2>4, <2>5, <2>6 DEF CStep
<1>3. CASE ParserStep
  BY <1>3, EnterLevelSound, LeaveLevelSound, SyntaxErrorSound, CallReaderSound, ParserReturnSound DEF ParserStep
<1>4. CASE Finish
  <2>1. CASE \E fn \in Kinds : CallHandler(fn)
    BY <2>1, CallHandlerSound
  <2>2. CASE ThrowError \/ FinishCall \/ FinishPcall
    BY <2>2, ThrowErrorSound, FinishCallSound, FinishPcallSound
  <2>3. CASE \E room \in BOOLEAN : FinishResume(room)
    BY <2>3, FinishResumeSound
  <2> QED
    BY <1>4, <2>1, <2>2, <2>3 DEF Finish
<1>5. CASE lua_error
  BY <1>5, LuaErrorSound
<1>6. CASE UNCHANGED vars
  <2>1. Machine' = Machine
    BY <1>6 DEF vars, Machine
  <2> QED
    BY <2>1
<1> QED
  BY <1>1, <1>2, <1>3, <1>4, <1>5, <1>6 DEF Next

LEMMA AlwaysSound == Spec => []Sound(Machine)
<1>1. Init => Sound(Machine)
  BY InitSound
<1>2. Sound(Machine) /\ [Next]_vars => Sound(Machine)'
  BY NextSound
<1> QED
  BY <1>1, <1>2, PTL DEF Spec

-----------------------------------------------------------------------------
(* What the invariant says of the machine while the process runs. *)

Shows(g, n, t) ==
    /\ n = Len(cstack) /\ n \in Nat /\ n > 0 /\ DOMAIN cstack = 1..n
    /\ Running = cstack[n] /\ cstack[n].t = t /\ t \in Threads
    /\ Shape(cstack, n, g) /\ Waiting(cstack, n, g, thread)
    /\ \/ Matches(t, thread[t], g[n], 0)
       \/ Returns(thread[t], g[n]) /\ cstack[n].op = "resume"

LEMMA Showing ==
    ASSUME Sound(Machine), cstack # <<>>
    PROVE  \E g, n, t : Shows(g, n, t)
<1>1. PICK s : s = Machine
  OBVIOUS
<1>2. s.cstack = cstack /\ s.thread = thread
  BY <1>1 DEF Machine
<1>3. PICK g, t : At(s, g, t, 0) \/ AtYield(s, g, t)
  BY <1>1, <1>2 DEF Sound, Exited
<1>4. Runs(thread, cstack, g, t)
  BY <1>2, <1>3 DEF At, AtYield
<1>5. PICK n : n = Len(cstack)
  OBVIOUS
<1>6. /\ n \in Nat /\ n > 0 /\ Running = cstack[n] /\ cstack[n].t = t /\ t \in Threads
      /\ Shape(cstack, n, g) /\ Waiting(cstack, n, g, thread) /\ IsStack(cstack)
  BY <1>4, <1>5, RunsFacts DEF Running
<1>7. DOMAIN cstack = 1..n
  BY <1>5, <1>6, StackFacts
<1>8. Matches(t, thread[t], g[n], 0) \/ (Returns(thread[t], g[n]) /\ cstack[n].op = "resume")
  BY <1>2, <1>3, <1>5 DEF At, AtYield
<1> QED
  BY <1>5, <1>6, <1>7, <1>8 DEF Shows

(* A thread without activations, or with j as its last one. *)
Off(u, n) == (\A i \in 1..n : cstack[i].t # u) /\ Idle(thread[u])

LastOf(u, n, j) ==
    /\ j \in 1..n /\ cstack[j].t = u
    /\ \A k \in (j + 1)..n : cstack[k].t # u

On(u, g, n, j) ==
    /\ LastOf(u, n, j)
    /\ \/ Matches(u, thread[u], g[j], 0)
       \/ j = n /\ Returns(thread[u], g[n]) /\ cstack[n].op = "resume"

LEMMA ThreadIs ==
    ASSUME NEW g, NEW n, NEW t, Shows(g, n, t), NEW u \in Threads
    PROVE  Off(u, n) \/ \E j : On(u, g, n, j)
<1>1. /\ n \in Nat /\ n > 0 /\ cstack[n].t = t /\ Shape(cstack, n, g) /\ Waiting(cstack, n, g, thread)
      /\ Matches(t, thread[t], g[n], 0) \/ (Returns(thread[t], g[n]) /\ cstack[n].op = "resume")
  BY DEF Shows
<1>2. CASE \A i \in 1..n : cstack[i].t # u
  BY <1>1, <1>2 DEF Waiting, Off
<1>3. CASE ~(\A i \in 1..n : cstack[i].t # u)
  <2>1. PICK i \in 1..n : cstack[i].t = u
    BY <1>3
  <2>2. PICK j \in i..n : /\ cstack[j].t = u /\ (\A k \in (j + 1)..n : cstack[k].t # u)
                          /\ (j < n => cstack[j + 1].op = "resume")
    <3>1. \E j \in i..n : /\ cstack[j].t = cstack[i].t
                          /\ (\A k \in (j + 1)..n : cstack[k].t # cstack[i].t)
                          /\ (j < n => cstack[j + 1].op = "resume")
      BY ONLY <1>1, i \in 1..n, TopOfThread
    <3> QED
      BY <2>1, <3>1
  <2>3. j \in 1..n /\ (j = n \/ (j < n /\ j \in 1..(n - 1)))
    BY <1>1, <2>1, <2>2
  <2>4. LastOf(u, n, j)
    BY <2>2, <2>3 DEF LastOf
  <2>5. CASE j = n
    <3>1. t = u
      BY <1>1, <2>2, <2>5
    <3> QED
      BY <1>1, <2>4, <2>5, <3>1 DEF On
  <2>6. CASE j < n /\ j \in 1..(n - 1)
    <3>1. Matches(cstack[j].t, thread[cstack[j].t], g[j], 0)
      BY <1>1, <2>2, <2>6 DEF Waiting
    <3> QED
      BY <2>2, <2>4, <3>1 DEF On
  <2> QED
    BY <2>3, <2>5, <2>6
<1> QED
  BY <1>2, <1>3

IsOn(u, g, n, t, j) ==
    /\ n \in Nat /\ j \in 1..n /\ cstack[j].t = u /\ \A k \in 1..n : cstack[k].t = u => k \in 1..j
    /\ IsAct(cstack[j]) /\ IsSnap(g[j]) /\ Aims(cstack, g, j) /\ Agrees(cstack, g, j)
    /\ IsThread(thread[u]) /\ Counts(thread[u].nCcalls, thread[u].baseCcalls, g[j], 0)
    /\ thread[u].jmp = g[j].jmp
    /\ DOMAIN cstack = 1..n
    /\ \/ Matches(u, thread[u], g[j], 0)
       \/ /\ j = n /\ u = t /\ Returns(thread[u], g[n])
          /\ cstack[n] = [op |-> "resume", t |-> u, previous |-> 0]
          /\ g[n].hooks

LEMMA OnFacts ==
    ASSUME NEW g, NEW n, NEW t, Shows(g, n, t), NEW u \in Threads, NEW j, On(u, g, n, j)
    PROVE  IsOn(u, g, n, t, j)
<1>1. n \in Nat /\ Shape(cstack, n, g) /\ cstack[n].t = t /\ DOMAIN cstack = 1..n /\ n > 0
  BY DEF Shows
<1>2. LastOf(u, n, j) /\ (Matches(u, thread[u], g[j], 0) \/ (j = n /\ Returns(thread[u], g[n]) /\ cstack[n].op = "resume"))
  BY DEF On
<1>3. j \in 1..n /\ cstack[j].t = u
  BY <1>2 DEF LastOf
<1>4. ASSUME NEW k \in 1..n, cstack[k].t = u PROVE k \in 1..j
  <2>1. k \notin (j + 1)..n
    BY <1>2, <1>4 DEF LastOf
  <2> QED
    BY <1>1, <1>3, <2>1
<1>5. IsAct(cstack[j]) /\ IsSnap(g[j]) /\ Aims(cstack, g, j) /\ Agrees(cstack, g, j)
  BY <1>1, <1>3, LevelFacts
<1>6. IsThread(thread[u]) /\ Counts(thread[u].nCcalls, thread[u].baseCcalls, g[j], 0) /\ thread[u].jmp = g[j].jmp
  BY <1>2 DEF Matches, Returns
<1>7. ASSUME j = n, Returns(thread[u], g[n]), cstack[n].op = "resume"
      PROVE  u = t /\ cstack[n] = [op |-> "resume", t |-> u, previous |-> 0] /\ g[n].hooks
  <2>1. n # 1
    <3>1. IsHost(cstack[1], g[1])
      BY <1>1, LevelFacts
    <3> QED
      BY <1>7, <3>1 DEF IsHost
  <2>2. n \in 2..n
    BY <1>1, <2>1
  <2>3. Enters(cstack[n - 1], g[n - 1], cstack[n], g[n], n)
    BY <1>1, <2>2, LevelFacts
  <2>4. Starts(g[n - 1], cstack[n], g[n])
    BY <1>7, <2>3 DEF Enters
  <2> QED
    BY <1>1, <1>3, <1>7, <2>4 DEF Starts
<1> QED
  BY <1>1, <1>2, <1>3, <1>4, <1>5, <1>6, <1>7 DEF IsOn

-----------------------------------------------------------------------------
(* The properties, one by one. *)

LEMMA SoundTypes == ASSUME Sound(Machine) PROVE TypeOK
<1>1. ASSUME NEW u \in Threads PROVE IsThread(thread[u]) /\ thread[u].jmp \in 0..Len(cstack)
  <2>1. CASE cstack = <<>>
    <3>1. Machine.cstack = <<>> /\ Machine.thread = thread
      BY <2>1 DEF Machine
    <3>2. Len(cstack) = 0
      BY <2>1
    <3>3. ASSUME NEW g, NEW t, At(Machine, g, t, 0) \/ AtYield(Machine, g, t) PROVE FALSE
      BY <3>1, <3>3 DEF At, AtYield, Runs
    <3>4. Exited(Machine)
      BY <3>3 DEF Sound
    <3> QED
      BY <3>1, <3>2, <3>4 DEF Exited
  <2>2. CASE cstack # <<>>
    <3>1. PICK g, n, t : Shows(g, n, t)
      BY <2>2, Showing
    <3>2. n = Len(cstack) /\ n \in Nat
      BY <3>1 DEF Shows
    <3>3. CASE Off(u, n)
      BY <3>2, <3>3 DEF Off, Idle
    <3>4. ASSUME NEW j, On(u, g, n, j) PROVE IsThread(thread[u]) /\ thread[u].jmp \in 0..n
      <4>1. IsThread(thread[u]) /\ j \in 1..n /\ thread[u].jmp = g[j].jmp /\ Aims(cstack, g, j)
        <5>1. IsOn(u, g, n, t, j)
          BY <3>1, <3>4, OnFacts
        <5> QED
          BY <5>1 DEF IsOn
      <4> QED
        BY <3>2, <4>1 DEF Aims
    <3> QED
      BY <3>1, <3>2, <3>3, <3>4, ThreadIs
  <2> QED
    BY <2>1, <2>2
<1>2. ASSUME NEW L, IsThread(L)
      PROVE  /\ L.status \in Statuses
             /\ L.ci \in Seq({"base", "Lua", "C"}) /\ Head(L.ci) = "base"
             /\ Len(L.ci) <= L.sizeci /\ L.sizeci <= 2 * LUAI_MAXCALLS
             /\ {L.nCcalls, L.baseCcalls} \subseteq 0..LUAI_MAXCCALLS + Slack
             /\ {L.errfunc, L.allowhook, L.values} \subseteq BOOLEAN
  <2>1. L.status \in Statuses /\ L.nCcalls \in 0..(LUAI_MAXCCALLS + Slack)
        /\ L.baseCcalls \in 0..(LUAI_MAXCCALLS + Slack)
    BY <1>2 DEF IsThread
  <2>2. L.errfunc \in BOOLEAN /\ L.allowhook \in BOOLEAN /\ L.values \in BOOLEAN
    BY <1>2 DEF IsThread
  <2>3. L.sizeci \in 2..(2 * LUAI_MAXCALLS) /\ Len(L.ci) <= L.sizeci /\ IsFrames(L.ci)
    BY <1>2 DEF IsThread
  <2>4. L.sizeci <= 2 * LUAI_MAXCALLS
    BY <2>3
  <2>5. PICK f : f = L.ci
    OBVIOUS
  <2>6. f \in Seq({"base", "Lua", "C"}) /\ f[1] = "base" /\ Len(f) >= 1
    BY <2>3, <2>5 DEF IsFrames
  <2>7. Head(f) = f[1]
    BY ONLY <2>6
  <2> QED
    BY <2>1, <2>2, <2>3, <2>4, <2>5, <2>6, <2>7
<1> QED
  BY <1>1, <1>2 DEF TypeOK

LEMMA SoundJumps == ASSUME Sound(Machine) PROVE JumpBufferLive
<1> SUFFICES ASSUME cstack # <<>>, NEW u \in Threads
             PROVE  LET targets == Activations(u, {"pcall", "resume"})
                    IN  thread[u].jmp = IF targets = {} THEN 0
                                        ELSE CHOOSE i \in targets : \A j \in targets : j <= i
  BY DEF JumpBufferLive
<1> DEFINE S == Activations(u, {"pcall", "resume"})
<1>1. PICK g, n, t : Shows(g, n, t)
  BY Showing
<1>2. n \in Nat /\ DOMAIN cstack = 1..n
  BY <1>1 DEF Shows
<1>3. \A i : i \in S <=> i \in 1..n /\ cstack[i].t = u /\ IsTarget(cstack[i])
  BY <1>2 DEF Activations, IsTarget
<1> HIDE DEF S
<1>4. ASSUME Off(u, n)
      PROVE  thread[u].jmp = IF S = {} THEN 0 ELSE CHOOSE i \in S : \A k \in S : k <= i
  <2>1. thread[u].jmp = 0 /\ \A i \in 1..n : cstack[i].t # u
    BY <1>4 DEF Off, Idle
  <2>2. S = {}
    BY <1>3, <2>1
  <2> QED
    BY <2>1, <2>2
<1>5. ASSUME NEW j, On(u, g, n, j)
      PROVE  thread[u].jmp = IF S = {} THEN 0 ELSE CHOOSE i \in S : \A k \in S : k <= i
  <2>1. j \in 1..n /\ cstack[j].t = u /\ (\A k \in 1..n : cstack[k].t = u => k \in 1..j)
        /\ Aims(cstack, g, j) /\ thread[u].jmp = g[j].jmp
    <3>1. IsOn(u, g, n, t, j)
      BY <1>1, <1>5, OnFacts
    <3> QED
      BY <3>1 DEF IsOn
  <2>2. PICK b : b = g[j].jmp
    OBVIOUS
  <2>3. /\ b \in 0..j
        /\ b > 0 => IsTarget(cstack[b]) /\ cstack[b].t = u
        /\ \A k \in (b + 1)..j : ~IsTarget(cstack[k])
    BY <2>1, <2>2 DEF Aims
  <2>4. ASSUME NEW k \in S PROVE k <= b /\ b > 0
    <3>1. k \in 1..j /\ IsTarget(cstack[k])
      BY <1>3, <2>1
    <3>2. k \notin (b + 1)..j
      BY <2>3, <3>1
    <3> QED
      BY <1>2, <2>1, <2>3, <3>1, <3>2
  <2>5. b > 0 => b \in S
    BY <1>2, <1>3, <2>1, <2>3
  <2>6. CASE b = 0
    BY <2>1, <2>2, <2>4, <2>6
  <2>7. CASE b > 0
    <3>1. b \in S /\ \A k \in S : k <= b
      BY <2>4, <2>5, <2>7
    <3>2. \A i \in S : (\A k \in S : k <= i) => i = b
      <4>1. \A i \in S : i \in Nat
        BY <1>3
      <4>2. b \in Nat
        BY <1>2, <2>1, <2>3
      <4> QED
        BY <3>1, <4>1, <4>2
    <3>3. b = CHOOSE i \in S : \A k \in S : k <= i
      BY ONLY <3>1, <3>2
    <3> QED
      BY <2>1, <2>2, <3>1, <3>3
  <2> QED
    BY <2>3, <2>6, <2>7
<1> QED
  BY <1>1, <1>4, <1>5, ThreadIs DEF S

LEMMA SoundHooks == ASSUME Sound(Machine) PROVE HooksOffInHook
<1> SUFFICES ASSUME cstack # <<>>, NEW u \in Threads, thread[u].status \in {"ok", "yield"}
             PROVE  thread[u].allowhook <=> Activations(u, {"hook"}) = {}
  BY DEF HooksOffInHook
<1>1. PICK g, n, t : Shows(g, n, t)
  BY Showing
<1>2. n \in Nat /\ DOMAIN cstack = 1..n
  BY <1>1 DEF Shows
<1>3. Activations(u, {"hook"}) = {} <=> \A k \in 1..n : cstack[k].t = u => cstack[k].op # "hook"
  BY <1>2 DEF Activations
<1>4. CASE Off(u, n)
  <2>1. thread[u].allowhook
    BY <1>4 DEF Off, Idle, Yielded
  <2>2. \A k \in 1..n : cstack[k].t # u
    BY <1>4 DEF Off
  <2> QED
    BY <1>3, <2>1, <2>2
<1>5. ASSUME NEW j, On(u, g, n, j)
      PROVE  thread[u].allowhook <=> Activations(u, {"hook"}) = {}
  <2>1. /\ j \in 1..n /\ cstack[j].t = u /\ (\A k \in 1..n : cstack[k].t = u => k \in 1..j)
        /\ Agrees(cstack, g, j)
        /\ Matches(u, thread[u], g[j], 0) \/ (j = n /\ Returns(thread[u], g[n]) /\ g[n].hooks)
    <3>1. IsOn(u, g, n, t, j)
      BY <1>1, <1>5, OnFacts
    <3> QED
      BY <3>1 DEF IsOn
  <2>2. thread[u].allowhook <=> g[j].hooks
    BY <2>1 DEF Matches, Returns, Yielded
  <2>3. g[j].hooks <=> \A k \in 1..j : cstack[k].t = u => cstack[k].op # "hook"
    BY <2>1 DEF Agrees
  <2>4. \A k \in 1..j : k \in 1..n
    BY <1>2, <2>1
  <2> QED
    BY <1>3, <2>1, <2>2, <2>3, <2>4
<1> QED
  BY <1>1, <1>4, <1>5, ThreadIs

LEMMA SoundHandlers == ASSUME Sound(Machine) PROVE HandlerIsInnermost
<1> SUFFICES ASSUME cstack # <<>>, NEW u \in Threads, thread[u].errfunc, thread[u].status = "ok"
             PROVE  Activations(u, {"pcall"}) # {}
  BY DEF HandlerIsInnermost
<1>1. PICK g, n, t : Shows(g, n, t)
  BY Showing
<1>2. ~Off(u, n)
  BY DEF Off, Idle
<1>3. PICK j : On(u, g, n, j)
  BY <1>1, <1>2, ThreadIs
<1>4. /\ j \in 1..n /\ cstack[j].t = u /\ Aims(cstack, g, j) /\ DOMAIN cstack = 1..n /\ n \in Nat
      /\ Matches(u, thread[u], g[j], 0) \/ Returns(thread[u], g[n])
  <2>1. IsOn(u, g, n, t, j)
    BY <1>1, <1>3, OnFacts
  <2> QED
    BY <2>1 DEF IsOn
<1>5. g[j].guarded
  BY <1>4 DEF Matches, Returns, Yielded
<1>6. PICK b : b = g[j].jmp
  OBVIOUS
<1>7. b \in 0..j /\ b > 0 /\ cstack[b].op = "pcall" /\ cstack[b].t = u
  BY <1>4, <1>5, <1>6 DEF Aims
<1>8. b \in 1..n
  BY <1>4, <1>7
<1> QED
  BY <1>4, <1>7, <1>8 DEF Activations

LEMMA SoundStatus == ASSUME Sound(Machine) PROVE StatusIsTrue
<1> SUFFICES ASSUME cstack # <<>>, NEW co \in Coroutines, NEW status, status = costatus(Running.t, co),
                    NEW active, active = (Activations(co, {"resume"}) # {})
             PROVE  /\ status = "running" => active
                    /\ status = "normal" => active
                    /\ status = "suspended" => (~active \/ Running.op = "resume")
                    /\ status = "suspended" => thread[co].status = "yield" \/ Len(thread[co].ci) = 1
  BY Zenon DEF StatusIsTrue
<1>1. PICK g, n, t : Shows(g, n, t)
  BY Showing
<1>2. co \in Threads /\ co # Main
  BY DEF Coroutines
<1>3. n \in Nat /\ DOMAIN cstack = 1..n /\ Running.t = t /\ n > 0 /\ cstack[n].t = t
  BY <1>1 DEF Shows
<1>4. CASE Off(co, n)
  <2>1. ~active
    BY <1>3, <1>4 DEF Off, Activations
  <2>2. t # co
    BY <1>3, <1>4 DEF Off
  <2>3. thread[co].status = "ok" => Len(thread[co].ci) = 1
    BY <1>4 DEF Off, Idle
  <2>4. status = IF thread[co].status = "yield" THEN "suspended"
                 ELSE IF thread[co].status # "ok" THEN "dead"
                 ELSE IF Len(thread[co].ci) > 1 THEN "normal"
                 ELSE IF ~thread[co].values THEN "dead" ELSE "suspended"
    BY <1>3, <2>2 DEF costatus
  <2>5. thread[co].status = "ok" => ~(Len(thread[co].ci) > 1)
    <3>1. ~(1 > 1)
      OBVIOUS
    <3> QED
      BY ONLY <2>3, <3>1, Zenon
  <2>6. status # "running" /\ status # "normal"
    BY ONLY <2>4, <2>5
  <2>7. status = "suspended" => thread[co].status = "yield" \/ Len(thread[co].ci) = 1
    BY ONLY <2>3, <2>4
  <2> QED
    BY <2>1, <2>6, <2>7
<1>5. ASSUME NEW j, On(co, g, n, j)
      PROVE  active /\ status # "suspended"
  <2>1. /\ j \in 1..n /\ cstack[j].t = co /\ Agrees(cstack, g, j)
        /\ Matches(co, thread[co], g[j], 0) \/ co = t
    <3>1. IsOn(co, g, n, t, j)
      BY <1>1, <1>2, <1>5, OnFacts
    <3> QED
      BY <3>1 DEF IsOn
  <2>2. PICK r \in 1..j : cstack[r].t = co /\ cstack[r].op = "resume"
    BY <1>2, <2>1 DEF Agrees
  <2>3. r \in 1..n
    BY <1>3, <2>1
  <2>4. active
    BY <1>3, <2>2, <2>3 DEF Activations
  <2>5. status # "suspended"
    BY <1>2, <1>3, <2>1 DEF costatus, Matches
  <2> QED
    BY <2>4, <2>5
<1> QED
  BY <1>1, <1>2, <1>4, <1>5, ThreadIs

LEMMA SoundRestored == ASSUME Sound(Machine) PROVE CcallsRestored
<1> SUFFICES ASSUME Len(cstack) = 1 PROVE thread[Main].nCcalls = 0
  BY DEF CcallsRestored
<1>1. cstack # <<>>
  OBVIOUS
<1>2. PICK g, n, t : Shows(g, n, t)
  BY <1>1, Showing
<1>3. n = 1 /\ Shape(cstack, n, g) /\ cstack[n].t = t
      /\ (Matches(t, thread[t], g[n], 0) \/ cstack[n].op = "resume")
  BY <1>2 DEF Shows
<1>4. IsHost(cstack[1], g[1])
  BY <1>3, LevelFacts
<1>5. t = Main /\ Matches(t, thread[t], g[1], 0) /\ g[1].count = 0 /\ g[1].clean
  BY <1>3, <1>4 DEF IsHost
<1>6. thread[Main].nCcalls = g[1].count + 0
  BY <1>5 DEF Matches, Counts
<1> QED
  BY <1>5, <1>6

LEMMA SoundYields == ASSUME Sound(Machine) PROVE YieldReachesResume
<1> SUFFICES ASSUME NEW u \in Threads, thread[u].status = "yield"
             PROVE  /\ ~thread[u].errfunc
                    /\ \/ Activations(u, {"exec", "body", "hook", "call", "pcall", "resume"}) = {}
                       \/ Running = [op |-> "resume", t |-> u, previous |-> 0]
  BY DEF YieldReachesResume
<1>1. CASE cstack = <<>>
  <2>1. Machine.cstack = <<>> /\ Machine.thread = thread
    BY <1>1 DEF Machine
  <2>2. ASSUME NEW g, NEW t, At(Machine, g, t, 0) \/ AtYield(Machine, g, t) PROVE FALSE
    BY <2>1, <2>2 DEF At, AtYield, Runs
  <2>3. Exited(Machine)
    BY <2>2 DEF Sound
  <2>4. ~thread[u].errfunc
    BY <2>1, <2>3 DEF Exited
  <2>5. DOMAIN cstack = {}
    BY <1>1
  <2> QED
    BY <2>4, <2>5 DEF Activations
<1>2. CASE cstack # <<>>
  <2>1. PICK g, n, t : Shows(g, n, t)
    BY <1>2, Showing
  <2>2. n \in Nat /\ DOMAIN cstack = 1..n /\ Running = cstack[n]
    BY <2>1 DEF Shows
  <2>3. CASE Off(u, n)
    <3>1. ~thread[u].errfunc
      BY <2>3 DEF Off, Idle, Yielded
    <3>2. Activations(u, {"exec", "body", "hook", "call", "pcall", "resume"}) = {}
      BY <2>2, <2>3 DEF Off, Activations
    <3> QED
      BY <3>1, <3>2
  <2>4. ASSUME NEW j, On(u, g, n, j)
        PROVE  ~thread[u].errfunc /\ Running = [op |-> "resume", t |-> u, previous |-> 0]
    <3>1. \/ Matches(u, thread[u], g[j], 0)
          \/ Returns(thread[u], g[n]) /\ cstack[n] = [op |-> "resume", t |-> u, previous |-> 0]
      <4>1. IsOn(u, g, n, t, j)
        BY <2>1, <2>4, OnFacts
      <4> QED
        BY <4>1 DEF IsOn
    <3>2. ~Matches(u, thread[u], g[j], 0)
      BY DEF Matches
    <3> QED
      BY <2>2, <3>1, <3>2 DEF Returns, Yielded
  <2> QED
    BY <2>1, <2>3, <2>4, ThreadIs
<1> QED
  BY <1>1, <1>2

-----------------------------------------------------------------------------
(* What the snapshots count is what the C stack holds. *)

(* A set of numbers has a first one. *)
LEMMA HasFirst ==
    ASSUME NEW S, S \subseteq Nat, S # {}
    PROVE  \E i \in S : \A j \in S : i <= j
<1> DEFINE R == {ss \in Nat \X Nat : ss[1] < ss[2]}
<1>1. IsWellFoundedOn(R, Nat)
  BY LessIsWellFounded
<1>2. PICK i0 \in S : TRUE
  OBVIOUS
<1> HIDE DEF R
<1>3. PICK x \in S : \A y \in S : ~(<<y, x>> \in R)
  BY <1>1, <1>2, WFMin
<1>4. \A y \in S : ~(y < x)
  BY <1>3 DEF R
<1> QED
  BY <1>3, <1>4

LEMMA CcallsUpToIs ==
    ASSUME NEW g, NEW n, NEW t, Shows(g, n, t)
    PROVE  CcallsUpTo[n] = g[n].count
<1>1. n \in Nat /\ n > 0 /\ n = Len(cstack) /\ Shape(cstack, n, g)
  BY DEF Shows
<1>2. g[1].count = 0 /\ CcallsOf(cstack[1]) = 0
  <2>1. IsHost(cstack[1], g[1])
    BY <1>1, LevelFacts
  <2>2. g[1].count = 0 /\ cstack[1].op = "body"
    BY ONLY <2>1 DEF IsHost
  <2> QED
    BY ONLY <2>2 DEF CcallsOf
<1>3. \A i \in 2..n : g[i].count = g[i - 1].count + CcallsOf(cstack[i])
  <2>1. \A i \in 2..n : Enters(cstack[i - 1], g[i - 1], cstack[i], g[i], i)
    BY <1>1, LevelFacts
  <2> QED
    BY ONLY <2>1 DEF Enters
<1>4. PICK w : w = [i \in 0..Len(cstack) |-> IF i = 0 THEN 0 ELSE g[i].count]
  OBVIOUS
<1>5. ASSUME NEW i \in 0..Len(cstack)
      PROVE  w[i] = IF i = 0 THEN 0 ELSE w[i - 1] + CcallsOf(cstack[i])
  <2>1. CASE i = 0
    BY <1>4, <2>1
  <2>2. CASE i = 1
    BY <1>1, <1>2, <1>4, <2>2
  <2>3. CASE i \in 2..n
    <3>1. i - 1 \in 0..Len(cstack) /\ i - 1 # 0 /\ i # 0
      BY <1>1, <2>3
    <3> QED
      BY <1>3, <1>4, <2>3, <3>1
  <2> QED
    BY <1>1, <2>1, <2>2, <2>3
<1>6. w = [i \in 0..Len(cstack) |-> IF i = 0 THEN 0 ELSE w[i - 1] + CcallsOf(cstack[i])]
  BY <1>4, <1>5
<1>7. PICK upto : /\ upto = [i \in 0..Len(cstack) |-> IF i = 0 THEN 0 ELSE upto[i - 1] + CcallsOf(cstack[i])]
                  /\ CcallsUpTo = [i \in 0..Len(cstack) |-> upto[i]]
  BY <1>6, Zenon DEF CcallsUpTo
<1>8. ASSUME NEW k \in 0..Len(cstack), upto[k] # w[k] PROVE FALSE
  <2> DEFINE S == {i \in 0..Len(cstack) : upto[i] # w[i]}
  <2>1. PICK i \in S : \A l \in S : i <= l
    <3>1. S \subseteq Nat /\ k \in S
      BY <1>1, <1>8
    <3> QED
      BY <3>1, HasFirst
  <2>2. i \in 0..Len(cstack) /\ upto[i] # w[i]
    OBVIOUS
  <2>3. /\ upto[i] = IF i = 0 THEN 0 ELSE upto[i - 1] + CcallsOf(cstack[i])
        /\ w[i] = IF i = 0 THEN 0 ELSE w[i - 1] + CcallsOf(cstack[i])
    BY <1>5, <1>7, <2>2
  <2>4. CASE i = 0
    BY <2>2, <2>3, <2>4
  <2>5. CASE i > 0
    <3>1. i - 1 \in 0..Len(cstack) /\ ~(i <= i - 1)
      BY <1>1, <2>2, <2>5
    <3>2. upto[i - 1] = w[i - 1]
      BY <2>1, <3>1
    <3> QED
      BY <2>2, <2>3, <3>2
  <2> QED
    BY <1>1, <2>2, <2>4, <2>5
<1>9. CcallsUpTo[n] = w[n]
  BY <1>1, <1>7, <1>8
<1> QED
  BY <1>1, <1>4, <1>9

LEMMA SoundCounts == ASSUME Sound(Machine) PROVE CcallsCounted
<1> SUFFICES ASSUME cstack # <<>>
             PROVE  CcallsUpTo[Len(cstack)] <= thread[Running.t].nCcalls
                    /\ CcallsUpTo[Len(cstack)] < LUAI_MAXCCALLS + Slack
  BY DEF CcallsCounted
<1>1. PICK g, n, t : Shows(g, n, t)
  BY Showing
<1>2. n = Len(cstack) /\ n \in Nat /\ n > 0 /\ Running.t = t /\ Shape(cstack, n, g)
      /\ Counts(thread[t].nCcalls, thread[t].baseCcalls, g[n], 0)
  BY <1>1 DEF Shows, Matches, Returns
<1>3. CcallsUpTo[Len(cstack)] = g[n].count
  BY <1>1, <1>2, CcallsUpToIs
<1>4. g[n].count \in Nat
  <2>1. n \in 1..n
    BY <1>2
  <2> QED
    BY <1>2, <2>1, LevelFacts DEF IsSnap
<1>5. PICK x, y : x = g[n].count /\ y = thread[t].nCcalls
  OBVIOUS
<1>6. x + 0 <= y /\ y < LUAI_MAXCCALLS + Slack + 0 /\ x \in Nat /\ y \in Nat
  BY <1>2, <1>4, <1>5 DEF Counts
<1>7. x <= y /\ x < LUAI_MAXCCALLS + Slack
  BY ONLY <1>6, LimitsAssumption
<1> QED
  BY <1>2, <1>3, <1>5, <1>7

(* The frames of u when everything above i is gone: those of its topmost activation. *)
TopFrames(u, g, i, f) ==
    \/ f = 1 /\ \A k \in 1..i : cstack[k].t # u
    \/ \E k \in 1..i : LastOf(u, i, k) /\ f = Len(g[k].ci)

LEMMA TopFramesIs ==
    ASSUME NEW u, NEW g, NEW i, NEW k, LastOf(u, i, k), i \in Nat,
           NEW f, TopFrames(u, g, i, f)
    PROVE  f = Len(g[k].ci)
<1>1. k \in 1..i /\ cstack[k].t = u /\ \A l \in (k + 1)..i : cstack[l].t # u
  BY DEF LastOf
<1>2. PICK m \in 1..i : LastOf(u, i, m) /\ f = Len(g[m].ci)
  BY <1>1 DEF TopFrames
<1>3. m \in 1..i /\ cstack[m].t = u /\ \A l \in (m + 1)..i : cstack[l].t # u
  BY <1>2 DEF LastOf
<1>4. k \notin (m + 1)..i /\ m \notin (k + 1)..i
  BY <1>1, <1>3
<1>5. m = k
  BY <1>1, <1>3, <1>4
<1> QED
  BY <1>2, <1>5

LEMMA TopFramesExist ==
    ASSUME NEW u, NEW g, NEW i \in Nat
    PROVE  \E f : TopFrames(u, g, i, f)
<1>1. CASE \A k \in 1..i : cstack[k].t # u
  BY <1>1 DEF TopFrames
<1>2. CASE ~(\A k \in 1..i : cstack[k].t # u)
  <2> DEFINE S == {k \in 1..i : cstack[k].t = u}
  <2>1. S \subseteq 1..i /\ S # {}
    BY <1>2
  <2>2. PICK k \in S : \A l \in S : l <= k
    BY ONLY <2>1, HasLast, i \in Nat
  <2>3. k \in 1..i /\ cstack[k].t = u
    BY <2>2
  <2>4. \A l \in (k + 1)..i : cstack[l].t # u
    BY <2>2, <2>3
  <2>5. LastOf(u, i, k)
    BY <2>3, <2>4 DEF LastOf
  <2> QED
    BY <2>3, <2>5 DEF TopFrames
<1> QED
  BY <1>1, <1>2

(* An activation adds the frames it runs to those of its thread. *)
LEMMA FramesAdded ==
    ASSUME NEW g, NEW n, NEW t, Shows(g, n, t), NEW u, NEW i \in 2..n,
           NEW f0, TopFrames(u, g, i - 1, f0), NEW f, TopFrames(u, g, i, f)
    PROVE  /\ f = f0 + IF cstack[i].t = u THEN FramesOf(cstack[i]) ELSE 0
           /\ f0 \in Nat
           /\ cstack[i].t = u /\ cstack[i].op # "resume" => f0 = Len(g[i - 1].ci) /\ Stays(cstack[i - 1], g[i - 1], cstack[i], g[i])
<1>1. n \in Nat /\ Shape(cstack, n, g)
  BY DEF Shows
<1>2. i - 1 \in 1..n /\ i \in 1..n /\ i - 1 \in Nat /\ i \in Nat
  BY <1>1
<1>3. Enters(cstack[i - 1], g[i - 1], cstack[i], g[i], i) /\ Fresh(cstack, i)
  BY <1>1, <1>2, LevelFacts
<1>4. f0 \in Nat
  <2>1. ASSUME NEW k \in 1..(i - 1) PROVE Len(g[k].ci) \in Nat
    <3>1. k \in 1..n
      BY <1>1, <1>2
    <3>2. IsSnap(g[k])
      BY <1>1, <3>1, LevelFacts
    <3> QED
      BY <3>2, FramesFacts DEF IsSnap
  <2> QED
    BY <2>1 DEF TopFrames
<1>5. CASE cstack[i].t # u
  <2>1. \A k \in 1..i : k \in 1..(i - 1) \/ k = i
    BY <1>2
  <2>2. f = f0
    <3>1. CASE \A k \in 1..i : cstack[k].t # u
      <4>1. f = 1
        BY <3>1 DEF TopFrames, LastOf
      <4>2. \A k \in 1..(i - 1) : cstack[k].t # u
        BY <1>2, <3>1
      <4>3. f0 = 1
        BY <4>2 DEF TopFrames, LastOf
      <4> QED
        BY <4>1, <4>3
    <3>2. CASE ~(\A k \in 1..i : cstack[k].t # u)
      <4>1. PICK k \in 1..i : LastOf(u, i, k) /\ f = Len(g[k].ci)
        BY <3>2 DEF TopFrames
      <4>2. k \in 1..(i - 1)
        BY <1>5, <2>1, <4>1 DEF LastOf
      <4>3. \A l \in (k + 1)..(i - 1) : l \in (k + 1)..i
        BY <1>2, <4>2
      <4>4. LastOf(u, i - 1, k)
        BY <4>1, <4>2, <4>3 DEF LastOf
      <4>5. f0 = Len(g[k].ci)
        BY <1>2, <4>4, TopFramesIs
      <4> QED
        BY <4>1, <4>5
    <3> QED
      BY <3>1, <3>2
  <2> QED
    BY <1>4, <1>5, <2>2
<1>6. CASE cstack[i].t = u /\ cstack[i].op = "resume"
  <2>1. \A k \in 1..(i - 1) : cstack[k].t # u
    <3>1. i \in 2..i
      BY <1>2
    <3> QED
      BY <1>3, <1>6, <3>1 DEF Fresh
  <2>2. f0 = 1
    BY <2>1 DEF TopFrames, LastOf
  <2>3. LastOf(u, i, i)
    BY <1>2, <1>6 DEF LastOf
  <2>4. f = Len(g[i].ci)
    BY <1>2, <2>3, TopFramesIs
  <2>5. g[i].ci = <<"base">>
    BY <1>3, <1>6 DEF Enters, Starts
  <2>6. FramesOf(cstack[i]) = 0
    BY <1>6 DEF FramesOf
  <2>7. f = 1
    BY <2>4, <2>5
  <2> QED
    BY <1>4, <1>6, <2>2, <2>6, <2>7
<1>7. CASE cstack[i].t = u /\ cstack[i].op # "resume"
  <2>1. Stays(cstack[i - 1], g[i - 1], cstack[i], g[i])
    BY <1>3, <1>7 DEF Enters
  <2>2. cstack[i - 1].t = u /\ Len(g[i].ci) = Len(g[i - 1].ci) + FramesOf(cstack[i])
    BY <1>7, <2>1 DEF Stays, Extends
  <2>3. LastOf(u, i, i) /\ LastOf(u, i - 1, i - 1)
    BY <1>2, <1>7, <2>2 DEF LastOf
  <2>4. f = Len(g[i].ci)
    BY <1>2, <2>3, TopFramesIs
  <2>5. f0 = Len(g[i - 1].ci)
    BY <1>2, <2>3, TopFramesIs
  <2> QED
    BY <1>4, <1>7, <2>1, <2>2, <2>4, <2>5
<1> QED
  BY <1>5, <1>6, <1>7

LEMMA FramesUpToIs ==
    ASSUME NEW g, NEW n, NEW t, Shows(g, n, t), NEW u
    PROVE  \A i \in 1..n : TopFrames(u, g, i, FramesUpTo(u)[i])
<1>1. n \in Nat /\ n > 0 /\ DOMAIN cstack = 1..n /\ Shape(cstack, n, g)
  BY DEF Shows
<1>2. PICK w : w = [i \in DOMAIN cstack |-> CHOOSE f : TopFrames(u, g, i, f)]
  OBVIOUS
<1>3. \A i \in 1..n : TopFrames(u, g, i, w[i])
  <2>1. ASSUME NEW i \in 1..n PROVE TopFrames(u, g, i, w[i])
    <3>1. w[i] = CHOOSE f : TopFrames(u, g, i, f)
      BY <1>1, <1>2
    <3>2. \E f : TopFrames(u, g, i, f)
      BY TopFramesExist
    <3> QED
      BY ONLY <3>1, <3>2
  <2> QED
    BY <2>1
<1>4. ASSUME NEW i \in DOMAIN cstack
      PROVE  w[i] = IF i = 1 THEN 1 ELSE w[i - 1] + IF cstack[i].t = u THEN FramesOf(cstack[i]) ELSE 0
  <2>1. CASE i = 1
    <3>1. TopFrames(u, g, 1, w[1])
      BY <1>1, <1>3
    <3>2. g[1].ci = <<"base">>
      BY <1>1, LevelFacts DEF IsHost
    <3>3. Len(g[1].ci) = 1 /\ \A k \in 1..1 : k = 1
      BY <3>2
    <3> QED
      BY <2>1, <3>1, <3>3 DEF TopFrames
  <2>2. CASE i # 1
    <3>1. i \in 2..n /\ i \in 1..n /\ i - 1 \in 1..n
      BY <1>1, <2>2
    <3>2. TopFrames(u, g, i - 1, w[i - 1]) /\ TopFrames(u, g, i, w[i])
      BY <1>3, <3>1
    <3> QED
      BY <2>2, <3>1, <3>2, FramesAdded
  <2> QED
    BY <2>1, <2>2
<1>5. w = [i \in DOMAIN cstack |->
            IF i = 1 THEN 1 ELSE w[i - 1] + IF cstack[i].t = u THEN FramesOf(cstack[i]) ELSE 0]
  BY <1>2, <1>4
<1>6. PICK upto : /\ upto = [i \in DOMAIN cstack |->
                              IF i = 1 THEN 1 ELSE upto[i - 1] + IF cstack[i].t = u THEN FramesOf(cstack[i]) ELSE 0]
                  /\ FramesUpTo(u) = [i \in DOMAIN cstack |-> upto[i]]
  BY <1>5, Zenon DEF FramesUpTo
<1>7. ASSUME NEW k \in 1..n, upto[k] # w[k] PROVE FALSE
  <2> DEFINE S == {i \in 1..n : upto[i] # w[i]}
  <2>1. PICK i \in S : \A l \in S : i <= l
    <3>1. S \subseteq Nat /\ k \in S
      BY <1>1, <1>7
    <3> QED
      BY <3>1, HasFirst
  <2>2. i \in 1..n /\ upto[i] # w[i]
    OBVIOUS
  <2>3. /\ upto[i] = IF i = 1 THEN 1 ELSE upto[i - 1] + IF cstack[i].t = u THEN FramesOf(cstack[i]) ELSE 0
        /\ w[i] = IF i = 1 THEN 1 ELSE w[i - 1] + IF cstack[i].t = u THEN FramesOf(cstack[i]) ELSE 0
    BY <1>1, <1>4, <1>6, <2>2
  <2>4. CASE i = 1
    BY <2>2, <2>3, <2>4
  <2>5. CASE i > 1
    <3>1. i - 1 \in 1..n /\ ~(i <= i - 1) /\ i # 1
      BY <1>1, <2>2, <2>5
    <3>2. upto[i - 1] = w[i - 1]
      BY <2>1, <3>1
    <3> QED
      BY <2>2, <2>3, <3>1, <3>2
  <2> QED
    BY <1>1, <2>2, <2>4, <2>5
<1>8. ASSUME NEW i \in 1..n PROVE FramesUpTo(u)[i] = w[i]
  BY <1>1, <1>6, <1>7
<1> QED
  BY <1>3, <1>8

LEMMA SoundFrames == ASSUME Sound(Machine) PROVE FramesMatchActivations
<1> SUFFICES ASSUME cstack # <<>>, NEW u \in Threads, Activations(u, {"exec", "body", "resume"}) # {},
                    thread[u].status = "ok", NEW upto, upto = FramesUpTo(u)
             PROVE  /\ Len(thread[u].ci) = upto[Len(cstack)]
                    /\ \A i \in 2..Len(cstack) : \A k \in (upto[i - 1] + 1)..upto[i] :
                            thread[u].ci[k] = KindOf(cstack[i])
  BY ZenonT(60) DEF FramesMatchActivations
<1>1. PICK g, n, t : Shows(g, n, t)
  BY Showing
<1>2. n = Len(cstack) /\ n \in Nat /\ n > 0 /\ DOMAIN cstack = 1..n /\ Shape(cstack, n, g)
  BY <1>1 DEF Shows
<1>3. ~Off(u, n)
  BY <1>2 DEF Off, Activations
<1>4. PICK j : On(u, g, n, j)
  BY <1>1, <1>3, ThreadIs
<1>5. IsOn(u, g, n, t, j)
  BY <1>1, <1>4, OnFacts
<1>6. /\ j \in 1..n /\ cstack[j].t = u /\ (\A k \in 1..n : cstack[k].t = u => k \in 1..j)
      /\ Agrees(cstack, g, j)
      /\ Matches(u, thread[u], g[j], 0) \/ Returns(thread[u], g[n])
  BY <1>5 DEF IsOn
<1>7. thread[u].ci = g[j].ci
  BY <1>6 DEF Matches, Returns, Yielded
<1>8. \A i \in 1..n : TopFrames(u, g, i, upto[i])
  BY <1>1, FramesUpToIs
<1>9. Len(thread[u].ci) = upto[n]
  <2>1. LastOf(u, n, j)
    BY <1>4 DEF On
  <2>2. TopFrames(u, g, n, upto[n])
    BY <1>2, <1>8
  <2> QED
    BY <1>2, <1>7, <2>1, <2>2, TopFramesIs
<1>10. ASSUME NEW i \in 2..n, NEW k \in (upto[i - 1] + 1)..upto[i]
       PROVE  thread[u].ci[k] = KindOf(cstack[i])
  <2>1. i \in 1..n /\ i - 1 \in 1..n
    BY <1>2
  <2>2. TopFrames(u, g, i - 1, upto[i - 1]) /\ TopFrames(u, g, i, upto[i])
    BY <1>8, <2>1
  <2>3. /\ upto[i] = upto[i - 1] + IF cstack[i].t = u THEN FramesOf(cstack[i]) ELSE 0
        /\ upto[i - 1] \in Nat
        /\ cstack[i].t = u /\ cstack[i].op # "resume" =>
             upto[i - 1] = Len(g[i - 1].ci) /\ Stays(cstack[i - 1], g[i - 1], cstack[i], g[i])
    BY <1>1, <2>2, FramesAdded
  <2>4. cstack[i].t = u /\ cstack[i].op # "resume"
    <3>1. CASE cstack[i].t # u
      BY <2>3, <3>1
    <3>2. CASE cstack[i].op = "resume"
      <4>1. FramesOf(cstack[i]) = 0
        BY <3>2 DEF FramesOf
      <4>2. upto[i] = upto[i - 1]
        BY <2>3, <4>1
      <4> QED
        BY <2>3, <4>2
    <3> QED
      BY <3>1, <3>2
  <2>5. Extends(g[i - 1].ci, g[i].ci, FramesOf(cstack[i]), KindOf(cstack[i])) /\ upto[i - 1] = Len(g[i - 1].ci)
    BY <2>3, <2>4 DEF Stays
  <2>6. Len(g[i].ci) = upto[i]
    BY <2>3, <2>4, <2>5 DEF Extends
  <2>7. g[i].ci[k] = KindOf(cstack[i])
    BY <2>5, <2>6 DEF Extends
  <2>8. Begins(g[i].ci, g[j].ci)
    BY <1>6, <2>1, <2>4 DEF Agrees
  <2>9. k \in 1..Len(g[i].ci)
    <3>1. upto[i] \in Nat
      <4>1. IsSnap(g[i])
        BY <1>2, <2>1, LevelFacts
      <4> QED
        BY <2>6, <4>1, FramesFacts DEF IsSnap
    <3> QED
      BY <2>3, <2>6, <3>1
  <2> QED
    BY <1>7, <2>7, <2>8, <2>9 DEF Begins
<1> QED
  BY <1>2, <1>9, <1>10

-----------------------------------------------------------------------------
(* The theorems. *)

(* Whatever threads call, resume and yield in whatever order, an error jumps to the innermost
   protected call or resume of its thread that is still on the C stack: lua_yield, a dead
   coroutine, an overflow, a handler or the parser never leaves errorJmp pointing into a C
   frame that has returned, nor at an outer one. *)
THEOREM JumpsAlwaysLive == Spec => []JumpBufferLive
<1>1. Sound(Machine) => JumpBufferLive
  BY SoundJumps
<1> QED
  BY <1>1, AlwaysSound, PTL

(* However calls end, by a return, through luaD_throw, or by lua_yield, the lua_State of every
   thread is as it was before them.  nCcalls covers the nested calls of the whole C stack, is
   always below LUAI_MAXCCALLS plus its eighth and is back at zero in the host; hooks are off
   only inside a hook; an error function is in force only inside its xpcall; and costatus says
   normal and suspended of the right coroutines.  It holds for any number of coroutines, any
   program and any limits. *)
THEOREM UnwindingAlwaysSound == Spec => []UnwindingSound
<1>1. Sound(Machine) => UnwindingSound
  BY SoundTypes, SoundCounts, SoundRestored, SoundHooks, SoundHandlers, SoundStatus DEF UnwindingSound
<1> QED
  BY <1>1, AlwaysSound, PTL

(* The CallInfos of a running thread are those that the luaV_execute and C functions on the
   C stack run, in the same order: luaD_pcall restores ci, lua_resume counts the frames that
   a yield left, and luaV_execute returns after exactly nexeccalls of them. *)
THEOREM FramesAlwaysMatch == Spec => []FramesMatchActivations
<1>1. Sound(Machine) => FramesMatchActivations
  BY SoundFrames
<1> QED
  BY <1>1, AlwaysSound, PTL

(* lua_yield refuses to cross a C call, and only that: where nCcalls is not above baseCcalls
   the yield drops the C function and its luaV_execute and arrives at its lua_resume, with no
   handler left behind. *)
THEOREM YieldAlwaysReachesResume == Spec => []YieldReachesResume
<1>1. Sound(Machine) => YieldReachesResume
  BY SoundYields
<1> QED
  BY <1>1, AlwaysSound, PTL
=============================================================================
