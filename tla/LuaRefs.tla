------------------------------- MODULE LuaRefs -------------------------------
(***************************************************************************)
(* References from C++ to Lua values: luaL_ref and luaL_unref              *)
(* (lua/lauxlib.c) and LuaBridge's LuaRef, its table proxies, its calls    *)
(* into Lua and its iterator (LuaBridge/detail/LuaRef.h, LuaException.h,   *)
(* Iterator.h).                                                            *)
(*                                                                         *)
(* A LuaRef is an index into the registry.  reg[0] heads the list of free  *)
(* indices, which is kept in the free slots themselves.  An action is one  *)
(* C++ statement that changes a reference or a table; the proxies and      *)
(* copies it makes live within it.  m.stack has the values of the C        *)
(* function around the statements and the messages of failed calls: what   *)
(* a statement itself pushes and pops in between is left out, and with it  *)
(* type, cast, length and the comparisons of a LuaRef, which do no more.   *)
(***************************************************************************)
EXTENDS Integers, Sequences, FiniteSets

CONSTANTS
    Vars,       \* LuaRef variables of the program
    Tables,     \* Lua tables
    Guarded,    \* tables with a __newindex metamethod that stores nothing
    Numbers,    \* numbers that are stored
    MaxIndex,   \* integer keys of the tables are 0..MaxIndex
    MaxSlots,   \* slots of the registry
    MaxStack,   \* values on the Lua stack of the running C function
    Allows      \* which of "self", "nested", "rawget", "proxies", "zero", "tostring" a
                \* program uses, see AssignRef, ReadProxy, AssignProxy, Appends, Tostring

VARIABLE m

vars == <<m>>

-----------------------------------------------------------------------------
(* Lua values *)

nil == [k |-> "nil"]
Num(n) == [k |-> "num", n |-> n]
Tab(t) == [k |-> "table", t |-> t]
IsTab(v) == v.k = "table"
Keys == 0..MaxIndex

LUA_REFNIL == -1
Dead == -9       \* not a reference: the variable does not exist

(* An Iterator has references to its table, its key and its value. *)
IteratorRefs == {"table", "key", "value"}
Refs == Vars \cup IteratorRefs

(* Lua's registry grows: here it has a slot for every reference, one for the key of a
   proxy, and one more for a reference that replaces another. *)
ASSUME RefsAssumption ==
    /\ IsFiniteSet(Vars) /\ Vars \cap IteratorRefs = {}
    /\ MaxIndex \in Nat /\ MaxStack \in Nat
    /\ MaxSlots \in Nat /\ MaxSlots >= Cardinality(Vars) + 5

-----------------------------------------------------------------------------
(* luaL_ref and luaL_unref on a table with the fields f.  lua_objlen may return any
   border. *)

Borders(f) == {n \in DOMAIN f : (n = 0 \/ f[n] # nil) /\ ((n + 1) \in DOMAIN f => f[n + 1] = nil)}
ToInteger(v) == IF v.k = "num" THEN v.n ELSE 0

RefIndex(f) ==
    IF ToInteger(f[0]) # 0 THEN ToInteger(f[0]) ELSE (CHOOSE n \in Borders(f) : TRUE) + 1

luaL_ref(f, v) ==
    LET ref == RefIndex(f)
    IN  IF ToInteger(f[0]) # 0 THEN [f EXCEPT ![0] = f[ref], ![ref] = v] ELSE [f EXCEPT ![ref] = v]

luaL_unref_NotLinked(f, ref) == IF ref >= 0 THEN [f EXCEPT ![ref] = nil] ELSE f
luaL_unref(f, ref) ==
    IF ref >= 0 THEN [f EXCEPT ![ref] = f[0], ![0] = Num(ref)] ELSE f

(* The registry's luaL_ref: nil has a reference of its own. *)
NewRef(s, v) == IF v = nil THEN LUA_REFNIL ELSE RefIndex(s.reg)
Store(s, v) == IF v = nil THEN s ELSE [s EXCEPT !.reg = luaL_ref(@, v)]
Free(s, ref) == [s EXCEPT !.reg = luaL_unref(@, ref)]

-----------------------------------------------------------------------------
(* LuaRef.  held is what the program takes h to refer to. *)

push(s, h) == IF s.ref[h] = LUA_REFNIL THEN nil ELSE s.reg[s.ref[h]]

FromStack(s, h, v) ==
    [Store(s, v) EXCEPT !.ref[h] = NewRef(s, v), !.held[h] = v]

createRef(s, h, g) == FromStack(s, h, push(s, g))

Destroyed(s, h) == [Free(s, s.ref[h]) EXCEPT !.ref[h] = Dead, !.held[h] = nil]

AssignTo_Leaks(s, h, v) == FromStack(s, h, v)

(* operator= (T rhs) and pop. *)
AssignTo(s, h, v) == FromStack(Free(s, s.ref[h]), h, v)

(* operator= (LuaRef const& rhs): rhs is pushed after the old reference is freed. *)
LuaRef_assign(s, h, g) ==
    LET f == Free(s, s.ref[h]) IN [FromStack(f, h, push(f, g)) EXCEPT !.held[h] = s.held[g]]

-----------------------------------------------------------------------------
(* The destructor of a StackPop. *)
StackPop(stack, n) == SubSeq(stack, 1, Len(stack) - n)

(* Proxy: the table's reference is not its own, the key's is. *)

ProxyOf(s, h, key) == [tableRef |-> s.ref[h], keyRef |-> NewRef(s, Num(key))]
WithKey(s, key) == Store(s, Num(key))
Gone_Leaks(s, p) == s
Gone(s, p) == Free(s, p.keyRef)

At(s, ref) == IF ref = LUA_REFNIL THEN nil ELSE s.reg[ref]

(* Proxy::push, with the table and the key that its references have now. *)
Pushes(s, p) == IsTab(At(s, p.tableRef)) /\ At(s, p.keyRef).k = "num" /\ At(s, p.keyRef).n \in Keys
ProxyPush(s, p) == IF Pushes(s, p) THEN s.heap[At(s, p.tableRef).t][At(s, p.keyRef).n] ELSE nil
Checked(s, p) == IF Pushes(s, p) THEN s ELSE [s EXCEPT !.fault = TRUE]

-----------------------------------------------------------------------------
Init ==
    m = [reg   |-> [i \in 0..MaxSlots |-> nil],
         heap  |-> [t \in Tables |-> [i \in Keys |-> nil]],
         ref   |-> [h \in Refs |-> Dead],
         held  |-> [h \in Refs |-> nil],
         stack |-> <<>>,
         fault |-> FALSE]

Uses(what) == what \in Allows
Alive(h) == m.ref[h] # Dead
HoldsTable(h) == Alive(h) /\ IsTab(m.held[h])
Values == {nil} \cup {Num(n) : n \in Numbers} \cup {Tab(t) : t \in Tables}

(* LuaRef (L, v), newTable, getGlobal, fromStack; nil makes LuaRef (L). *)
Construct(h, v) ==
    /\ ~Alive(h)
    /\ m' = FromStack(m, h, v)

Copy_Shared(h, g) ==
    /\ ~Alive(h) /\ Alive(g)
    /\ m' = [m EXCEPT !.ref[h] = m.ref[g], !.held[h] = m.held[g]]

Copy(h, g) ==
    /\ ~Alive(h) /\ Alive(g)
    /\ m' = createRef(m, h, g)

Destroy(h) ==
    /\ Alive(h)
    /\ m' = Destroyed(m, h)

Assign(h, v) ==
    /\ Alive(h)
    /\ m' = AssignTo(m, h, v)

(* h = g *)
AssignRef(h, g) ==
    /\ Alive(h) /\ Alive(g)
    /\ h = g => Uses("self")
    /\ m' = LuaRef_assign(m, h, g)

(* h = g [key] *)
AssignFromProxy(h, g, key) ==
    /\ Alive(h) /\ HoldsTable(g)
    /\ h = g => Uses("self")
    /\ LET p == ProxyOf(m, g, key)
           s == Free(WithKey(m, key), m.ref[h])
           v == ProxyPush(s, p)
       IN  m' = Gone([FromStack(Checked(s, p), h, v)
                         EXCEPT !.held[h] = m.heap[m.held[g].t][key]], p)

(* LuaRef h (g [key]) *)
Read(h, g, key) ==
    LET p == ProxyOf(m, g, key)
        s == WithKey(m, key)
    IN  Gone(FromStack(Checked(s, p), h, ProxyPush(s, p)), p)

(* LuaRef h (g [key][key2]): the table of the second proxy is a temporary LuaRef. *)
ReadNested(h, g, key, key2) ==
    LET p  == ProxyOf(m, g, key)
        s  == WithKey(m, key)
        tt == ProxyPush(s, p)
        s2 == Store(s, tt)
        q  == [tableRef |-> NewRef(s, tt), keyRef |-> NewRef(s2, Num(key2))]
        s3 == Free(WithKey(s2, key2), q.tableRef)
    IN  [Gone(Gone(FromStack(Checked(s3, q), h, ProxyPush(s3, q)), q), p)
            EXCEPT !.held[h] = m.heap[tt.t][key2]]

(* LuaRef h (g [key].rawget (key2)): its StackPop is a temporary and pops at once, so
   the table stays in the place of what was on top. *)
ReadRaw(h, g, key, key2) ==
    LET p  == ProxyOf(m, g, key)
        s  == WithKey(m, key)
        tt == ProxyPush(s, p)
        popped == IF s.stack = <<>> THEN [s EXCEPT !.fault = TRUE]
                  ELSE [s EXCEPT !.stack = Append(StackPop(@, 1), tt)]
    IN  Gone(FromStack(popped, h, m.heap[tt.t][key2]), p)

ReadProxy(h, g, key) ==
    /\ ~Alive(h) /\ HoldsTable(g)
    /\ LET inner == IF IsTab(m.heap[m.held[g].t][key]) THEN Keys ELSE {}
       IN  m' \in {Read(h, g, key)}
                  \cup (IF Uses("nested") THEN {ReadNested(h, g, key, k) : k \in inner} ELSE {})
                  \cup (IF Uses("rawget") THEN {ReadRaw(h, g, key, k) : k \in inner} ELSE {})

(* g [key] = v is raw, and g [key].rawset (v) is not. *)
SetByProxy(g, key, v, raw) ==
    LET p == ProxyOf(m, g, key)
        s == WithKey(m, key)
        t == At(s, p.tableRef).t
    IN  Gone(IF ~raw /\ t \in Guarded /\ m.heap[t][key] = nil THEN s
             ELSE [Checked(s, p) EXCEPT !.heap[t][key] = v], p)

(* g [key] = g2 [key2]: the compiler's copy assignment of the two temporary proxies is
   chosen over the template, and both have the second one's references then. *)
CopyProxy(g, key, g2, key2) ==
    LET p == ProxyOf(m, g, key)
        s == WithKey(m, key)
        q == ProxyOf(s, g2, key2)
    IN  Gone(Gone(WithKey(s, key2), q), q)

AssignProxy(g, key, v) ==
    /\ HoldsTable(g)
    /\ m' \in {SetByProxy(g, key, v, raw) : raw \in BOOLEAN}
              \cup (IF Uses("proxies") THEN {CopyProxy(g, key, g, k) : k \in Keys} ELSE {})

(* type, cast, length and the comparisons of g [key] *)
InspectProxy(g, key) ==
    /\ HoldsTable(g)
    /\ LET p == ProxyOf(m, g, key) IN m' = Gone(Checked(WithKey(m, key), p), p)

(* LuaRef h (g [key](args)) *)
CallProxy(h, g, key, v) ==
    /\ ~Alive(h) /\ HoldsTable(g)
    /\ LET p == ProxyOf(m, g, key)
       IN  m' = Gone(FromStack(Checked(WithKey(m, key), p), h, v), p)

(* append is luaL_ref on the table.  A table without a number at 0. *)
Appends(t, v) ==
    /\ v # nil
    /\ m.heap[t][0].k # "num" \/ Uses("zero")
    /\ RefIndex(m.heap[t]) \in Keys
Appended(t, v) == [m EXCEPT !.heap[t] = luaL_ref(@, v)]

(* g.append (v) *)
Append_(g, v) ==
    /\ HoldsTable(g) /\ Appends(m.held[g].t, v)
    /\ m' = Appended(m.held[g].t, v)

(* g [key].append (v) *)
AppendProxy(g, key, v) ==
    /\ HoldsTable(g)
    /\ LET p == ProxyOf(m, g, key)
           tt == ProxyPush(WithKey(m, key), p)
       IN  /\ IsTab(tt) /\ Appends(tt.t, v)
           /\ m' = Gone(WithKey(Appended(tt.t, v), key), p)

(* LuaRef h (g (args)) *)
Call(h, g, v) ==
    /\ ~Alive(h) /\ Alive(g)
    /\ m' = FromStack(m, h, v)

(* pcall throws a LuaException, which copies the message and does not pop it. *)
Message == [k |-> "message"]
CallFails(g) ==
    /\ Alive(g) /\ Len(m.stack) < MaxStack
    /\ m' = [m EXCEPT !.stack = Append(@, Message)]

(* tostring takes its result from the bottom of the stack. *)
Tostring(h) ==
    /\ Alive(h)
    /\ m.stack = <<>> \/ Uses("tostring")
    /\ LET grown == Append(m.stack, Num(0))
       IN  m' = [m EXCEPT !.fault = @ \/ grown[1] # grown[Len(grown)]]

(* Iterator: the constructor, operator++ and the destructor. *)
After(t, key) == {i \in Keys : m.heap[t][i] # nil /\ (key = nil \/ i > key.n)}

Advance(s, t, key) ==
    LET left == After(t, key)
    IN  IF left = {} THEN AssignTo(AssignTo(s, "key", nil), "value", nil)
        ELSE LET i == CHOOSE i \in left : \A j \in left : i <= j
             IN  AssignTo(AssignTo(s, "value", m.heap[t][i]), "key", Num(i))

IteratorBegin(g) ==
    /\ HoldsTable(g) /\ ~Alive("table")
    /\ LET t == m.held[g]
           s == FromStack(FromStack(FromStack(m, "table", t), "key", nil), "value", nil)
       IN  m' = Advance(s, t.t, nil)

IteratorNext ==
    /\ Alive("table") /\ m.held["key"] # nil
    /\ m' = Advance(m, push(m, "table").t, push(m, "key"))

(* LuaRef h (it.key ()), it.value () and *it *)
IteratorRead(h, part) ==
    /\ ~Alive(h) /\ Alive("table")
    /\ m' = createRef(m, h, part)

IteratorEnd_KeepsKey ==
    /\ Alive("table")
    /\ m' = [Destroyed(Destroyed(m, "value"), "table") EXCEPT !.ref["key"] = Dead, !.held["key"] = nil]

IteratorEnd ==
    /\ Alive("table")
    /\ m' = Destroyed(Destroyed(Destroyed(m, "value"), "key"), "table")

(* The C function around these statements uses its stack. *)
PushStack(v) == Len(m.stack) < MaxStack /\ m' = [m EXCEPT !.stack = Append(@, v)]
PopStack == m.stack # <<>> /\ m' = [m EXCEPT !.stack = StackPop(@, 1)]

OnRefs ==
    \/ \E h \in Vars :
        \/ Destroy(h) \/ Tostring(h) \/ CallFails(h)
        \/ \E v \in Values : Construct(h, v) \/ Assign(h, v)
        \/ \E g \in Vars : Copy(h, g) \/ AssignRef(h, g) \/ \E v \in Values : Call(h, g, v)

OnProxies ==
    \E g \in Vars :
        \/ \E key \in Keys, v \in Values : AssignProxy(g, key, v) \/ AppendProxy(g, key, v)
        \/ \E v \in Values : Append_(g, v)
        \/ \E h \in Vars, key \in Keys :
            \/ AssignFromProxy(h, g, key) \/ ReadProxy(h, g, key) \/ InspectProxy(g, key)
            \/ \E v \in Values : CallProxy(h, g, key, v)

OnIterator ==
    \/ IteratorNext \/ IteratorEnd
    \/ \E g \in Vars : IteratorBegin(g) \/ \E part \in {"key", "value"} : IteratorRead(g, part)

Next == OnRefs \/ OnProxies \/ OnIterator \/ PopStack \/ PushStack(Num(1))

Spec == Init /\ [][Next]_vars

-----------------------------------------------------------------------------
(* Properties *)

Used == {m.ref[h] : h \in Refs} \ {Dead, LUA_REFNIL}

(* The slots on the free list; MaxSlots + 1 steps are enough to see a cycle. *)
FreeSlots ==
    LET at[n \in 0..MaxSlots + 1] == IF n = 0 THEN ToInteger(m.reg[0])
                                     ELSE IF at[n - 1] = 0 THEN 0 ELSE ToInteger(m.reg[at[n - 1]])
    IN  [n \in 0..MaxSlots + 1 |-> at[n]]

TypeOK ==
    /\ m.ref \in [Refs -> {Dead, LUA_REFNIL} \cup 1..MaxSlots]
    /\ \A t \in Tables : DOMAIN m.heap[t] = Keys
    /\ Len(m.stack) <= MaxStack
    /\ Alive("table") <=> Alive("key")

(* "The reference is maintained for the lifetime of the C++ object": every LuaRef, and
   every reference of an iterator, refers to what the program last gave it, and no
   statement uses a reference that was freed. *)
ReferencesMaintained == ~m.fault /\ \A h \in Refs : Alive(h) => push(m, h) = m.held[h]

(* The free list ends, has no slot that is in use, and with the slots in use makes up all
   that was ever taken from the registry: no reference is leaked or freed twice. *)
FreeListSound ==
    LET slots == FreeSlots
        free  == {slots[n] : n \in DOMAIN slots} \ {0}
    IN  /\ slots[MaxSlots + 1] = 0
        /\ free \cap Used = {}
        /\ \A i \in 1..MaxSlots : m.reg[i] # nil => i \in free \cup Used
        /\ \A h, g \in Refs : (h # g /\ m.ref[h] = m.ref[g]) => m.ref[h] < 0

(* luaL_ref takes the length of the registry for the number of slots when the free list
   is empty: there is no other border then, whatever was freed before. *)
OneBorder == ToInteger(m.reg[0]) = 0 => Cardinality(Borders(m.reg)) = 1

(* "If the table is a sequence this will add another element to it": append keeps what
   the table has, and v is in it after. *)
Adds ==
    \A t \in Tables, v \in Values : (Appends(t, v) /\ m'.heap = Appended(t, v).heap) =>
        LET f == m.heap[t]
            e == m'.heap[t]
        IN  /\ \A i \in Keys : f[i] # nil => e[i] = f[i]
            /\ \E i \in Keys : f[i] = nil /\ e[i] = v
AppendAdds == [][Adds]_vars

(* "converts to a string using luas tostring function": the string is of the value. *)
TostringConverts == ~m.fault

(* "This may invoke metamethods": g [key] = v leaves it to __newindex to store v. *)
AssignmentMayInvoke ==
    \A g \in Vars, key \in Keys, v \in Values :
        (HoldsTable(g) /\ m.held[g].t \in Guarded /\ m.heap[m.held[g].t][key] = nil) =>
            SetByProxy(g, key, v, TRUE).heap = m.heap

(* A slot of the registry is free or has one owner, who finds there what it put there. *)
ReferencesSound == TypeOK /\ ReferencesMaintained /\ FreeListSound /\ OneBorder
=============================================================================
