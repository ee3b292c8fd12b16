----------------------------- MODULE LuaObjects -----------------------------
(***************************************************************************)
(* Lifetimes of the C++ objects that LuaBridge passes between C++ and Lua: *)
(* objects inside a userdata (UserdataValue), objects C++ owns             *)
(* (UserdataPtr) and objects in a reference counting container             *)
(* (UserdataShared with RefCountedPtr or RefCountedObjectPtr), and the     *)
(* functions and constructors scripts call with them (LuaBridge/detail/    *)
(* Userdata.h, CFunctions.h, TypeList.h, FuncTraits.h, Constructor.h).     *)
(*                                                                         *)
(* Every object has one data member, a container that may hold another     *)
(* object.  Object 0 is the null pointer.  A Lua error is a longjmp: it    *)
(* runs no C++ destructor, and the containers it skips are counted in lost.*)
(***************************************************************************)
EXTENDS Integers, FiniteSets, FiniteSetsExt

CONSTANTS
    MaxObjects,  \* objects that are ever made
    Udata,       \* userdata a script has at a time
    CppVars,     \* C++ variables that hold a container
    MaxErrors,   \* argument and memory errors
    Intrusive,   \* containers are RefCountedObjectPtr, else RefCountedPtr
    Unlinks,     \* C++ assigns a variable from a member of the object it holds
    Mixing,      \* scripts pass objects without a container where one is expected
    Nils         \* scripts pass nil where an object is expected

VARIABLE m

vars == <<m>>

Objects == 1..MaxObjects
NoUdata == [kind |-> "none", obj |-> 0]

-----------------------------------------------------------------------------
(* Containers.  The count of an object is its refCount, or its entry in the table
   of RefCountedPtrBase. *)

Acquire(s, o) == IF o = 0 THEN s ELSE [s EXCEPT !.count[o] = @ + 1]

RECURSIVE Destroy(_, _)
RECURSIVE Release(_, _)

(* The destructor of o, which destroys its member. *)
Destroy(s, o) ==
    IF s.life[o] # "alive" THEN [s EXCEPT !.fault = @ \cup {"destroyed twice"}]
    ELSE Release([s EXCEPT !.life[o] = "dead", !.next[o] = 0], s.next[o])

Release_BelowZero(s, o) ==
    IF o = 0 THEN s
    ELSE LET t == [s EXCEPT !.count[o] = @ - 1]
         IN  IF t.count[o] < 0 THEN Destroy(t, o) ELSE t

(* RefCountedPtr::reset and decReferenceCount. *)
Release(s, o) ==
    IF o = 0 THEN s
    ELSE LET t == [s EXCEPT !.count[o] = @ - 1]
         IN  IF t.count[o] <= 0 THEN Destroy(t, o) ELSE t

(* A container is read: it is the variable v or the member of an object. *)
Var(v) == [var |-> TRUE, of |-> v]
Member(o) == [var |-> FALSE, of |-> o]
Read(s, c) == IF c.var THEN s.cvar[c.of] ELSE s.next[c.of]
Touch(s, c) ==
    IF ~c.var /\ s.life[c.of] # "alive" THEN [s EXCEPT !.fault = @ \cup {"read after destruction"}] ELSE s
Write(s, c, o) == IF c.var THEN [s EXCEPT !.cvar[c.of] = o] ELSE [s EXCEPT !.next[c.of] = o]

RefCountedPtr_assign_NoReset(s, c, rhs) ==
    IF Read(s, c) = Read(s, rhs) THEN s ELSE Acquire(Write(s, c, Read(s, rhs)), Read(s, rhs))

(* RefCountedPtr: the old object is released before rhs is read again. *)
RefCountedPtr_assign(s, c, rhs) ==
    IF Read(s, c) = Read(s, rhs) THEN s
    ELSE LET released == Touch(Write(Release(s, Read(s, c)), c, 0), rhs)
         IN  Acquire(Write(released, c, Read(released, rhs)), Read(released, rhs))

RefCountedObjectPtr_assign_OldFirst(s, c, rhs) ==
    IF Read(s, c) = Read(s, rhs) THEN s
    ELSE Acquire(Write(Release(s, Read(s, c)), c, Read(s, rhs)), Read(s, rhs))

(* RefCountedObjectPtr: the new object is counted first, and the old one goes last. *)
RefCountedObjectPtr_assign(s, c, rhs) ==
    IF Read(s, c) = Read(s, rhs) THEN s
    ELSE Release(Write(Acquire(s, Read(s, rhs)), c, Read(s, rhs)), Read(s, c))

Assign(s, c, rhs) ==
    IF Intrusive THEN RefCountedObjectPtr_assign(s, c, rhs) ELSE RefCountedPtr_assign(s, c, rhs)

-----------------------------------------------------------------------------
(* Objects and the userdata that hold them *)

FreeObjects == {o \in Objects : m.life[o] = "free"}
FreeUdata == {u \in Udata : m.ud[u] = NoUdata}
NextObject == Min(FreeObjects)
Holding(u) == m.ud[u].kind # "none"
Reachable == {u \in Udata : Holding(u) /\ u \in m.reach}

New(s, o, home) == [s EXCEPT !.life[o] = "alive", !.home[o] = home]
AddUdata(s, u, kind, o) == [s EXCEPT !.ud[u] = [kind |-> kind, obj |-> o], !.reach = @ \cup {u}]

(* UserdataValue::place and the constructor run on the storage it returns. *)
UserdataValue_place(s, u, o) == AddUdata(New(s, o, "udata"), u, "value", o)

UserdataShared_push_Uncounted(s, u, o) == AddUdata(s, u, "shared", o)

(* UserdataSharedHelper::push: a null container becomes nil. *)
UserdataShared_push(s, u, o) == IF o = 0 THEN s ELSE AddUdata(Acquire(s, o), u, "shared", o)

UserdataPtr_push(s, u, o) == IF o = 0 THEN s ELSE AddUdata(s, u, "ptr", o)

-----------------------------------------------------------------------------
(* Arguments.  arg is a userdata or Nil; kind says what the parameter is. *)

Nil == "nil"
Kinds == {"value", "ptr", "ref", "container", "self"}

(* Userdata::get: null for nil. *)
Userdata_get(s, arg) == IF arg = Nil THEN 0 ELSE s.ud[arg].obj

(* Stack<T&>::get and Stack<T const&>::get raise an error on null; Stack<T>::get and
   member functions use it. *)
Refuses(kind, o) == o = 0 /\ kind = "ref"
NullUsed(kind, o) == o = 0 /\ kind \in {"value", "self"}

(* The TypeListValues of an argument holds a copy of an object that is passed by value
   or by reference, and so a copy of its member, or a container. *)
Held(s, kind, o) == CASE o = 0 -> 0
                      [] kind = "container" -> o
                      [] kind \in {"value", "ref"} -> s.next[o]
                      [] OTHER -> 0

(* Objects the function can write to: those it was not given a copy of. *)
Writable(kind, o) == IF kind \in {"ptr", "self", "container"} THEN {o} ELSE {}

ArgList_Uncounted(s, kind, o) == s
ArgList(s, kind, o) ==
    LET t == Acquire(s, Held(s, kind, o))
    IN  [t EXCEPT !.fault = @ \cup (IF o # 0 /\ s.life[o] # "alive" THEN {"used after destruction"} ELSE {})
                              \cup (IF NullUsed(kind, o) THEN {"null used"} ELSE {})]

(* What the body of the function does: nothing, or store its container in v. *)
Body(s, kind, o, v) ==
    IF kind = "container" /\ v # "none"
    THEN LET t == Release(Acquire(s, o), s.cvar[v]) IN [t EXCEPT !.cvar[v] = o]
    ELSE s

(* FuncTraits::call, with the functions that are no members and with member functions:
   the arguments are destroyed when it returns. *)
FuncTraits_call(s, kind, o, v) ==
    LET held == Held(s, kind, o) IN Release(Body(ArgList(s, kind, o), kind, o, v), held)
FuncTraits_callMember(s, o) == FuncTraits_call(s, "self", o, "none")
FuncTraits_callConstMember(s, o) == FuncTraits_call(s, "self", o, "none")

(* A later argument raises an error: what ArgList holds is lost. *)
Lose(s, o) == IF o = 0 THEN s ELSE [s EXCEPT !.lost[o] = @ + 1]
ErrorAfter(s, kind, o) ==
    LET t == Lose(ArgList(s, kind, o), Held(s, kind, o))
    IN  [t EXCEPT !.errors = @ + 1]

-----------------------------------------------------------------------------
Init ==
    m = [life   |-> [o \in Objects |-> "free"],
         home   |-> [o \in Objects |-> "none"],
         count  |-> [o \in Objects |-> 0],
         next   |-> [o \in Objects |-> 0],
         cvar   |-> [v \in CppVars |-> 0],
         ud     |-> [u \in Udata |-> NoUdata],
         reach  |-> {},
         lost   |-> [o \in Objects |-> 0],
         errors |-> 0,
         fault  |-> {}]

(* A script constructs an object in a userdata. *)
ctorPlacementProxy(u) ==
    /\ FreeObjects # {} /\ u \in FreeUdata
    /\ m' = UserdataValue_place(m, u, NextObject)

(* ... or on the heap, in a container. *)
ctorContainerProxy(u) ==
    /\ FreeObjects # {} /\ u \in FreeUdata
    /\ m' = UserdataShared_push(New(m, NextObject, "shared"), u, NextObject)

(* lua_newuserdata raises a memory error after the constructor of the object. *)
ctorContainerFails ==
    /\ FreeObjects # {} /\ m.errors < MaxErrors
    /\ m' = [New(m, NextObject, "leaked") EXCEPT !.errors = @ + 1]

(* C++ makes an object of its own and passes a pointer to it. *)
PushPointer(u) ==
    /\ FreeObjects # {} /\ u \in FreeUdata
    /\ m' = UserdataPtr_push(New(m, NextObject, "cpp"), u, NextObject)

(* C++ destroys it; it has to keep it while Lua can use it. *)
DeleteOwn(o) ==
    /\ m.home[o] = "cpp" /\ m.life[o] = "alive"
    /\ \A u \in Reachable : m.ud[u].obj # o
    /\ m' = Destroy(m, o)

(* C++ makes an object in a container variable. *)
NewShared(v) ==
    /\ FreeObjects # {} /\ m.cvar[v] = 0
    /\ m' = [Acquire(New(m, NextObject, "shared"), NextObject) EXCEPT !.cvar[v] = NextObject]

(* Stack<C>::push of a container variable. *)
PushContainer(u, v) ==
    /\ u \in FreeUdata
    /\ m.cvar[v] # 0
    /\ m' = UserdataShared_push(m, u, m.cvar[v])

(* Stack<T>::push copies the object a container variable holds. *)
PushCopy(u, v) ==
    /\ FreeObjects # {} /\ u \in FreeUdata
    /\ m.cvar[v] # 0 /\ m.cvar[v] # NextObject
    /\ LET s == UserdataValue_place(m, u, NextObject)
           n == m.next[m.cvar[v]]
       IN  m' = [Acquire(s, n) EXCEPT !.next[NextObject] = n]

(* C++ assigns containers: a variable from a variable or from the member of the
   object another variable holds, and a member from a variable. *)
AssignVar(v, w) ==
    /\ v # w
    /\ m' = Assign(m, Var(v), Var(w))

AssignFromMember(v, w) ==
    /\ m.cvar[w] # 0
    /\ v = w => Unlinks
    /\ m' = Assign(m, Var(v), Member(m.cvar[w]))

AssignMember(v, w) ==
    /\ m.cvar[v] # 0
    /\ m.cvar[w] \notin {0, m.cvar[v]}
    /\ m' = Assign(m, Member(m.cvar[v]), Var(w))

ResetVar(v) ==
    /\ m.cvar[v] # 0
    /\ m' = Release([m EXCEPT !.cvar[v] = 0], m.cvar[v])

(* A container of an object made without one counts from zero. *)
Fits(kind, arg) == kind = "container" /\ arg # Nil => (Mixing \/ m.home[m.ud[arg].obj] = "shared")
Args == Reachable \cup (IF Nils THEN {Nil} ELSE {})

(* Call::f, CallMember::f, CallConstMember::f *)
CallMemberFunction(arg) ==
    /\ arg \in Args
    /\ \/ m' = FuncTraits_callMember(m, Userdata_get(m, arg))
       \/ m' = FuncTraits_callConstMember(m, Userdata_get(m, arg))

CallFunction(kind, arg, v) ==
    /\ arg \in Args /\ Fits(kind, arg)
    /\ ~Refuses(kind, Userdata_get(m, arg))
    /\ m' = FuncTraits_call(m, kind, Userdata_get(m, arg), v)

CallFails(kind, arg) ==
    /\ arg \in Args /\ Fits(kind, arg)
    /\ m.errors < MaxErrors
    /\ ~Refuses(kind, Userdata_get(m, arg))
    /\ m' = ErrorAfter(m, kind, Userdata_get(m, arg))

(* setProperty of the member: the argument is a container made from the userdata. *)
setProperty(u, w) ==
    /\ {u, w} \subseteq Reachable /\ Fits("container", w)
    /\ m.ud[u].obj # m.ud[w].obj
    /\ LET o == m.ud[u].obj
           n == m.ud[w].obj
       IN  m' = IF m.next[o] = n THEN m
                ELSE Release([Acquire(m, n) EXCEPT !.next[o] = n], m.next[o])

(* getProperty of the member: Stack<C>::push of a copy. *)
getProperty(u, w) ==
    /\ u \in Reachable /\ w \in FreeUdata
    /\ m.next[m.ud[u].obj] # 0
    /\ m' = UserdataShared_push(m, w, m.next[m.ud[u].obj])

(* The script drops its last reference, and the collector calls __gc. *)
Drop(u) ==
    /\ u \in Reachable
    /\ m' = [m EXCEPT !.reach = @ \ {u}]

gcMetaMethod_NoDestructor(s, u) == s
gcMetaMethod(s, u) ==
    CASE s.ud[u].kind = "value"  -> Destroy(s, s.ud[u].obj)
      [] s.ud[u].kind = "shared" -> Release(s, s.ud[u].obj)
      [] s.ud[u].kind = "ptr"    -> s

Collect(u) ==
    /\ Holding(u) /\ u \notin m.reach
    /\ m' = [gcMetaMethod(m, u) EXCEPT !.ud[u] = NoUdata]

FromLua ==
    \/ \E u \in Udata :
        \/ ctorPlacementProxy(u) \/ ctorContainerProxy(u) \/ Drop(u) \/ Collect(u)
        \/ \E w \in Udata : setProperty(u, w) \/ getProperty(u, w)
    \/ ctorContainerFails
    \/ \E arg \in Udata \cup {Nil} :
        \/ CallMemberFunction(arg)
        \/ \E kind \in Kinds \ {"self"} :
             CallFails(kind, arg) \/ \E v \in CppVars \cup {"none"} : CallFunction(kind, arg, v)

FromCpp ==
    \/ \E u \in Udata : PushPointer(u) \/ \E v \in CppVars : PushContainer(u, v) \/ PushCopy(u, v)
    \/ \E o \in Objects : DeleteOwn(o)
    \/ \E v \in CppVars : NewShared(v) \/ ResetVar(v)
    \/ \E v, w \in CppVars : AssignVar(v, w) \/ AssignFromMember(v, w) \/ AssignMember(v, w)

Next == FromLua \/ FromCpp

Spec == Init /\ [][Next]_vars


-----------------------------------------------------------------------------
(* Properties *)

Sum(f, S) == FoldSet(LAMBDA x, a : f[x] + a, 0, S)
One(b) == IF b THEN 1 ELSE 0

(* The containers that hold o: variables, members of objects that exist and userdata. *)
Containers(o) ==
    Sum([v \in CppVars |-> One(m.cvar[v] = o)], CppVars)
    + Sum([p \in Objects |-> One(m.next[p] = o)], Objects)
    + Sum([u \in Udata |-> One(m.ud[u] = [kind |-> "shared", obj |-> o])], Udata)

TypeOK ==
    /\ m.life \in [Objects -> {"free", "alive", "dead"}]
    /\ m.home \in [Objects -> {"none", "udata", "cpp", "shared", "leaked"}]
    /\ m.count \in [Objects -> Nat] /\ m.lost \in [Objects -> 0..MaxErrors]
    /\ m.next \in [Objects -> 0..MaxObjects] /\ m.cvar \in [CppVars -> 0..MaxObjects]
    /\ m.reach \subseteq Udata
    /\ \A u \in Udata : Holding(u) => m.ud[u].obj \in Objects

(* The count of a shared object is exactly the number of containers that hold it, and of
   those that an error made the program forget. *)
CountsExact ==
    \A o \in Objects : (m.home[o] = "shared" /\ m.life[o] = "alive") =>
        m.count[o] = Containers(o) + m.lost[o]

(* "The object remains in existence until there are no remaining C++ or Lua
   references": nothing is destroyed twice, or used or read after it is. *)
NothingDangles ==
    /\ m.fault = {}
    /\ \A u \in Reachable : m.ud[u].obj # 0 => m.life[m.ud[u].obj] = "alive"
    /\ \A v \in CppVars : m.cvar[v] # 0 => m.life[m.cvar[v]] = "alive"
    /\ \A o \in Objects : m.next[o] # 0 => m.life[m.next[o]] = "alive"

(* "If there are no more references then the object is deleted", but for the containers
   an error made the program forget. *)
NoOrphans ==
    \A o \in Objects :
        (m.home[o] = "shared" /\ m.life[o] = "alive" /\ Containers(o) = 0) => m.lost[o] > 0

(* "When the userdata is collected, the destructor for the class will be called": an
   object in a userdata is destroyed, once the script drops it, whatever else happens. *)
LuaObjectsDestroyed ==
    \A o \in Objects :
        (m.home[o] = "udata" /\ \A u \in Reachable : m.ud[u].obj # o) ~> (m.life[o] = "dead")

(* Whatever becomes of the scripts' calls, no object is ever left that nothing holds. *)
NothingIsLost ==
    \A o \in Objects : (m.home[o] = "shared" /\ m.life[o] = "alive") => Containers(o) > 0

(* "func3 (a) -- Passes a reference to a": a function that takes a reference can write
   to the script's object. *)
ReferenceReachesObject ==
    \A u \in Reachable : LET o == Userdata_get(m, u) IN ~Refuses("ref", o) => o \in Writable("ref", o)

(* "If the object is not the class or a subclass ... a Lua error is raised." *)
NilIsRefused == "null used" \notin m.fault

(* An object is counted by its containers, alive while it is used, and destroyed with
   its last owner. *)
OwnershipSound == TypeOK /\ CountsExact /\ NothingDangles /\ NoOrphans
=============================================================================
