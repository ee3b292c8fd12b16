------------------------------ MODULE LuaBridge ------------------------------
(***************************************************************************)
(* LuaBridge's registration of C++ classes in Lua (LuaBridge/detail/       *)
(* Namespace.h), the metamethods that look members up (Namespace.h,        *)
(* CFunctions.h) and the check of an object's class (Userdata.h).          *)
(*                                                                         *)
(* heap holds the Lua tables registration makes; table 1 is _G.  A class   *)
(* has a const table and a class table, the metatables of its objects,     *)
(* and a static table, the metatable of the table scripts see.             *)
(* Strings are left out: a table's name and __type are not modelled.       *)
(***************************************************************************)
EXTENDS Integers, Sequences, FiniteSets

CONSTANTS
    Classes,   \* C++ classes
    Members,   \* names of members
    Spaces,    \* names of namespaces
    MaxAdds,   \* members that are registered
    MaxDepth   \* namespaces that are open, the global one included

NoClass == "none"

(* The fields LuaBridge keeps for itself.  A class is named like no other member of the
   namespaces it may be in. *)
Reserved == {"identity", "__propget", "__propset", "__const", "__class", "__parent", "__call"}

ASSUME NamesAssumption ==
    /\ IsFiniteSet(Classes) /\ NoClass \notin Classes
    /\ (Classes \cup Members \cup Spaces) \cap Reserved = {}
    /\ Classes \cap (Members \cup Spaces) = {}

VARIABLES
    heap,      \* tables
    registry,  \* per class the ids of its static, class and const tables, 0 if none
    stack,     \* ids of the tables on the Lua stack that the registration owns, or NotATable
    size,      \* m_stackSize of the Namespace or Class object alive
    open,      \* what that object is: "none", "namespace" or "class"
    cls,       \* T of the Class object
    failed,    \* an assertion failed or an exception was thrown
    base,      \* base class of every derived class (history)
    log        \* registered members (history)

vars == <<heap, registry, stack, size, open, cls, failed, base, log>>

nil == [k |-> "nil"]
Table(id) == [k |-> "table", id |-> id]
NotATable == 0     \* on the Lua stack: a value that is no table

-----------------------------------------------------------------------------
(* Raw access to tables *)

rawgetfield(h, t, f) == IF f \in DOMAIN h[t].f THEN h[t].f[f] ELSE nil
rawsetfield(h, t, f, v) ==
    [h EXCEPT ![t].f = [x \in DOMAIN @ \cup {f} |-> IF x = f THEN v ELSE @[x]]]

HasTable(h, t, f) == rawgetfield(h, t, f).k = "table"
Field(h, t, f) == rawgetfield(h, t, f).id
NewTable == [mt |-> 0, f |-> <<>>]

(* t[sub][name] = v *)
SetIn(h, t, sub, name, v) == rawsetfield(h, Field(h, t, sub), name, v)

-----------------------------------------------------------------------------
(* The tables of a class *)

createConstTable(h) ==
    LET t == Len(h) + 1
    IN  h \o <<[mt |-> t, f |-> [identity |-> [k |-> "true"], __propget |-> Table(t + 1)]],
               NewTable>>

createClassTable(h, const) ==
    LET t == Len(h) + 1
    IN  rawsetfield(
            h \o <<[mt |-> t, f |-> [identity |-> [k |-> "true"], __propget |-> Table(t + 1),
                                     __propset |-> Table(t + 2), __const |-> Table(const)]],
                   NewTable, NewTable>>,
            const, "__class", Table(t))

(* The table scripts see goes into the enclosing namespace; its metatable is what
   stays on the stack. *)
createStaticTable(h, ns, name, class) ==
    LET t == Len(h) + 1
    IN  rawsetfield(
            h \o <<[mt |-> t + 1, f |-> <<>>],
                   [mt |-> 0, f |-> [__propget |-> Table(t + 2), __propset |-> Table(t + 3),
                                     __class |-> Table(class)]],
                   NewTable, NewTable>>,
            ns, name, Table(t))

(* The three tables, in ns: const, class and static are at these positions. *)
ConstAt(h) == Len(h) + 1
ClassAt(h) == Len(h) + 3
StaticAt(h) == Len(h) + 7
CreateTables(h, ns, name) ==
    createStaticTable(createClassTable(createConstTable(h), ConstAt(h)), ns, name, ClassAt(h))

SetParents_Crossed(h, const, class, static, p) ==
    rawsetfield(rawsetfield(rawsetfield(h, const, "__parent", Table(p.class)),
                            class, "__parent", Table(p.class)),
                static, "__parent", Table(p.static))

(* p holds the tables of the base class. *)
SetParents(h, const, class, static, p) ==
    rawsetfield(rawsetfield(rawsetfield(h, const, "__parent", Table(p.const)),
                            class, "__parent", Table(p.class)),
                static, "__parent", Table(p.static))

-----------------------------------------------------------------------------
(* Metamethods.  The result is a C function, nil, or an error. *)

Error == [k |-> "error"]

(* The metatables a search goes through: mt and, by __parent, those of its bases. *)
Chain(mt) ==
    LET up[t \in 1..Len(heap)] ==
            IF HasTable(heap, t, "__parent") THEN <<t>> \o up[Field(heap, t, "__parent")] ELSE <<t>>
    IN  up[mt]

(* The first hit along the chain of mt, else otherwise. *)
FirstHit(mt, Hit(_), otherwise) ==
    LET hits == {i \in DOMAIN Chain(mt) : Hit(Chain(mt)[i]) # nil}
    IN  IF hits = {} THEN otherwise
        ELSE Hit(Chain(mt)[CHOOSE i \in hits : \A j \in hits : i <= j])

FunctionOrGetter_GetterFirst(t, key) ==
    IF rawgetfield(heap, Field(heap, t, "__propget"), key) # nil
    THEN rawgetfield(heap, Field(heap, t, "__propget"), key)
    ELSE rawgetfield(heap, t, key)

FunctionOrGetter(t, key) ==
    IF rawgetfield(heap, t, key) # nil THEN rawgetfield(heap, t, key)
    ELSE rawgetfield(heap, Field(heap, t, "__propget"), key)

Setter(t, key) ==
    IF HasTable(heap, t, "__propset") THEN rawgetfield(heap, Field(heap, t, "__propset"), key)
    ELSE nil

(* ClassBase::indexMetaMethod and newindexMetaMethod, on an object with metatable mt. *)
indexMetaMethod(mt, key) == FirstHit(mt, LAMBDA t : FunctionOrGetter(t, key), nil)
newindexMetaMethod(mt, key) == FirstHit(mt, LAMBDA t : Setter(t, key), Error)

(* The same of CFunc, on a class's visible table or on a namespace. *)
staticIndex(t, key) == FirstHit(heap[t].mt, LAMBDA m : FunctionOrGetter(m, key), nil)
staticNewIndex(t, key) ==
    LET set == FirstHit(heap[t].mt, LAMBDA m : Setter(m, key), Error)
    IN  IF set # Error /\ set.op = "readOnlyError" THEN Error ELSE set

-----------------------------------------------------------------------------
(* The class of an object, by its metatable mt *)

IsConst(mt) == rawgetfield(heap, mt, "__const") = nil

Userdata_getClass_AnyConst(mt, T, canBeConst) ==
    LET class == registry[T].class
        goal  == IF IsConst(mt) THEN Field(heap, class, "__const") ELSE class
    IN  /\ rawgetfield(heap, mt, "identity") # nil
        /\ \E i \in DOMAIN Chain(mt) : Chain(mt)[i] = goal

(* getClass returns rather than raise an error: T is the object's class or a base. *)
Userdata_getClass(mt, T, canBeConst) ==
    LET class == registry[T].class
        goal  == IF IsConst(mt) THEN Field(heap, class, "__const") ELSE class
    IN  /\ rawgetfield(heap, mt, "identity") # nil
        /\ \E i \in DOMAIN Chain(mt) : Chain(mt)[i] = goal
        /\ IsConst(mt) => canBeConst

(* getExactClass, which __gc uses. *)
Userdata_getExactClass(mt, T) ==
    LET class == registry[T].class
    IN  /\ rawgetfield(heap, mt, "identity") # nil
        /\ mt \in {class, Field(heap, class, "__const")}

(* The function fn accepts an object with metatable mt as self.  Getters and const member
   functions take a const object ("reads"), setters and other member functions do not
   ("writes"); free and static functions and variables take no object ("call"). *)
Accepts(fn, mt) ==
    fn.op \in {"reads", "writes"} => Userdata_getClass(mt, fn.cls, fn.op = "reads")

-----------------------------------------------------------------------------
Init ==
    /\ heap = <<NewTable>>
    /\ registry = [T \in Classes |-> [static |-> 0, class |-> 0, const |-> 0]]
    /\ stack = <<>>
    /\ size = 0
    /\ open = "none"
    /\ cls = NoClass
    /\ failed = FALSE
    /\ base = [T \in Classes |-> NoClass]
    /\ log = <<>>

Top == stack[Len(stack)]

(* pop(n): the object alive gives up n elements, or throws std::logic_error. *)
pop(n, owned) ==
    /\ failed' = (n > owned \/ n > Len(stack))
    /\ stack' = IF failed' THEN stack ELSE SubSeq(stack, 1, Len(stack) - n)

getGlobalNamespace ==
    /\ open = "none" /\ ~failed
    /\ stack' = <<1>>
    /\ size' = 1
    /\ open' = "namespace"
    /\ UNCHANGED <<heap, registry, cls, failed, base, log>>

InNamespace == open = "namespace" /\ ~failed /\ Top # NotATable

(* Every function that a Namespace object has, but its destructor and endNamespace, asserts
   that there is a table on the top of the stack. *)
AssertTable ==
    /\ open = "namespace" /\ ~failed /\ Top = NotATable
    /\ failed' = TRUE
    /\ UNCHANGED <<heap, registry, stack, size, open, cls, base, log>>

(* The namespace is a table and its own metatable; it is made if there is nothing of its
   name.  Anything else of that name, such as a function, is left on the stack. *)
beginNamespace(name) ==
    /\ InNamespace
    /\ Len(stack) < MaxDepth
    /\ LET t == Len(heap) + 1
           v == rawgetfield(heap, Top, name)
       IN  IF v # nil
           THEN /\ stack' = Append(stack, IF v.k = "table" THEN v.id ELSE NotATable)
                /\ UNCHANGED heap
           ELSE /\ stack' = Append(stack, t)
                /\ heap' = rawsetfield(
                       heap \o <<[mt |-> t, f |-> [__propget |-> Table(t + 1), __propset |-> Table(t + 2)]],
                                 NewTable, NewTable>>, Top, name, Table(t))
    /\ size' = size + 1
    /\ UNCHANGED <<registry, open, cls, failed, base, log>>

(* Not on the global namespace, as its comment says. *)
endNamespace ==
    /\ open = "namespace" /\ ~failed
    /\ Len(stack) > 1
    /\ size' = size - 1
    /\ pop(1, 1)
    /\ UNCHANGED <<heap, registry, open, cls, base, log>>

Destroy_KeepsClass ==
    /\ open # "none" /\ ~failed
    /\ pop(size, size)
    /\ size' = 0
    /\ open' = "none"
    /\ UNCHANGED <<heap, registry, cls, base, log>>

(* ~Namespace and ~Class, at the end of the registration's full expression. *)
Destroy ==
    /\ open # "none" /\ ~failed
    /\ pop(size, size)
    /\ size' = 0
    /\ open' = "none"
    /\ cls' = NoClass
    /\ UNCHANGED <<heap, registry, base, log>>

OpenClass_Swapped(T, const, class, static) ==
    /\ stack' = stack \o <<class, const, static>>
    /\ size' = size + 3
    /\ open' = "class"
    /\ cls' = T

OpenClass(T, const, class, static) ==
    /\ stack' = stack \o <<const, class, static>>
    /\ size' = size + 3
    /\ open' = "class"
    /\ cls' = T

(* The class of T takes its name from T.  A class is registered in one namespace; when it
   is opened there again, the constructor of Class takes its else branch, where rawgetfield
   asserts that it is given a table. *)
beginClass(T) ==
    /\ InNamespace
    /\ registry[T].class = 0 \/ rawgetfield(heap, Top, T) # nil
    /\ IF rawgetfield(heap, Top, T) = nil
       THEN /\ heap' = CreateTables(heap, Top, T)
            /\ registry' = [registry EXCEPT ![T] = [static |-> StaticAt(heap), class |-> ClassAt(heap),
                                                    const |-> ConstAt(heap)]]
            /\ OpenClass(T, ConstAt(heap), ClassAt(heap), StaticAt(heap))
            /\ UNCHANGED failed
       ELSE LET static == Field(heap, Top, T)
            IN  /\ IF HasTable(heap, static, "__class")
                   THEN LET class == Field(heap, static, "__class")
                        IN  /\ OpenClass(T, Field(heap, class, "__const"), class, static)
                            /\ UNCHANGED failed
                   ELSE failed' = TRUE /\ UNCHANGED <<stack, size, open, cls>>
                /\ UNCHANGED <<heap, registry>>
    /\ UNCHANGED <<base, log>>

deriveClass(T, U) ==
    /\ InNamespace
    /\ rawgetfield(heap, Top, T) = nil
    /\ registry[T].class = 0 /\ registry[U].class # 0
    /\ heap' = SetParents(CreateTables(heap, Top, T), ConstAt(heap), ClassAt(heap), StaticAt(heap),
                          registry[U])
    /\ registry' = [registry EXCEPT ![T] = [static |-> StaticAt(heap), class |-> ClassAt(heap),
                                            const |-> ConstAt(heap)]]
    /\ base' = [base EXCEPT ![T] = U]
    /\ OpenClass(T, ConstAt(heap), ClassAt(heap), StaticAt(heap))
    /\ UNCHANGED <<failed, log>>

endClass_PopsTwo == pop(2, 3)
endClass_PopsFour == pop(4, 3)
endClassPops == pop(3, 3)

endClass ==
    /\ open = "class" /\ ~failed
    /\ endClassPops
    /\ size' = size - 3
    /\ open' = "namespace"
    /\ cls' = NoClass
    /\ UNCHANGED <<heap, registry, base, log>>

-----------------------------------------------------------------------------
(* Members of a class.  The stack holds its const, class and static tables. *)

ConstTable == stack[Len(stack) - 2]
ClassTable == stack[Len(stack) - 1]
StaticTable == Top

Fn(op) == [k |-> "fn", op |-> op, cls |-> cls, n |-> Len(log) + 1]

(* how: the function that registers; access: "rw" or "ro" for data and properties,
   "const" or "mutable" for functions. *)
Adds(kind, name, access, h) ==
    /\ ~failed /\ Len(log) < MaxAdds
    /\ heap' = h
    /\ log' = Append(log, [cls |-> cls, kind |-> kind, name |-> name, access |-> access])
    /\ UNCHANGED <<registry, stack, size, open, cls, failed, base>>

Property(h, t, name, get, set) == SetIn(SetIn(h, t, "__propget", name, get), t, "__propset", name, set)

addStaticData_KeepsSetter(name, access) ==
    /\ open = "class"
    /\ Adds("static", name, access,
            IF access = "rw" THEN Property(heap, StaticTable, name, Fn("call"), Fn("call"))
            ELSE SetIn(heap, StaticTable, "__propget", name, Fn("call")))

(* addStaticData and addStaticProperty *)
addStaticData(name, access) ==
    /\ open = "class"
    /\ Adds("static", name, access,
            Property(heap, StaticTable, name, Fn("call"),
                     Fn(IF access = "rw" THEN "call" ELSE "readOnlyError")))

(* addStaticFunction and addStaticCFunction *)
addStaticFunction(name) ==
    /\ open = "class"
    /\ Adds("staticfunction", name, "const", rawsetfield(heap, StaticTable, name, Fn("call")))

(* Getters go into both tables, the setter only into the class table. *)
GetterAndSetter(name, access, get, set) ==
    LET readable == SetIn(SetIn(heap, ClassTable, "__propget", name, get),
                          ConstTable, "__propget", name, get)
    IN  IF access = "rw" THEN SetIn(readable, ClassTable, "__propset", name, set) ELSE readable

(* addData and the forms of addProperty: with member functions, or with proxies, which
   are global functions that take the object as their first argument. *)
addData(name, access) ==
    /\ open = "class"
    /\ Adds("data", name, access,
            GetterAndSetter(name, access, Fn("reads"), Fn("writes")))

AddMemberFunction_InBoth(name, access, fn) ==
    rawsetfield(rawsetfield(heap, ConstTable, name, fn), ClassTable, name, fn)

(* CallMemberFunctionHelper::add: only const functions go into the const table. *)
AddMemberFunction(name, access, fn) ==
    IF access = "const"
    THEN rawsetfield(rawsetfield(heap, ConstTable, name, fn), ClassTable, name, fn)
    ELSE rawsetfield(heap, ClassTable, name, fn)

(* addFunction and addCFunction *)
addFunction(name, access) ==
    /\ open = "class"
    /\ Adds("function", name, access,
            AddMemberFunction(name, access,
                              Fn(IF access = "const" THEN "reads" ELSE "writes")))

addConstructor ==
    /\ open = "class"
    /\ Adds("constructor", "__call", "const", rawsetfield(heap, StaticTable, "__call", Fn("call")))

-----------------------------------------------------------------------------
(* Members of a namespace *)

(* addVariable and addProperty.  Not on _G: it has no __propget and no __propset table,
   and an assertion would fail. *)
addVariable(name, access) ==
    /\ InNamespace
    /\ HasTable(heap, Top, "__propget") /\ HasTable(heap, Top, "__propset")
    /\ Adds("variable", name, access,
            Property(heap, Top, name, Fn("call"),
                     Fn(IF access = "rw" THEN "call" ELSE "readOnlyError")))

(* addFunction and addCFunction *)
addFreeFunction(name) ==
    /\ InNamespace
    /\ Adds("freefunction", name, "const", rawsetfield(heap, Top, name, Fn("call")))

-----------------------------------------------------------------------------
Add ==
    \/ \E name \in Members :
        \/ \E access \in {"rw", "ro"} :
             \/ addStaticData(name, access) \/ addData(name, access)
             \/ addVariable(name, access)
        \/ \E access \in {"const", "mutable"} : addFunction(name, access)
        \/ addStaticFunction(name)
        \/ addFreeFunction(name)
    \/ addConstructor

Next ==
    \/ getGlobalNamespace
    \/ \E name \in Spaces : beginNamespace(name)
    \/ endNamespace
    \/ AssertTable
    \/ Destroy
    \/ \E T \in Classes : beginClass(T) \/ \E U \in Classes : deriveClass(T, U)
    \/ endClass
    \/ Add

Spec == Init /\ [][Next]_vars

-----------------------------------------------------------------------------
(* Properties *)

Registered == {T \in Classes : registry[T].class # 0}

(* Every table reference is to a table that exists, and a class is open iff a Class
   object is alive. *)
TypeOK ==
    /\ \A t \in DOMAIN heap : \A f \in DOMAIN heap[t].f :
        heap[t].f[f].k = "table" => heap[t].f[f].id \in DOMAIN heap
    /\ \A T \in Classes : {registry[T][k] : k \in DOMAIN registry[T]} \subseteq 0..Len(heap)
    /\ size \in Nat
    /\ open \in {"none", "namespace", "class"}
    /\ cls \in (IF open = "class" THEN Classes ELSE {NoClass})

(* The object alive owns exactly what registration left on the Lua stack, and a
   registration that is over leaves nothing there. *)
StackBalanced == ~failed => (size = Len(stack) /\ (open = "none" => stack = <<>>))

(* "After contstruction the Lua stack holds these objects": static table, class table
   and const table of T, then the enclosing namespace, whatever was opened or closed
   before. *)
StackShape ==
    (open = "class" /\ ~failed) =>
        /\ Len(stack) >= 4
        /\ StaticTable = registry[cls].static
        /\ ClassTable = registry[cls].class
        /\ ConstTable = registry[cls].const

(* No pop throws, and of the assertions of Namespace.h only two can fail: that a namespace
   is a table, when something else has its name, and that a class that is opened again has
   the tables it was given. *)
NoAssertionFails ==
    failed => /\ open = "namespace"
              /\ Top = NotATable \/ \E T \in Registered : rawgetfield(heap, Top, T) # nil

(* "Register a new class or add to an existing class registration": a program that
   registers a class again adds to it, as it can to a namespace. *)
ReopeningWorks == ~failed

(* T and its bases, nearest first. *)
Ancestors(T) ==
    LET up[n \in Nat] == IF n = 0 THEN <<T>>
                         ELSE LET a == up[n - 1]
                              IN  IF base[a[Len(a)]] = NoClass THEN a ELSE Append(a, base[a[Len(a)]])
    IN  up[Cardinality(Classes)]

(* The numbers of C's registrations of name that are of one of kinds and visible. *)
Entries(C, name, kinds, accesses) ==
    {n \in DOMAIN log : log[n].cls = C /\ log[n].name = name /\ log[n].kind \in kinds
                        /\ log[n].access \in accesses}

LastOf(S) == CHOOSE n \in S : \A m \in S : m <= n

(* What a search for name in T should find: in the nearest class that registered it,
   the last function, else the last data member or property. *)
Expected(T, name, funs, data, accesses) ==
    LET all(C)  == Entries(C, name, funs \cup data, accesses)
        holders == {i \in DOMAIN Ancestors(T) : all(Ancestors(T)[i]) # {}}
    IN  IF holders = {} THEN 0
        ELSE LET C == Ancestors(T)[CHOOSE i \in holders : \A j \in holders : i <= j]
             IN  IF Entries(C, name, funs, accesses) # {}
                 THEN LastOf(Entries(C, name, funs, accesses))
                 ELSE LastOf(Entries(C, name, data, accesses))

(* A member is found in the nearest class, up the bases, that registered it: on objects,
   on const objects (which have no mutable functions) and on the class itself. *)
LookupIsNearest ==
    \A T \in Registered, name \in Members :
        LET Found(fn, n) == IF n = 0 THEN fn = nil ELSE fn # nil /\ fn.n = n
        IN  /\ Found(indexMetaMethod(registry[T].class, name),
                     Expected(T, name, {"function"}, {"data"}, {"rw", "ro", "const", "mutable"}))
            /\ Found(indexMetaMethod(registry[T].const, name),
                     Expected(T, name, {"function"}, {"data"}, {"rw", "ro", "const"}))
            /\ Found(staticIndex(registry[T].static - 1, name),
                     Expected(T, name, {"staticfunction"}, {"static"}, {"rw", "ro", "const"}))

(* Whatever a script finds by indexing or assigning a field of an object accepts that
   object: inherited members take objects of derived classes, and a const object never
   reaches a function or a setter that could change it. *)
FoundMembersApply ==
    \A T \in Registered, name \in Members : \A mt \in {registry[T].class, registry[T].const} :
        /\ indexMetaMethod(mt, name) # nil => Accepts(indexMetaMethod(mt, name), mt)
        /\ newindexMetaMethod(mt, name) # Error => Accepts(newindexMetaMethod(mt, name), mt)

(* getClass accepts exactly the objects of T and of the classes derived from it, and
   const ones only where they may be const; __gc accepts exactly the class's own. *)
ClassCheckIsExact ==
    \A T, U \in Registered :
        LET derived == \E i \in DOMAIN Ancestors(T) : Ancestors(T)[i] = U
        IN  /\ \A can \in BOOLEAN :
                /\ Userdata_getClass(registry[T].class, U, can) <=> derived
                /\ Userdata_getClass(registry[T].const, U, can) <=> (derived /\ can)
            /\ \A mt \in {registry[T].class, registry[T].const} :
                Userdata_getExactClass(mt, U) <=> T = U

(* A static data member or property that is replaced, inherited or shadowed can be
   assigned exactly when the registration that is read says so. *)
StaticAccess ==
    \A T \in Registered, name \in Members :
        LET n == Expected(T, name, {}, {"static"}, {"rw", "ro"})
        IN  n # 0 => ((staticNewIndex(registry[T].static - 1, name) # Error)
                        <=> log[n].access = "rw")

(* "Add or replace a data member": a member whose registration is read-only cannot
   be assigned. *)
ReadOnlyIsReadOnly ==
    \A T \in Registered, name \in Members :
        LET n == Expected(T, name, {}, {"data"}, {"rw", "ro"})
        IN  (n # 0 /\ log[n].access = "ro") =>
                newindexMetaMethod(registry[T].class, name) = Error

(* A search finds the nearest registration of a member, and that accepts the object it was
   found on; a static member can be assigned when its registration says so. *)
LookupsSound == LookupIsNearest /\ FoundMembersApply /\ StaticAccess

(* A registration leaves the Lua stack as it found it, and fails no assertion but the two. *)
RegistrationSound == TypeOK /\ StackBalanced /\ StackShape /\ NoAssertionFails
=============================================================================
