-------------------------- MODULE LuaRequireProofs --------------------------
(***************************************************************************)
(* Proofs about modules, for every set of names and libraries, every       *)
(* content of package.path and every depth of calls of require.            *)
(***************************************************************************)
EXTENDS LuaRequire, FiniteSetTheorems, SequenceTheorems, WellFoundedInduction, TLAPS

Statuses == {"unregistered", "NULL", "open"}
Values == {"nil", "false", "sentinel", "true", "value", "table"}
Frame == [name : Names, safe : BOOLEAN, cleared : BOOLEAN]
Userdata == [k : {"library", "object"}, lib : Libraries]
LibState == [handle : [Libraries -> Statuses], udata : Seq(Userdata)]

(* What keeps libraries from being unloaded under their objects.  A library that was
   registered has one userdata, made before every object of the library; objects are made
   only by functions of an open library.  Finalizing the newest first, lua_close then
   reaches a library after its last object. *)
LibsInv(h, u, gone) ==
    /\ \A p \in Libraries : h[p] = "unregistered" => \A i \in 1..Len(u) : u[i] # Lib(p)
    /\ \A p \in Libraries : h[p] # "unregistered" /\ ~gone => \E i \in 1..Len(u) : u[i] = Lib(p)
    /\ \A i, j \in 1..Len(u) : u[i].k = "library" /\ u[i] = u[j] => i = j
    /\ \A i \in 1..Len(u) : u[i].k = "object" =>
        /\ h[u[i].lib] = "open"
        /\ \E j \in 1..(i - 1) : u[j] = Lib(u[i].lib)

(* What keeps a chunk from running inside itself: while it runs and its module is not
   cleared, the module has the mark of require or the table of module, so that require does
   not load it. *)
FramesMarked ==
    \A i \in 1..Len(stack) : ~stack[i].cleared => loaded[stack[i].name] \in {"sentinel", "table"}

FramesInv ==
    /\ stack \in Seq(Frame) /\ Len(stack) <= MaxDepth
    /\ FramesMarked
    /\ NoReentry
    /\ SentinelMeansLoading

GlobalsInv ==
    /\ loaded \in [Names -> Values]
    /\ globals \in [Names -> {"nil", "other", "table"}]
    /\ ModulesAreGlobal

RequireInv ==
    /\ GlobalsInv
    /\ FramesInv
    /\ handle \in [Libraries -> Statuses]
    /\ udata \in Seq(Userdata)
    /\ closing \in BOOLEAN
    /\ LibsInv(handle, udata, closing)

-----------------------------------------------------------------------------
(* Sequences and positions. *)

(* The numbers are well-founded. *)
LEMMA LessIsWellFounded == IsWellFoundedOn({ss \in Nat \X Nat : ss[1] < ss[2]}, Nat)
BY NatLessThanWellFounded DEF OpToRel

(* A set of positions has a last one: the pcall an error reaches is one of the frames. *)
LEMMA HasLast ==
    ASSUME NEW n \in Nat, NEW S, S \subseteq 1..n, S # {}
    PROVE  \E i \in S : \A j \in S : j <= i
<1> DEFINE R == {ss \in Nat \X Nat : ss[1] < ss[2]}
           T == {n - i : i \in S}
<1>1. IsWellFoundedOn(R, Nat)
  BY LessIsWellFounded
<1>2. PICK i0 \in S : TRUE
  OBVIOUS
<1>3. n - i0 \in T
  BY <1>2
<1>4. T \subseteq Nat
  OBVIOUS
<1> HIDE DEF R, T
<1>5. PICK x \in T : \A y \in T : ~(<<y, x>> \in R)
  BY <1>1, <1>3, <1>4, WFMin
<1>6. \A y \in T : ~(y < x)
  BY <1>4, <1>5 DEF R
<1>7. PICK i \in S : x = n - i
  BY DEF T
<1>8. ASSUME NEW j \in S PROVE j <= i
  <2>1. n - j \in T
    BY DEF T
  <2> QED
    BY <2>1, <1>6, <1>7
<1> QED
  BY <1>8

(* The error goes down to a frame of the stack, or passes them all. *)
LEMMA CaughtBounds ==
    ASSUME stack \in Seq(Frame)
    PROVE  Caught(stack) \in 0..Len(stack)
<1>1. CASE SafeFrames(stack) = {}
  BY <1>1 DEF Caught
<1>2. CASE SafeFrames(stack) # {}
  <2>1. SafeFrames(stack) \subseteq 1..Len(stack) /\ Len(stack) \in Nat
    BY DEF SafeFrames
  <2>2. \E i \in SafeFrames(stack) : \A j \in SafeFrames(stack) : j <= i
    BY <1>2, <2>1, HasLast
  <2>3. Deepest(SafeFrames(stack)) \in SafeFrames(stack)
    BY <2>2 DEF Deepest
  <2> QED
    BY <1>2, <2>1, <2>3 DEF Caught
<1> QED
  BY <1>1, <1>2

(* What is left without the element at i. *)
LEMMA RemoveAtProperties ==
    ASSUME NEW S, NEW s \in Seq(S), NEW i \in 1..Len(s)
    PROVE  /\ RemoveAt(s, i) \in Seq(S)
           /\ Len(RemoveAt(s, i)) = Len(s) - 1
           /\ \A j \in 1..(Len(s) - 1) : RemoveAt(s, i)[j] = IF j < i THEN s[j] ELSE s[j + 1]
<1> DEFINE a == SubSeq(s, 1, i - 1)
           b == SubSeq(s, i + 1, Len(s))
<1>1. /\ a \in Seq(S) /\ Len(a) = i - 1
      /\ \A j \in 1..(i - 1) : a[j] = s[j]
  BY SubSeqProperties
<1>2. /\ b \in Seq(S) /\ Len(b) = Len(s) - i
      /\ \A j \in 1..(Len(s) - i) : b[j] = s[i + j]
  BY SubSeqProperties
<1> HIDE DEF a, b
<1>3. /\ a \o b \in Seq(S)
      /\ Len(a \o b) = Len(a) + Len(b)
      /\ \A j \in 1..(Len(a) + Len(b)) :
            (a \o b)[j] = IF j <= Len(a) THEN a[j] ELSE b[j - Len(a)]
  BY ONLY <1>1, <1>2, ConcatProperties
<1>4. RemoveAt(s, i) = a \o b
  BY DEF RemoveAt, a, b
<1>5. Len(a) + Len(b) = Len(s) - 1
  BY <1>1, <1>2
<1>6. ASSUME NEW j \in 1..(Len(s) - 1)
      PROVE  (a \o b)[j] = IF j < i THEN s[j] ELSE s[j + 1]
  <2>1. (a \o b)[j] = IF j <= i - 1 THEN a[j] ELSE b[j - (i - 1)]
    BY <1>1, <1>3, <1>5
  <2>2. CASE j < i
    BY <2>1, <2>2, <1>1
  <2>3. CASE ~(j < i)
    <3>1. j - (i - 1) \in 1..(Len(s) - i) /\ i + (j - (i - 1)) = j + 1
      BY <2>3
    <3>2. b[j - (i - 1)] = s[j + 1]
      BY <3>1, <1>2
    <3> QED
      BY <3>2, <2>1, <2>3
  <2> QED
    BY <2>2, <2>3
<1> QED
  BY <1>3, <1>4, <1>5, <1>6

-----------------------------------------------------------------------------
(* Libraries. *)

(* A new userdata of a library that has none, or of an object whose library is open. *)
LEMMA AppendKeepsLibs ==
    ASSUME NEW h \in [Libraries -> Statuses], NEW u \in Seq(Userdata), NEW h2, NEW x,
           LibsInv(h, u, FALSE), NEW q \in Libraries,
           \/ x = Lib(q) /\ h[q] = "unregistered" /\ h2 = [h EXCEPT ![q] = "NULL"]
           \/ x = ObjectOf(q) /\ h[q] = "open" /\ h2 = h
    PROVE  Append(u, x) \in Seq(Userdata) /\ LibsInv(h2, Append(u, x), FALSE)
<1> DEFINE v == Append(u, x)
           n == Len(u)
<1>1. x \in Userdata
  BY DEF Lib, ObjectOf, Userdata
<1>2. /\ v \in Seq(Userdata) /\ Len(v) = n + 1 /\ n \in Nat
      /\ \A i \in 1..n : v[i] = u[i]
      /\ v[n + 1] = x
  BY <1>1, AppendProperties
<1> HIDE DEF v, n
<1> USE DEF LibsInv, Lib, ObjectOf
<1>3. 1..Len(v) = 1..n \cup {n + 1} /\ 1..Len(u) = 1..n
  BY <1>2 DEF n
<1>4. \A i \in 1..n : u[i].lib \in Libraries /\ u[i].k \in {"library", "object"}
  <2>1. \A i \in 1..n : u[i] \in Userdata
    BY ElementOfSeq DEF n
  <2> QED
    BY <2>1 DEF Userdata
<1>5. \A p \in Libraries : h2[p] = IF x = Lib(q) /\ p = q THEN "NULL" ELSE h[p]
  BY DEF Statuses
<1>6. ASSUME NEW p \in Libraries, h2[p] = "unregistered", NEW i \in 1..Len(v)
      PROVE  v[i] # Lib(p)
  <2>1. h[p] = "unregistered" /\ (x = Lib(q) => p # q)
    BY <1>6, <1>5
  <2>2. x # Lib(p)
    BY <2>1
  <2> QED
    BY <2>1, <2>2, <1>2, <1>3
<1>7. ASSUME NEW p \in Libraries, h2[p] # "unregistered"
      PROVE  \E i \in 1..Len(v) : v[i] = Lib(p)
  <2>1. CASE h[p] = "unregistered"
    <3>1. x = Lib(q) /\ p = q
      BY <2>1, <1>5, <1>7
    <3> QED
      BY <3>1, <1>2, <1>3
  <2>2. CASE h[p] # "unregistered"
    BY <2>2, <1>2, <1>3
  <2> QED
    BY <2>1, <2>2
<1>8. ASSUME NEW i \in 1..Len(v), NEW j \in 1..Len(v), v[i].k = "library", v[i] = v[j]
      PROVE  i = j
  <2>1. x.k = "library" => \A m \in 1..n : u[m] # x
    <3>1. CASE x = Lib(q) /\ h[q] = "unregistered"
      BY <3>1, <1>3
    <3>2. CASE x = ObjectOf(q)
      BY <3>2
    <3> QED
      BY <3>1, <3>2
  <2>2. CASE i \in 1..n /\ j \in 1..n
    BY <2>2, <1>8, <1>2, <1>3
  <2>3. CASE i = n + 1 /\ j \in 1..n
    BY <2>3, <2>1, <1>8, <1>2
  <2>4. CASE j = n + 1 /\ i \in 1..n
    BY <2>4, <2>1, <1>8, <1>2
  <2> QED
    BY <2>2, <2>3, <2>4, <1>3
<1>9. ASSUME NEW i \in 1..Len(v), v[i].k = "object"
      PROVE  h2[v[i].lib] = "open" /\ \E j \in 1..(i - 1) : v[j] = Lib(v[i].lib)
  <2>1. CASE i \in 1..n
    <3>1. v[i] = u[i] /\ u[i].lib \in Libraries /\ h[u[i].lib] = "open"
      BY <2>1, <1>9, <1>2, <1>3, <1>4
    <3>2. h2[u[i].lib] = "open"
      BY <3>1, <1>5
    <3>3. PICK j \in 1..(i - 1) : u[j] = Lib(u[i].lib)
      BY <2>1, <1>9, <1>2, <1>3
    <3>4. v[j] = u[j]
      BY <2>1, <1>2
    <3> QED
      BY <3>1, <3>2, <3>3, <3>4
  <2>2. CASE i = n + 1
    <3>1. x = ObjectOf(q) /\ h[q] = "open" /\ h2 = h /\ v[i] = x
      BY <2>2, <1>9, <1>2
    <3>2. PICK j \in 1..n : u[j] = Lib(q)
      BY <3>1, <1>3
    <3>3. v[j] = u[j] /\ n = i - 1
      BY <2>2, <1>2
    <3> QED
      BY <3>1, <3>2, <3>3
  <2> QED
    BY <2>1, <2>2, <1>3
<1>10. LibsInv(h2, v, FALSE)
  BY <1>6, <1>7, <1>8, <1>9 DEF LibsInv
<1> QED
  BY <1>2, <1>10 DEF v

(* GoodLibs is LibsInv of a state of the libraries while scripts run. *)
GoodLibs(s) == s \in LibState /\ LibsInv(s.handle, s.udata, FALSE)

(* A state of the libraries from its parts. *)
LEMMA GoodParts ==
    ASSUME NEW h \in [Libraries -> Statuses], NEW u \in Seq(Userdata), LibsInv(h, u, FALSE)
    PROVE  GoodLibs([handle |-> h, udata |-> u])
BY DEF GoodLibs, LibState

(* Setting one library's handle in a state. *)
LEMMA ExceptHandle ==
    ASSUME NEW r \in LibState, NEW q \in Libraries, NEW e \in Statuses
    PROVE  [r EXCEPT !.handle[q] = e] =
                [handle |-> [r.handle EXCEPT ![q] = e], udata |-> r.udata]
<1>1. r = [handle |-> r.handle, udata |-> r.udata]
  BY DEF LibState
<1>2. r.handle \in [Libraries -> Statuses]
  BY DEF LibState
<1>3. [[handle |-> r.handle, udata |-> r.udata] EXCEPT !.handle[q] = e] =
        [handle |-> [r.handle EXCEPT ![q] = e], udata |-> r.udata]
  BY <1>2
<1> QED
  BY <1>1, <1>3

(* Registering a library gives it its userdata, once. *)
LEMMA RegisterKeepsLibs ==
    ASSUME NEW s, GoodLibs(s), NEW q \in Libraries
    PROVE  GoodLibs(ll_register(s, q)) /\ ll_register(s, q).handle[q] # "unregistered"
<1> USE DEF GoodLibs, LibState
<1>1. CASE s.handle[q] # "unregistered"
  BY <1>1 DEF ll_register
<1>2. CASE s.handle[q] = "unregistered"
  <2> DEFINE h2 == [s.handle EXCEPT ![q] = "NULL"]
             v == Append(s.udata, Lib(q))
  <2>1. ll_register(s, q) = [handle |-> h2, udata |-> v]
    BY <1>2 DEF ll_register
  <2>2. h2 \in [Libraries -> Statuses] /\ h2[q] = "NULL"
    BY DEF Statuses
  <2>3. v \in Seq(Userdata) /\ LibsInv(h2, v, FALSE)
    <3>1. s.handle \in [Libraries -> Statuses] /\ s.udata \in Seq(Userdata)
          /\ LibsInv(s.handle, s.udata, FALSE)
      OBVIOUS
    <3> QED
      BY ONLY <1>2, <3>1, q \in Libraries, AppendKeepsLibs
  <2> HIDE DEF h2, v
  <2>4. GoodLibs([handle |-> h2, udata |-> v])
    BY ONLY <2>2, <2>3, GoodParts
  <2> QED
    <3>1. GoodLibs(ll_register(s, q))
      BY ONLY <2>1, <2>4, Zenon
    <3>2. ll_register(s, q).handle = h2
      BY ONLY <2>1
    <3>3. h2[q] # "unregistered"
      BY ONLY <2>2
    <3> QED
      BY ONLY <3>1, <3>2, <3>3, Zenon
<1> QED
  BY <1>1, <1>2

(* dlopen and dlsym close no library: one that was open stays open. *)
LEMMA LoadfuncKeepsLibs ==
    ASSUME NEW s, GoodLibs(s), NEW q \in Libraries, NEW name, NEW opens
    PROVE  GoodLibs(ll_loadfunc(s, q, name, opens).s)
<1> DEFINE r == ll_register(s, q)
<1>1. GoodLibs(r) /\ r.handle[q] # "unregistered"
  BY RegisterKeepsLibs
<1> HIDE DEF r
<1>2. r.handle \in [Libraries -> Statuses] /\ r.udata \in Seq(Userdata)
      /\ LibsInv(r.handle, r.udata, FALSE)
  BY <1>1 DEF GoodLibs, LibState
<1> DEFINE h2 == [r.handle EXCEPT ![q] = "open"]
<1>3. h2 \in [Libraries -> Statuses]
      /\ \A p \in Libraries : h2[p] = IF p = q THEN "open" ELSE r.handle[p]
  BY <1>2 DEF Statuses
<1>4. [r EXCEPT !.handle[q] = "open"] = [handle |-> h2, udata |-> r.udata]
  <2>1. r \in LibState /\ "open" \in Statuses
    BY <1>1 DEF GoodLibs, Statuses
  <2> QED
    BY <2>1, ExceptHandle
<1> HIDE DEF h2
<1>5. \A i \in 1..Len(r.udata) : r.udata[i].lib \in Libraries
  <2>1. \A i \in 1..Len(r.udata) : r.udata[i] \in Userdata
    BY <1>2, ElementOfSeq
  <2> QED
    BY <2>1 DEF Userdata
<1>6. LibsInv(h2, r.udata, FALSE)
  BY <1>1, <1>2, <1>3, <1>5 DEF LibsInv
<1>7. GoodLibs([handle |-> h2, udata |-> r.udata])
  BY <1>2, <1>3, <1>6 DEF GoodLibs, LibState
<1>8. ll_loadfunc(s, q, name, opens).s \in {r, [r EXCEPT !.handle[q] = "open"]}
  BY DEF ll_loadfunc, r
<1> QED
  BY <1>1, <1>4, <1>7, <1>8

(* The loaders that require asks change the libraries only by ll_loadfunc. *)
LEMMA SearchKeepsLibs ==
    ASSUME NEW s, GoodLibs(s), NEW name, NEW opens
    PROVE  GoodLibs(Search(s, name, opens).s)
<1>1. ASSUME NEW t, GoodLibs(t) PROVE GoodLibs(loader_C(t, name, opens).s)
  <2> DEFINE r == ll_loadfunc(t, name, name, opens)
  <2>1. CASE name \notin Libraries
    BY <2>1, <1>1 DEF loader_C
  <2>2. CASE name \in Libraries
    <3>1. GoodLibs(r.s)
      BY <2>2, <1>1, LoadfuncKeepsLibs
    <3>2. [r EXCEPT !.stat = IF @ = "found" THEN @ ELSE "error"].s = r.s
      BY DEF ll_loadfunc
    <3>3. loader_C(t, name, opens) = [r EXCEPT !.stat = IF @ = "found" THEN @ ELSE "error"]
      BY <2>2 DEF loader_C
    <3> QED
      BY <3>1, <3>2, <3>3
  <2> QED
    BY <2>1, <2>2
<1>2. ASSUME NEW t, GoodLibs(t) PROVE GoodLibs(loader_Croot(t, name, opens).s)
  <2> DEFINE r == ll_loadfunc(t, Root(name), name, opens)
             e == [r EXCEPT !.stat = CASE @ = "found" -> @ [] @ = "ERRLIB" -> "error"
                                         [] @ = "ERRFUNC" -> "missing"]
  <2>1. CASE Len(name) = 1 \/ Root(name) \notin Libraries
    BY <2>1, <1>2 DEF loader_Croot
  <2>2. CASE ~(Len(name) = 1 \/ Root(name) \notin Libraries)
    <3>1. GoodLibs(r.s)
      BY <2>2, <1>2, LoadfuncKeepsLibs
    <3>2. e.s = r.s
      BY DEF ll_loadfunc
    <3>3. loader_Croot(t, name, opens) = e
      BY <2>2 DEF loader_Croot
    <3> QED
      BY <3>1, <3>2, <3>3
  <2> QED
    BY <2>1, <2>2
<1> DEFINE c == loader_C(s, name, opens)
           r == loader_Croot(c.s, name, opens)
           e == [r EXCEPT !.stat = IF @ = "missing" THEN "error" ELSE @]
<1>3. GoodLibs(c.s)
  BY <1>1
<1>4. GoodLibs(r.s)
  BY <1>2, <1>3
<1>5. e.s = r.s
  BY DEF loader_Croot, ll_loadfunc
<1>6. loader_preload(s, name).s = s /\ loader_Lua(s, name).s = s
  BY DEF loader_preload, loader_Lua
<1> HIDE DEF c, r, e
<1>7. Search(s, name, opens) \in {loader_preload(s, name), loader_Lua(s, name), c, e}
  BY DEF Search, c, r, e
<1> QED
  BY <1>3, <1>4, <1>5, <1>6, <1>7

-----------------------------------------------------------------------------
(* Finalizers. *)

(* The collector takes an object from anywhere: no library loses its userdata. *)
LEMMA CollectKeepsLibs ==
    ASSUME NEW h \in [Libraries -> Statuses], NEW u \in Seq(Userdata), LibsInv(h, u, FALSE),
           NEW m \in 1..Len(u), u[m].k = "object"
    PROVE  RemoveAt(u, m) \in Seq(Userdata) /\ LibsInv(h, RemoveAt(u, m), FALSE)
<1> DEFINE v == RemoveAt(u, m)
           From(i) == IF i < m THEN i ELSE i + 1
<1>1. /\ v \in Seq(Userdata) /\ Len(v) = Len(u) - 1 /\ Len(u) \in Nat
      /\ \A i \in 1..Len(v) : v[i] = u[From(i)]
  <2>1. /\ v \in Seq(Userdata) /\ Len(v) = Len(u) - 1
        /\ \A i \in 1..(Len(u) - 1) : v[i] = IF i < m THEN u[i] ELSE u[i + 1]
    BY RemoveAtProperties
  <2> HIDE DEF v
  <2> QED
    BY <2>1
<1> HIDE DEF v
<1> USE DEF LibsInv, Lib
<1>2. \A i \in 1..Len(v) : From(i) \in 1..Len(u)
  BY <1>1
<1>3. \A j \in 1..Len(u) : j # m => \E i \in 1..Len(v) : From(i) = j /\ v[i] = u[j] /\ i <= j
  <2> TAKE j \in 1..Len(u)
  <2> HAVE j # m
  <2>1. CASE j < m
    <3>1. j \in 1..Len(v) /\ From(j) = j
      BY <2>1, <1>1
    <3> QED
      BY <3>1, <1>1
  <2>2. CASE j > m
    <3>1. j - 1 \in 1..Len(v) /\ From(j - 1) = j /\ j - 1 <= j
      BY <2>2, <1>1
    <3>2. v[j - 1] = u[j]
      BY <3>1, <1>1
    <3> HIDE DEF From
    <3> QED
      BY <3>1, <3>2
  <2> QED
    BY <2>1, <2>2
<1>4. ASSUME NEW p \in Libraries, h[p] = "unregistered", NEW i \in 1..Len(v)
      PROVE  v[i] # Lib(p)
  BY <1>4, <1>1, <1>2
<1>5. ASSUME NEW p \in Libraries, h[p] # "unregistered"
      PROVE  \E i \in 1..Len(v) : v[i] = Lib(p)
  <2>1. PICK j \in 1..Len(u) : u[j] = Lib(p)
    BY <1>5
  <2>2. j # m
    BY <2>1
  <2> QED
    BY <2>1, <2>2, <1>3
<1>6. ASSUME NEW i \in 1..Len(v), NEW j \in 1..Len(v), v[i].k = "library", v[i] = v[j]
      PROVE  i = j
  <2>1. u[From(i)].k = "library" /\ u[From(i)] = u[From(j)]
    BY <1>6, <1>1
  <2>2. From(i) \in 1..Len(u) /\ From(j) \in 1..Len(u)
    BY <1>2
  <2>3. From(i) = From(j)
    <3> HIDE DEF From
    <3> QED
      BY <2>1, <2>2
  <2> QED
    BY <2>3, <1>1
<1>7. ASSUME NEW i \in 1..Len(v), v[i].k = "object"
      PROVE  h[v[i].lib] = "open" /\ \E j \in 1..(i - 1) : v[j] = Lib(v[i].lib)
  <2>1. v[i] = u[From(i)] /\ From(i) \in 1..Len(u)
    BY <1>1, <1>2
  <2>2. PICK j \in 1..(From(i) - 1) : u[j] = Lib(v[i].lib)
    BY <2>1, <1>7
  <2>3. j # m /\ j \in 1..Len(u)
    BY <2>1, <2>2
  <2>4. PICK i2 \in 1..Len(v) : From(i2) = j /\ v[i2] = u[j]
    BY <2>3, <1>3
  <2>5. i2 < i
    BY <2>2, <2>4
  <2> QED
    BY <2>1, <2>2, <2>4, <2>5, <1>7
<1>8. LibsInv(h, v, FALSE)
  BY <1>4, <1>5, <1>6, <1>7
<1> QED
  BY <1>1, <1>8 DEF v

(* lua_close takes the newest: a library's turn comes when no object of it is left. *)
LEMMA FinalizeKeepsLibs ==
    ASSUME NEW h \in [Libraries -> Statuses], NEW u \in Seq(Userdata), LibsInv(h, u, TRUE),
           u # <<>>, NEW h2,
           h2 = IF u[Len(u)].k = "library" THEN [h EXCEPT ![u[Len(u)].lib] = "NULL"] ELSE h
    PROVE  /\ RemoveAt(u, Len(u)) \in Seq(Userdata)
           /\ h2 \in [Libraries -> Statuses]
           /\ LibsInv(h2, RemoveAt(u, Len(u)), TRUE)
<1> DEFINE n == Len(u)
           v == RemoveAt(u, n)
<1>1. n \in Nat /\ n >= 1
  BY EmptySeq
<1>2. /\ v \in Seq(Userdata) /\ Len(v) = n - 1
      /\ \A i \in 1..(n - 1) : v[i] = u[i]
  BY <1>1, RemoveAtProperties
<1>3. \A i \in 1..n : u[i] \in Userdata
  BY ElementOfSeq
<1> HIDE DEF v, n
<1> USE DEF LibsInv, Lib
<1>4. \A i \in 1..n : u[i].lib \in Libraries /\ u[i].k \in {"library", "object"}
  BY <1>3 DEF Userdata
<1>5. h2 \in [Libraries -> Statuses]
      /\ \A p \in Libraries :
            h2[p] = IF u[n].k = "library" /\ p = u[n].lib THEN "NULL" ELSE h[p]
  BY <1>1, <1>4 DEF Statuses, n
<1>6. u[n].k = "library" => u[n] = Lib(u[n].lib)
  BY <1>1, <1>3 DEF Userdata
<1>7. ASSUME NEW p \in Libraries, h2[p] = "unregistered", NEW i \in 1..Len(v)
      PROVE  v[i] # Lib(p)
  <2>1. h[p] = "unregistered"
    BY <1>5, <1>7
  <2> QED
    BY <2>1, <1>1, <1>2 DEF n
<1>8. ASSUME NEW i \in 1..Len(v), NEW j \in 1..Len(v), v[i].k = "library", v[i] = v[j]
      PROVE  i = j
  BY <1>8, <1>1, <1>2 DEF n
<1>9. ASSUME NEW i \in 1..Len(v), v[i].k = "object"
      PROVE  h2[v[i].lib] = "open" /\ \E j \in 1..(i - 1) : v[j] = Lib(v[i].lib)
  <2>1. i \in 1..n /\ i < n /\ v[i] = u[i] /\ u[i].lib \in Libraries
    BY <1>1, <1>2, <1>4
  <2>2. h[u[i].lib] = "open" /\ \E j \in 1..(i - 1) : u[j] = Lib(u[i].lib)
    BY <2>1, <1>9 DEF n
  <2>3. PICK j \in 1..(i - 1) : u[j] = Lib(u[i].lib)
    BY <2>2
  <2>4. v[j] = u[j] /\ j \in 1..n /\ j < n
    BY <2>1, <1>1, <1>2
  <2>5. ~(u[n].k = "library" /\ u[n].lib = u[i].lib)
    <3> SUFFICES ASSUME u[n].k = "library", u[n].lib = u[i].lib PROVE FALSE
      OBVIOUS
    <3>1. u[n] = u[j]
      BY <1>6, <2>3
    <3>2. n \in 1..n
      BY <1>1
    <3> QED
      BY <3>1, <3>2, <2>4, <1>6 DEF n
  <2> QED
    BY <2>1, <2>2, <2>3, <2>4, <2>5, <1>5
<1>10. LibsInv(h2, v, TRUE)
  BY <1>7, <1>8, <1>9
<1> QED
  BY <1>2, <1>5, <1>10 DEF v, n

-----------------------------------------------------------------------------
(* Tables of modules. *)

(* A part of a part of a name is a part of the name. *)
LEMMA PartsOfParts ==
    ASSUME NEW name \in Names, NEW p \in Parts(name)
    PROVE  p \in Names /\ Parts(p) \subseteq Parts(name)
<1>1. PICK i \in 1..Len(name) : p = SubSeq(name, 1, i)
  BY DEF Parts
<1>2. name \in Seq(STRING) /\ p \in Names
  BY <1>1, NamesAssumption
<1>3. Len(p) = i
  <2>1. \A j \in 1..i : name[j] \in STRING
    BY <1>1, <1>2, ElementOfSeq
  <2> QED
    BY <1>1, <2>1, SubSeqProperties
<1>4. ASSUME NEW j \in 1..Len(p) PROVE SubSeq(p, 1, j) \in Parts(name)
  <2>1. SubSeq(SubSeq(name, 1, i), 1, j) = SubSeq(name, 1 + 1 - 1, 1 + j - 1)
    <3>1. i \in 1..Len(name) /\ 1 \in 1..Len(name) /\ 1 \in 1..(i - 1 + 1) /\ j \in 1..(i - 1 + 1)
          /\ Len(name) \in Nat
      BY <1>2, <1>3
    <3> QED
      BY <3>1, <1>2, SubSeqOfSubSeq
  <2>2. j \in 1..Len(name) /\ SubSeq(p, 1, j) = SubSeq(name, 1, j)
    BY <1>1, <1>2, <1>3, <2>1
  <2> QED
    BY <2>2 DEF Parts
<1> QED
  BY <1>2, <1>4 DEF Parts

(* luaL_findtable makes every part of the name a table, or stops in front of the first
   that is something else; no table is lost. *)
LEMMA FindtableMakesTables ==
    ASSUME globals \in [Names -> {"nil", "other", "table"}], NEW name \in Names
    PROVE  /\ luaL_findtable(name) \in [Names -> {"nil", "other", "table"}]
           /\ \A p \in Names : globals[p] = "table" => luaL_findtable(name)[p] = "table"
           /\ ~Conflict(name) => \A p \in Parts(name) : luaL_findtable(name)[p] = "table"
<1>1. ASSUME ~Conflict(name), NEW p \in Parts(name) PROVE luaL_findtable(name)[p] = "table"
  <2>1. p \in Names /\ globals[p] \in {"nil", "table"}
    BY <1>1, PartsOfParts DEF Conflict
  <2>2. \A q \in Parts(p) : globals[q] # "other"
    BY <1>1, PartsOfParts DEF Conflict
  <2> QED
    BY <2>1, <2>2 DEF luaL_findtable
<1> QED
  BY <1>1 DEF luaL_findtable

(* Tables that stay keep the modules global. *)
LEMMA TablesStay ==
    ASSUME GlobalsInv, globals' \in [Names -> {"nil", "other", "table"}],
           \A p \in Names : globals[p] = "table" => globals'[p] = "table",
           loaded' \in [Names -> Values],
           \A n \in Names : loaded'[n] = "table" => loaded[n] = "table"
    PROVE  GlobalsInv'
<1>1. ASSUME NEW n \in Names, loaded'[n] = "table", NEW p \in Parts(n) PROVE globals'[p] = "table"
  BY <1>1, PartsOfParts DEF GlobalsInv, ModulesAreGlobal
<1> QED
  BY <1>1 DEF GlobalsInv, ModulesAreGlobal, Parts

-----------------------------------------------------------------------------
(* Calls of require in each other. *)

(* An error leaves the frames above the pcall, and marks what they left. *)
LEMMA RaiseKeepsFrames ==
    ASSUME FramesInv, Raise(stack), loaded' = loaded
    PROVE  FramesInv'
<1> DEFINE c == Caught(stack)
<1>1. stack \in Seq(Frame) /\ c \in 0..Len(stack) /\ Len(stack) \in Nat /\ Len(stack) <= MaxDepth
  BY CaughtBounds DEF FramesInv
<1>2. stack' = SubSeq(stack, 1, c)
      /\ failed' = failed \cup {stack[i].name : i \in (c + 1)..Len(stack)}
  BY DEF Raise
<1> HIDE DEF c
<1>3. stack' \in Seq(Frame) /\ Len(stack') = c /\ \A i \in 1..c : stack'[i] = stack[i]
  <2>1. \A i \in 1..c : stack[i] \in Frame
    BY <1>1, ElementOfSeq
  <2> QED
    BY <1>1, <1>2, <2>1, SubSeqProperties
<1>4. Len(stack') <= MaxDepth
  BY <1>1, <1>3, BoundsAssumption
<1>5. FramesMarked'
  BY <1>1, <1>3 DEF FramesInv, FramesMarked
<1>6. NoReentry'
  BY <1>1, <1>3 DEF FramesInv, NoReentry
<1>7. SentinelMeansLoading'
  <2> SUFFICES ASSUME NEW name \in Names, loaded[name] = "sentinel"
               PROVE  name \in failed' \/ \E i \in 1..Len(stack') :
                                            stack'[i].name = name /\ ~stack'[i].cleared
    BY DEF SentinelMeansLoading
  <2>1. CASE name \in failed
    BY <2>1, <1>2
  <2>2. CASE \E i \in 1..Len(stack) : stack[i].name = name /\ ~stack[i].cleared
    <3>1. PICK i \in 1..Len(stack) : stack[i].name = name /\ ~stack[i].cleared
      BY <2>2
    <3>2. CASE i <= c
      <4>1. i \in 1..Len(stack') /\ stack'[i] = stack[i]
        BY <3>2, <1>1, <1>3
      <4> QED
        BY <4>1, <3>1
    <3>3. CASE i > c
      <4>1. i \in (c + 1)..Len(stack)
        BY <3>3, <1>1
      <4> QED
        BY <4>1, <3>1, <1>2
    <3> QED
      BY <3>2, <3>3, <1>1
  <2> QED
    BY <2>1, <2>2 DEF FramesInv, SentinelMeansLoading
<1> QED
  BY <1>3, <1>4, <1>5, <1>6, <1>7 DEF FramesInv

(* require runs a chunk whose module has no mark: what runs of it began before the module
   was cleared. *)
LEMMA RunChunkKeepsFrames ==
    ASSUME FramesInv, loaded \in [Names -> Values], NEW name \in Names, NEW safe \in BOOLEAN,
           ~IsTrue(loaded[name]), RunChunk(name, safe)
    PROVE  FramesInv'
<1> DEFINE e == [name |-> name, safe |-> safe, cleared |-> FALSE]
           n == Len(stack)
<1>1. stack \in Seq(Frame) /\ n \in Nat /\ n < MaxDepth /\ e \in Frame
  BY DEF FramesInv, Frame, RunChunk
<1>2. /\ stack' \in Seq(Frame) /\ Len(stack') = n + 1
      /\ \A i \in 1..n : stack'[i] = stack[i]
      /\ stack'[n + 1] = e
  BY <1>1, AppendProperties DEF RunChunk
<1>3. /\ \A m \in Names : loaded'[m] = IF m = name THEN "sentinel" ELSE loaded[m]
      /\ failed' = failed \ {name}
  BY DEF RunChunk
<1>4. \A i \in 1..n : stack[i].name \in Names /\ (stack[i].name = name => stack[i].cleared)
  <2>1. \A i \in 1..n : stack[i] \in Frame
    BY <1>1, ElementOfSeq
  <2>2. \A i \in 1..n : ~stack[i].cleared => stack[i].name # name
    BY DEF FramesInv, FramesMarked, IsTrue
  <2> QED
    BY <2>1, <2>2 DEF Frame
<1> HIDE DEF n
<1>5. 1..Len(stack') = 1..n \cup {n + 1} /\ 1..Len(stack) = 1..n
  BY <1>1, <1>2 DEF n
<1>6. stack'[n + 1].name = name /\ ~stack'[n + 1].cleared
  BY <1>2
<1> HIDE DEF e
<1>7. Len(stack') <= MaxDepth
  BY <1>1, <1>2, BoundsAssumption DEF n
<1>8. FramesMarked'
  <2> SUFFICES ASSUME NEW i \in 1..Len(stack'), ~stack'[i].cleared
               PROVE  loaded'[stack'[i].name] \in {"sentinel", "table"}
    BY DEF FramesMarked
  <2>1. CASE i = n + 1
    <3>1. loaded'[name] = "sentinel"
      BY <1>3
    <3> QED
      BY <2>1, <3>1, <1>6
  <2>2. CASE i \in 1..n
    <3>1. stack'[i] = stack[i] /\ stack[i].name \in Names /\ stack[i].name # name
      BY <2>2, <1>2, <1>4
    <3>2. loaded[stack[i].name] \in {"sentinel", "table"}
      BY <2>2, <3>1, <1>5 DEF FramesInv, FramesMarked
    <3>3. loaded'[stack[i].name] = loaded[stack[i].name]
      BY <3>1, <1>3
    <3> QED
      BY <3>1, <3>2, <3>3
  <2> QED
    BY <2>1, <2>2, <1>5
<1>9. NoReentry'
  <2> SUFFICES ASSUME NEW i \in 1..Len(stack'), NEW j \in 1..Len(stack'),
                      i < j, stack'[i].name = stack'[j].name
               PROVE  stack'[i].cleared
    BY DEF NoReentry
  <2>1. i \in 1..n /\ stack'[i] = stack[i]
    BY <1>1, <1>2, <1>5
  <2>2. CASE j = n + 1
    BY <2>1, <2>2, <1>4, <1>6
  <2>3. CASE j \in 1..n
    <3>1. stack[i].name = stack[j].name
      BY <2>1, <2>3, <1>2
    <3> QED
      BY <2>1, <2>3, <3>1, <1>5 DEF FramesInv, NoReentry
  <2> QED
    BY <2>2, <2>3, <1>5
<1>10. SentinelMeansLoading'
  <2> SUFFICES ASSUME NEW m \in Names, loaded'[m] = "sentinel"
               PROVE  m \in failed' \/ \E i \in 1..Len(stack') :
                                        stack'[i].name = m /\ ~stack'[i].cleared
    BY DEF SentinelMeansLoading
  <2>1. CASE m = name
    BY <2>1, <1>5, <1>6
  <2>2. CASE m # name
    <3>1. loaded[m] = "sentinel" /\ SentinelMeansLoading
      BY <2>2, <1>3 DEF FramesInv
    <3>2. m \in failed \/ \E i \in 1..n : stack[i].name = m /\ ~stack[i].cleared
      BY <3>1, <1>5 DEF SentinelMeansLoading
    <3>3. CASE m \in failed
      BY <2>2, <3>3, <1>3
    <3>4. ASSUME NEW i \in 1..n, stack[i].name = m, ~stack[i].cleared
          PROVE  \E k \in 1..Len(stack') : stack'[k].name = m /\ ~stack'[k].cleared
      <4>1. i \in 1..Len(stack') /\ stack'[i] = stack[i]
        BY <1>2, <1>5
      <4> QED
        BY <3>4, <4>1
    <3> QED
      BY <3>2, <3>3, <3>4
  <2> QED
    BY <2>1, <2>2
<1> QED
  BY <1>2, <1>7, <1>8, <1>9, <1>10 DEF FramesInv

(* The chunk that returns leaves no sentinel, and the others are still marked: those of the
   same module are under it, and were cleared.  It replaces a value that is not its mark
   only if it was cleared itself. *)
LEMMA ReturnKeepsFrames ==
    ASSUME FramesInv, loaded \in [Names -> Values], NEW v \in {"nil", "false", "value"}, Return(v)
    PROVE  /\ FramesInv'
           /\ loaded' \in [Names -> Values]
           /\ \A m \in Names : loaded'[m] = "table" => loaded[m] = "table"
           /\ \A m \in Names : loaded'[m] # loaded[m] =>
                \/ loaded[m] \in {"sentinel", "table"}
                \/ stack # <<>> /\ Chunk = m /\ stack[Len(stack)].cleared
<1> DEFINE n == Len(stack)
<1>1. stack \in Seq(Frame) /\ stack # <<>> /\ n \in Nat /\ n >= 1
  BY EmptySeq DEF FramesInv, Return
<1>2. \A i \in 1..n : stack[i] \in Frame /\ stack[i].name \in Names
  <2>1. \A i \in 1..n : stack[i] \in Frame
    BY <1>1, ElementOfSeq
  <2> QED
    BY <2>1 DEF Frame
<1>3. n \in 1..n /\ Chunk = stack[n].name /\ Chunk \in Names
  BY <1>1, <1>2 DEF Chunk
<1>4. stack' = SubSeq(stack, 1, n - 1) /\ failed' = failed
      /\ loaded' = [loaded EXCEPT ![Chunk] = Result(Chunk, v)]
  BY DEF Return
<1>5. stack' \in Seq(Frame) /\ Len(stack') = n - 1 /\ \A i \in 1..(n - 1) : stack'[i] = stack[i]
  <2>1. \A i \in 1..(n - 1) : stack[i] \in Frame
    BY <1>1, <1>2
  <2>2. n \in Nat /\ n >= 1 /\ stack' = SubSeq(stack, 1, n - 1)
    BY <1>1, <1>4
  <2> HIDE DEF n
  <2> QED
    BY ONLY <2>1, <2>2, SubSeqProperties
<1>6. Result(Chunk, v) \in Values \ {"sentinel"}
      /\ (Result(Chunk, v) = "table" => loaded[Chunk] = "table")
  BY <1>3 DEF Result, Values
<1>7. \A m \in Names : loaded'[m] = IF m = Chunk THEN Result(Chunk, v) ELSE loaded[m]
  BY <1>3, <1>4
<1>8. loaded[Chunk] \in {"sentinel", "table"} \/ stack[n].cleared
  BY <1>3 DEF FramesInv, FramesMarked
<1>9. loaded' \in [Names -> Values]
  BY <1>3, <1>4, <1>6
<1> HIDE DEF n
<1>10. 1..Len(stack) = 1..(n - 1) \cup {n} /\ n \notin 1..(n - 1) /\ 1..Len(stack') = 1..(n - 1)
  BY <1>1, <1>5 DEF n
<1>11. \A i \in 1..(n - 1) : stack[i].name = Chunk => stack[i].cleared
  <2>1. \A i \in 1..(n - 1) : i < n
    BY <1>1
  <2> QED
    BY <2>1, <1>3, <1>10 DEF FramesInv, NoReentry
<1>12. Len(stack') <= MaxDepth
  BY <1>1, <1>5, BoundsAssumption DEF FramesInv, n
<1>13. FramesMarked'
  <2> SUFFICES ASSUME NEW i \in 1..(n - 1), ~stack'[i].cleared
               PROVE  loaded'[stack'[i].name] \in {"sentinel", "table"}
    BY <1>10 DEF FramesMarked
  <2>1. stack'[i] = stack[i] /\ stack[i].name \in Names /\ stack[i].name # Chunk
        /\ loaded[stack[i].name] \in {"sentinel", "table"}
    BY <1>2, <1>5, <1>10, <1>11 DEF FramesInv, FramesMarked, n
  <2> QED
    BY <2>1, <1>7
<1>14. NoReentry'
  BY <1>5, <1>10 DEF FramesInv, NoReentry
<1>15. SentinelMeansLoading'
  <2> SUFFICES ASSUME NEW m \in Names, loaded'[m] = "sentinel"
               PROVE  m \in failed' \/ \E i \in 1..Len(stack') :
                                        stack'[i].name = m /\ ~stack'[i].cleared
    BY DEF SentinelMeansLoading
  <2>1. m # Chunk /\ loaded[m] = "sentinel"
    BY <1>6, <1>7
  <2>2. m \in failed \/ \E i \in 1..Len(stack) : stack[i].name = m /\ ~stack[i].cleared
    BY <2>1 DEF FramesInv, SentinelMeansLoading
  <2>3. ASSUME NEW i \in 1..Len(stack), stack[i].name = m, ~stack[i].cleared
        PROVE  \E j \in 1..Len(stack') : stack'[j].name = m /\ ~stack'[j].cleared
    BY <2>3, <2>1, <1>3, <1>5, <1>10
  <2> QED
    BY <2>2, <2>3, <1>4
<1> QED
  <2>1. \A m \in Names : loaded'[m] # loaded[m] => m = Chunk
    BY <1>7
  <2>2. \A m \in Names : loaded'[m] # loaded[m] =>
            \/ loaded[m] \in {"sentinel", "table"}
            \/ stack # <<>> /\ Chunk = m /\ stack[Len(stack)].cleared
    BY ONLY <2>1, <1>1, <1>8, Zenon DEF n
  <2>3. \A m \in Names : loaded'[m] = "table" => loaded[m] = "table"
    BY <1>6, <1>7
  <2>4. FramesInv'
    BY <1>5, <1>12, <1>13, <1>14, <1>15 DEF FramesInv
  <2> QED
    BY ONLY <1>9, <2>2, <2>3, <2>4, Zenon

(* module marks with a table: a module that is loading keeps a mark. *)
LEMMA TableKeepsFrames ==
    ASSUME FramesInv, loaded \in [Names -> Values], NEW name \in Names,
           loaded' = [loaded EXCEPT ![name] = "table"], UNCHANGED <<stack, failed>>
    PROVE  FramesInv'
<1>1. \A m \in Names : loaded'[m] = IF m = name THEN "table" ELSE loaded[m]
  OBVIOUS
<1>2. \A i \in 1..Len(stack) : stack[i].name \in Names
  <2>1. \A i \in 1..Len(stack) : stack[i] \in Frame
    BY ElementOfSeq DEF FramesInv
  <2> QED
    BY <2>1 DEF Frame
<1>3. FramesMarked'
  BY <1>1, <1>2 DEF FramesInv, FramesMarked
<1>4. NoReentry' /\ SentinelMeansLoading'
  BY <1>1 DEF FramesInv, NoReentry, SentinelMeansLoading
<1> QED
  BY <1>3, <1>4 DEF FramesInv

(* A script clears a module: the chunks of it that run are marked no more. *)
LEMMA ClearKeepsFrames ==
    ASSUME FramesInv, loaded \in [Names -> Values], NEW name \in Names, Clear(name)
    PROVE  FramesInv'
<1> DEFINE n == Len(stack)
<1>1. stack \in Seq(Frame) /\ n \in Nat /\ n <= MaxDepth
  BY DEF FramesInv
<1>2. \A i \in 1..n : stack[i] \in Frame
  BY <1>1, ElementOfSeq
<1>3. \A i \in 1..n :
        stack'[i] = IF stack[i].name = name THEN [stack[i] EXCEPT !.cleared = TRUE] ELSE stack[i]
  BY DEF Clear
<1>4. DOMAIN stack' = 1..n /\ stack' = [i \in 1..n |-> stack'[i]]
  BY DEF Clear
<1>5. (\A m \in Names : loaded'[m] = IF m = name THEN "nil" ELSE loaded[m])
      /\ failed' = failed \ {name}
  BY DEF Clear
<1> HIDE DEF n
<1>6. stack' \in Seq(Frame) /\ Len(stack') = n
  <2>1. \A i \in 1..n : stack'[i] \in Frame
    BY <1>2, <1>3 DEF Frame
  <2>2. stack' \in Seq(Frame)
    BY <1>1, <1>4, <2>1, SeqDef
  <2>3. Len(stack') \in Nat /\ 1..Len(stack') = 1..n
    BY <2>2, <1>4, LenProperties
  <2>4. Len(stack') <= n
    <3>1. CASE Len(stack') = 0
      BY <3>1, <1>1
    <3>2. CASE Len(stack') # 0
      <4>1. Len(stack') \in 1..Len(stack')
        BY <2>3, <3>2
      <4>2. Len(stack') \in 1..n
        BY ONLY <4>1, <2>3, Zenon
      <4> QED
        BY <4>2, <1>1
    <3> QED
      BY <3>1, <3>2
  <2>5. n <= Len(stack')
    <3>1. CASE n = 0
      BY <3>1, <2>3
    <3>2. CASE n # 0
      <4>1. n \in 1..Len(stack')
        BY <1>1, <2>3, <3>2
      <4> QED
        BY <4>1, <2>3
    <3> QED
      BY <3>1, <3>2
  <2> QED
    BY <2>2, <2>3, <2>4, <2>5, <1>1
<1>7. \A i \in 1..n :
        /\ stack'[i].name = stack[i].name
        /\ IF stack[i].name = name THEN stack'[i].cleared
           ELSE stack'[i].cleared = stack[i].cleared
  BY <1>2, <1>3 DEF Frame
<1>8. \A i \in 1..n : stack[i].name \in Names
  BY <1>2 DEF Frame
<1>9. FramesMarked'
  BY <1>5, <1>6, <1>7, <1>8 DEF FramesInv, FramesMarked, n
<1>10. NoReentry'
  BY <1>6, <1>7 DEF FramesInv, NoReentry, n
<1>11. SentinelMeansLoading'
  BY <1>5, <1>6, <1>7 DEF FramesInv, SentinelMeansLoading, n
<1> QED
  BY <1>1, <1>6, <1>9, <1>10, <1>11 DEF FramesInv

(* Nothing of the calls changes. *)
LEMMA SameFrames ==
    ASSUME FramesInv, UNCHANGED <<stack, failed, loaded>>
    PROVE  FramesInv'
BY DEF FramesInv, FramesMarked, NoReentry, SentinelMeansLoading

(* Nothing of the modules changes. *)
LEMMA SameGlobals ==
    ASSUME GlobalsInv, UNCHANGED <<globals, loaded>>
    PROVE  GlobalsInv'
BY DEF GlobalsInv, ModulesAreGlobal, Parts

LibsPart ==
    /\ handle \in [Libraries -> Statuses] /\ udata \in Seq(Userdata) /\ closing \in BOOLEAN
    /\ LibsInv(handle, udata, closing)

(* Nothing of the libraries changes. *)
LEMMA SameLibs ==
    ASSUME LibsPart, UNCHANGED <<handle, udata, closing>>
    PROVE  LibsPart'
BY DEF LibsPart, LibsInv, Lib

(* A state of the libraries that a call of dlopen and dlsym left. *)
LEMMA NewLibs ==
    ASSUME NEW s, GoodLibs(s), handle' = s.handle, udata' = s.udata, closing' = FALSE
    PROVE  LibsPart'
BY DEF GoodLibs, LibState, LibsPart, LibsInv, Lib

(* The libraries of a running state. *)
LEMMA RunningLibs ==
    ASSUME LibsPart, Running
    PROVE  GoodLibs([handle |-> handle, udata |-> udata])
<1>1. closing = FALSE
  BY DEF LibsPart, Running
<1> QED
  BY <1>1, GoodParts DEF LibsPart

-----------------------------------------------------------------------------
(* luaopen_package leaves no module loaded and no library open. *)
LEMMA RequireInvInit == Init => RequireInv
<1> SUFFICES ASSUME Init PROVE RequireInv
  OBVIOUS
<1>1. stack = <<>> /\ udata = <<>> /\ Len(stack) = 0 /\ 1..Len(stack) = {} /\ 1..Len(udata) = {}
  BY DEF Init
<1>2. stack \in Seq(Frame) /\ udata \in Seq(Userdata)
  BY <1>1, EmptySeq
<1>3. FramesInv
  BY <1>1, <1>2, BoundsAssumption
     DEF Init, FramesInv, FramesMarked, NoReentry, SentinelMeansLoading
<1>4. GlobalsInv
  BY DEF Init, GlobalsInv, ModulesAreGlobal, Values
<1>5. LibsPart
  BY <1>1, <1>2 DEF Init, LibsPart, LibsInv, Statuses
<1> QED
  BY <1>3, <1>4, <1>5 DEF RequireInv, LibsPart

(* Every call keeps the marks, the tables and the order of the userdata. *)
LEMMA RequireInvNext == RequireInv /\ [Next]_vars => RequireInv'
<1> SUFFICES ASSUME RequireInv, [Next]_vars PROVE RequireInv'
  OBVIOUS
<1>1. GlobalsInv /\ FramesInv /\ LibsPart /\ loaded \in [Names -> Values]
  BY DEF RequireInv, GlobalsInv, LibsPart
<1>2. GlobalsInv' /\ FramesInv' /\ LibsPart' => RequireInv'
  BY DEF RequireInv, LibsPart
<1>3. ASSUME NEW name \in Names, NEW safe \in BOOLEAN, ll_require(name, safe)
      PROVE  RequireInv'
  <2>1. CASE Returns(name)
    BY <2>1, <1>1, <1>2, SameFrames, SameGlobals, SameLibs DEF Returns, vars
  <2>2. CASE LoopError(name, safe)
    <3>1. GlobalsInv' /\ LibsPart'
      BY <2>2, <1>1, SameGlobals, SameLibs DEF LoopError
    <3>2. FramesInv'
      BY <2>2, <1>1, SameFrames, RaiseKeepsFrames DEF LoopError
    <3> QED
      BY <3>1, <3>2, <1>2
  <2>3. ASSUME NEW opens \in BOOLEAN, Load(name, safe, opens)
        PROVE  RequireInv'
    <3> DEFINE found == Search([handle |-> handle, udata |-> udata], name, opens)
    <3>1. /\ ~IsTrue(loaded[name]) /\ Running
          /\ handle' = found.s.handle /\ udata' = found.s.udata
          /\ UNCHANGED <<preload, globals, closing>>
          /\ IF found.stat = "found" THEN RunChunk(name, safe)
             ELSE /\ IF safe THEN UNCHANGED <<stack, failed>> ELSE Raise(stack)
                  /\ UNCHANGED loaded
      BY <1>3, <2>3 DEF Load, ll_require
    <3>2. GoodLibs(found.s)
      BY <1>1, <3>1, RunningLibs, SearchKeepsLibs
    <3> HIDE DEF found
    <3>3. LibsPart'
      <4>1. closing' = FALSE
        BY <1>1, <3>1 DEF LibsPart, Running
      <4> QED
        BY <3>1, <3>2, <4>1, NewLibs
    <3>4. CASE found.stat = "found"
      <4>1. RunChunk(name, safe)
        BY <3>1, <3>4
      <4>2. FramesInv'
        BY <1>1, <3>1, <4>1, RunChunkKeepsFrames
      <4>3. loaded' \in [Names -> Values]
            /\ \A n \in Names : loaded'[n] = "table" => loaded[n] = "table"
        BY <1>1, <4>1 DEF RunChunk, Values
      <4>4. GlobalsInv'
        BY <1>1, <3>1, <4>3, TablesStay DEF GlobalsInv
      <4> QED
        BY <1>2, <3>3, <4>2, <4>4
    <3>5. CASE found.stat # "found"
      <4>1. FramesInv'
        BY <1>1, <3>1, <3>5, SameFrames, RaiseKeepsFrames
      <4>2. GlobalsInv'
        BY <1>1, <3>1, <3>5, SameGlobals
      <4> QED
        BY <1>2, <3>3, <4>1, <4>2
    <3> QED
      BY <3>4, <3>5
  <2> QED
    BY <1>3, <2>1, <2>2, <2>3 DEF ll_require
<1>4. ASSUME NEW name \in Names, ll_module(name)
      PROVE  RequireInv'
  <2>1. LibsPart'
    BY <1>1, <1>4, SameLibs DEF ll_module
  <2>2. CASE loaded[name] = "table"
    BY <1>1, <1>2, <1>4, <2>1, <2>2, SameFrames, SameGlobals DEF ll_module
  <2>3. CASE loaded[name] # "table" /\ Conflict(name)
    <3>1. globals' = luaL_findtable(name) /\ Raise(stack) /\ loaded' = loaded
      BY <1>4, <2>3 DEF ll_module
    <3>2. GlobalsInv'
      BY <1>1, <3>1, FindtableMakesTables, TablesStay DEF GlobalsInv
    <3> QED
      BY <1>1, <1>2, <2>1, <3>1, <3>2, RaiseKeepsFrames
  <2>4. CASE loaded[name] # "table" /\ ~Conflict(name)
    <3>1. /\ globals' = luaL_findtable(name)
          /\ loaded' = [loaded EXCEPT ![name] = "table"]
          /\ UNCHANGED <<stack, failed>>
      BY <1>4, <2>4 DEF ll_module
    <3>2. /\ globals' \in [Names -> {"nil", "other", "table"}]
          /\ \A p \in Names : globals[p] = "table" => globals'[p] = "table"
          /\ \A p \in Parts(name) : globals'[p] = "table"
      BY <1>1, <2>4, <3>1, FindtableMakesTables DEF GlobalsInv
    <3>3. loaded' \in [Names -> Values]
      BY <1>1, <3>1 DEF Values
    <3>4. ASSUME NEW n \in Names, loaded'[n] = "table", NEW p \in Parts(n)
          PROVE  globals'[p] = "table"
      <4>1. CASE n = name
        BY <4>1, <3>2, <3>4
      <4>2. CASE n # name
        <5>1. loaded[n] = "table"
          BY <4>2, <1>1, <3>1, <3>4
        <5> QED
          BY <5>1, <1>1, <3>2, <3>4, PartsOfParts DEF GlobalsInv, ModulesAreGlobal
      <4> QED
        BY <4>1, <4>2
    <3>5. GlobalsInv'
      BY <3>2, <3>3, <3>4 DEF GlobalsInv, ModulesAreGlobal, Parts
    <3>6. FramesInv'
      BY <1>1, <3>1, TableKeepsFrames
    <3> QED
      BY <1>2, <2>1, <3>5, <3>6
  <2> QED
    BY <2>2, <2>3, <2>4
<1>5. ASSUME NEW name \in Names, Clear(name)
      PROVE  RequireInv'
  <2>1. LibsPart'
    BY <1>1, <1>5, SameLibs DEF Clear
  <2>2. /\ globals' = globals
        /\ loaded' \in [Names -> Values]
        /\ \A n \in Names : loaded'[n] = IF n = name THEN "nil" ELSE loaded[n]
    BY <1>1, <1>5 DEF Clear, Values
  <2>3. GlobalsInv'
    BY <1>1, <2>2, TablesStay DEF GlobalsInv
  <2>4. FramesInv'
    BY <1>1, <1>5, ClearKeepsFrames
  <2> QED
    BY <1>2, <2>1, <2>3, <2>4
<1>6. ASSUME NEW name \in Names, Preload(name)
      PROVE  RequireInv'
  BY <1>1, <1>2, <1>6, SameFrames, SameGlobals, SameLibs DEF Preload
<1>7. ASSUME NEW name \in Names, SetGlobal(name)
      PROVE  RequireInv'
  <2>1. /\ globals' \in [Names -> {"nil", "other", "table"}]
        /\ \A p \in Names : globals[p] = "table" => globals'[p] = "table"
    BY <1>1, <1>7 DEF SetGlobal, GlobalsInv
  <2>2. GlobalsInv'
    BY <1>1, <1>7, <2>1, TablesStay DEF SetGlobal
  <2> QED
    BY <1>1, <1>2, <1>7, <2>2, SameFrames, SameLibs DEF SetGlobal
<1>8. ASSUME NEW v \in {"nil", "false", "value"}, Return(v)
      PROVE  RequireInv'
  <2>1. GlobalsInv'
    BY <1>1, <1>8, ReturnKeepsFrames, TablesStay DEF Return, GlobalsInv
  <2> QED
    BY <1>1, <1>2, <1>8, <2>1, ReturnKeepsFrames, SameLibs DEF Return
<1>9. CASE ChunkFails
  BY <1>1, <1>2, <1>9, RaiseKeepsFrames, SameGlobals, SameLibs DEF ChunkFails
<1>10. ASSUME NEW p \in Libraries, NewObject(p)
       PROVE  RequireInv'
  <2>1. closing = FALSE /\ closing' = FALSE /\ handle' = handle /\ handle[p] = "open"
        /\ udata' = Append(udata, ObjectOf(p))
        /\ handle \in [Libraries -> Statuses] /\ udata \in Seq(Userdata)
        /\ LibsInv(handle, udata, FALSE)
    BY <1>1, <1>10 DEF NewObject, LibsPart, Running
  <2> DEFINE u == Append(udata, ObjectOf(p))
  <2>2. u \in Seq(Userdata) /\ LibsInv(handle, u, FALSE)
    BY ONLY <2>1, p \in Libraries, AppendKeepsLibs
  <2>3. GoodLibs([handle |-> handle, udata |-> u])
    BY <2>1, <2>2, GoodParts
  <2>4. LibsPart'
    BY <2>1, <2>3, NewLibs
  <2> QED
    BY <1>1, <1>2, <1>10, <2>4, SameFrames, SameGlobals DEF NewObject
<1>11. ASSUME NEW p \in Libraries, NEW name \in Names, ll_loadlib(p, name)
       PROVE  RequireInv'
  <2>1. PICK opens \in BOOLEAN :
          LET r == ll_loadfunc([handle |-> handle, udata |-> udata], p, name, opens)
          IN  handle' = r.s.handle /\ udata' = r.s.udata
    BY <1>11 DEF ll_loadlib
  <2>2. Running /\ closing' = closing
    BY <1>11 DEF ll_loadlib
  <2>3. GoodLibs(ll_loadfunc([handle |-> handle, udata |-> udata], p, name, opens).s)
    BY <1>1, <2>2, RunningLibs, LoadfuncKeepsLibs
  <2>4. closing' = FALSE
    BY <1>1, <2>2 DEF LibsPart, Running
  <2>5. LibsPart'
    BY <2>1, <2>3, <2>4, NewLibs
  <2> QED
    BY <1>1, <1>2, <1>11, <2>5, SameFrames, SameGlobals DEF ll_loadlib
<1>12. CASE CollectObject
  <2>1. closing = FALSE /\ closing' = FALSE /\ handle' = handle
        /\ handle \in [Libraries -> Statuses] /\ udata \in Seq(Userdata)
        /\ LibsInv(handle, udata, FALSE)
    BY <1>1, <1>12 DEF CollectObject, LibsPart, Running
  <2>2. PICK i \in 1..Len(udata) : udata[i].k = "object" /\ udata' = RemoveAt(udata, i)
    BY <1>12 DEF CollectObject
  <2>3. RemoveAt(udata, i) \in Seq(Userdata) /\ LibsInv(handle, RemoveAt(udata, i), FALSE)
    BY <2>1, <2>2, CollectKeepsLibs
  <2>4. GoodLibs([handle |-> handle, udata |-> RemoveAt(udata, i)])
    BY <2>1, <2>3, GoodParts
  <2>5. LibsPart'
    BY <2>1, <2>2, <2>4, NewLibs
  <2> QED
    BY <1>1, <1>2, <1>12, <2>5, SameFrames, SameGlobals DEF CollectObject
<1>13. CASE lua_close
  <2>1. LibsPart'
    BY <1>1, <1>13 DEF lua_close, LibsPart, LibsInv, Lib
  <2> QED
    BY <1>1, <1>2, <1>13, <2>1, SameFrames, SameGlobals DEF lua_close
<1>14. CASE Finalize
  <2>1. /\ closing = TRUE /\ closing' = closing /\ udata # <<>>
        /\ handle \in [Libraries -> Statuses] /\ udata \in Seq(Userdata)
        /\ LibsInv(handle, udata, TRUE)
    BY <1>1, <1>14 DEF Finalize, LibsPart
  <2>2. /\ udata' = RemoveAt(udata, Len(udata))
        /\ handle' = IF udata[Len(udata)].k = "library"
                     THEN [handle EXCEPT ![udata[Len(udata)].lib] = "NULL"] ELSE handle
    BY <1>14 DEF Finalize, FinalizedAt
  <2>3. /\ RemoveAt(udata, Len(udata)) \in Seq(Userdata)
        /\ handle' \in [Libraries -> Statuses]
        /\ LibsInv(handle', RemoveAt(udata, Len(udata)), TRUE)
    BY <2>1, <2>2, FinalizeKeepsLibs
  <2>4. LibsInv(handle', udata', closing')
    BY <2>1, <2>2, <2>3
  <2>5. LibsPart'
    BY <2>1, <2>2, <2>3, <2>4 DEF LibsPart, LibsInv, Lib
  <2> QED
    BY <1>1, <1>2, <1>14, <2>5, SameFrames, SameGlobals DEF Finalize
<1>15. CASE UNCHANGED vars
  BY <1>1, <1>2, <1>15, SameFrames, SameGlobals, SameLibs DEF vars
<1> QED
  BY <1>3, <1>4, <1>5, <1>6, <1>7, <1>8, <1>9, <1>10, <1>11, <1>12, <1>13, <1>14, <1>15 DEF Next

-----------------------------------------------------------------------------
(* The invariant holds throughout. *)
LEMMA RequireInvAlways == Spec => []RequireInv
BY RequireInvInit, RequireInvNext, PTL DEF Spec

(* A library that was registered has one userdata in the registry, until lua_close. *)
LEMMA OneUserdata == RequireInv => TypeOK
<1> SUFFICES ASSUME RequireInv PROVE TypeOK
  OBVIOUS
<1>1. ASSUME NEW q \in Libraries, handle[q] # "unregistered", ~closing
      PROVE  Cardinality({i \in 1..Len(udata) : udata[i] = Lib(q)}) = 1
  <2>1. PICK i \in 1..Len(udata) : udata[i] = Lib(q)
    BY <1>1 DEF RequireInv, LibsInv
  <2>2. ASSUME NEW j \in 1..Len(udata), udata[j] = Lib(q) PROVE j = i
    <3>1. udata[j].k = "library"
      BY <2>2 DEF Lib
    <3> QED
      BY <3>1, <2>1, <2>2 DEF RequireInv, LibsInv
  <2>3. {j \in 1..Len(udata) : udata[j] = Lib(q)} = {i}
    BY <2>1, <2>2
  <2> QED
    BY <2>3, FS_Singleton
<1>2. Len(stack) <= MaxDepth
  BY DEF RequireInv, FramesInv
<1>3. /\ loaded \in [Names -> {"nil", "false", "sentinel", "true", "value", "table"}]
      /\ globals \in [Names -> {"nil", "other", "table"}]
      /\ handle \in [Libraries -> {"unregistered", "NULL", "open"}]
  BY DEF RequireInv, GlobalsInv, Values, Statuses
<1> QED
  BY <1>1, <1>2, <1>3 DEF TypeOK

(* However modules require each other, fail, are made by module or luaL_register and are
   cleared, and whatever is finalized first: a sentinel means a chunk that runs or failed,
   no chunk runs inside itself but one whose module was cleared since it began, a module is
   the global of its name, and no object outlives the library of its finalizer. *)
THEOREM ModulesAlwaysSound == Spec => []ModulesSound
<1>1. RequireInv => ModulesSound
  BY OneUserdata
     DEF RequireInv, FramesInv, GlobalsInv, LibsInv, ModulesSound, LibrariesOutliveObjects
<1> QED
  BY RequireInvAlways, <1>1, PTL

(* What a step may do to the value of a loaded module. *)
KeepsLoaded ==
    \A name \in Names :
        loaded[name] \in {"true", "value"} /\ loaded'[name] # loaded[name] =>
            \/ Clear(name) \/ loaded'[name] = "table"
            \/ stack # <<>> /\ Chunk = name /\ stack[Len(stack)].cleared

(* Only Clear and module change the value of a module that is loaded, and the return of a
   chunk that was cleared. *)
LEMMA StepKeepsLoaded == RequireInv /\ [Next]_vars => KeepsLoaded
<1> SUFFICES ASSUME RequireInv, [Next]_vars, NEW n \in Names,
                    loaded[n] \in {"true", "value"}, loaded'[n] # loaded[n]
             PROVE  \/ Clear(n) \/ loaded'[n] = "table"
                    \/ stack # <<>> /\ Chunk = n /\ stack[Len(stack)].cleared
  BY DEF KeepsLoaded
<1>1. loaded \in [Names -> Values] /\ FramesInv
  BY DEF RequireInv, GlobalsInv
<1>2. ASSUME NEW name \in Names, NEW safe \in BOOLEAN, ll_require(name, safe)
      PROVE  FALSE
  <2>1. CASE Returns(name)
    BY <2>1 DEF Returns, vars
  <2>2. CASE LoopError(name, safe)
    BY <2>2 DEF LoopError
  <2>3. ASSUME NEW opens \in BOOLEAN, Load(name, safe, opens)
        PROVE  FALSE
    <3>1. ~IsTrue(loaded[name]) /\ (RunChunk(name, safe) \/ UNCHANGED loaded)
      BY <2>3 DEF Load
    <3>2. loaded' = loaded \/ loaded' = [loaded EXCEPT ![name] = "sentinel"]
      BY <3>1 DEF RunChunk
    <3> QED
      BY <3>1, <3>2, <1>1 DEF IsTrue
  <2> QED
    BY <1>2, <2>1, <2>2, <2>3 DEF ll_require
<1>3. ASSUME NEW name \in Names, ll_module(name)
      PROVE  loaded'[n] = "table"
  <2>1. loaded' = loaded \/ loaded' = [loaded EXCEPT ![name] = "table"]
    BY <1>3 DEF ll_module
  <2> QED
    BY <2>1, <1>1
<1>4. ASSUME NEW name \in Names, Clear(name)
      PROVE  Clear(n)
  <2>1. n = name
    BY <1>1, <1>4 DEF Clear
  <2> QED
    BY <2>1, <1>4
<1>5. ASSUME NEW v \in {"nil", "false", "value"}, Return(v)
      PROVE  stack # <<>> /\ Chunk = n /\ stack[Len(stack)].cleared
  <2>1. \A m \in Names : loaded'[m] # loaded[m] =>
            \/ loaded[m] \in {"sentinel", "table"}
            \/ stack # <<>> /\ Chunk = m /\ stack[Len(stack)].cleared
    BY <1>1, <1>5, ReturnKeepsFrames
  <2> QED
    BY <2>1
<1>6. UNCHANGED loaded => FALSE
  OBVIOUS
<1> QED
  BY <1>2, <1>3, <1>4, <1>5, <1>6
     DEF Next, Preload, SetGlobal, ChunkFails, NewObject, ll_loadlib, CollectObject,
         lua_close, Finalize, vars

(* A module that is loaded is not loaded again, nor is its value lost, unless a script
   clears it or calls module with its name, or a chunk of it returns that began before it
   was cleared. *)
THEOREM LoadedOnceAlways == Spec => LoadedOnce
<1>1. RequireInv /\ [Next]_vars => [KeepsLoaded]_vars
  BY StepKeepsLoaded
<1> QED
  BY RequireInvAlways, <1>1, PTL DEF Spec, LoadedOnce, KeepsLoaded
=============================================================================
