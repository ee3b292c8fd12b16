-------------------------- MODULE LuaBridgeProofs --------------------------
(***************************************************************************)
(* Proofs about LuaBridge's registration, for any set of classes, members  *)
(* and namespaces and any number of registrations.                         *)
(***************************************************************************)
EXTENDS LuaBridge, FiniteSetTheorems, SequenceTheorems, WellFoundedInduction, TLAPS

-----------------------------------------------------------------------------
(* Numbers *)

(* The numbers are well-founded. *)
LEMMA LessIsWellFounded == IsWellFoundedOn({ss \in Nat \X Nat : ss[1] < ss[2]}, Nat)
BY NatLessThanWellFounded DEF OpToRel

(* A set of numbers has a first one. *)
LEMMA HasFirst ==
    ASSUME NEW S, S \subseteq Nat, S # {}
    PROVE  \E i \in S : \A j \in S : i <= j
<1> DEFINE R == {ss \in Nat \X Nat : ss[1] < ss[2]}
<1>1. IsWellFoundedOn(R, Nat)
  BY LessIsWellFounded
<1>2. PICK i0 \in S : TRUE
  OBVIOUS
<1> HIDE DEF R
<1>3. PICK x \in S : \A y \in S : ~(<<y, x>> \in R)
  BY <1>1, <1>2, WFMin
<1>4. \A y \in S : ~(y < x)
  BY <1>3 DEF R
<1> QED
  BY <1>4

(* A set of positions has a last one. *)
LEMMA HasLast ==
    ASSUME NEW n \in Nat, NEW S, S \subseteq 1..n, S # {}
    PROVE  \E i \in S : \A j \in S : j <= i
<1> DEFINE T == {n - i : i \in S}
<1>1. T \subseteq Nat /\ T # {}
  <2>1. PICK i0 \in S : TRUE
    OBVIOUS
  <2>2. n - i0 \in T
    OBVIOUS
  <2> QED
    BY <2>2
<1> HIDE DEF T
<1>2. PICK x \in T : \A y \in T : x <= y
  BY <1>1, HasFirst
<1>3. PICK i \in S : x = n - i
  BY DEF T
<1>4. ASSUME NEW j \in S PROVE j <= i
  <2>1. n - j \in T
    BY DEF T
  <2> QED
    BY <1>2, <1>3, <2>1
<1> QED
  BY <1>4

-----------------------------------------------------------------------------
(* Tables *)

(* Every reference is to a table that exists. *)
IsRef(v, n) == v.k = "table" => v.id \in 1..n

IsTable(t, n) == {"mt", "f"} \subseteq DOMAIN t /\ \A x \in DOMAIN t.f : IsRef(t.f[x], n)

IsHeap(h) ==
    /\ \E S : h \in Seq(S)
    /\ \A t \in 1..Len(h) : IsTable(h[t], Len(h))

(* g is h with field f of table t set to v. *)
Sets(h, g, t, f, v) ==
    /\ IsHeap(g) /\ Len(g) = Len(h)
    /\ \A u \in 1..Len(h) : g[u].mt = h[u].mt
    /\ \A u \in 1..Len(h) : \A x :
        rawgetfield(g, u, x) = IF u = t /\ x = f THEN v ELSE rawgetfield(h, u, x)

LEMMA SetField ==
    ASSUME NEW h, IsHeap(h), NEW t \in 1..Len(h), NEW f, NEW v, v # nil, IsRef(v, Len(h)),
           NEW g, g = rawsetfield(h, t, f, v)
    PROVE  Sets(h, g, t, f, v)
<1>1. PICK S : h \in Seq(S)
  BY DEF IsHeap
<1>2. Len(h) \in Nat /\ DOMAIN h = 1..Len(h)
  BY <1>1
<1>3. PICK X : X = [x \in DOMAIN h[t].f \cup {f} |-> IF x = f THEN v ELSE h[t].f[x]]
  OBVIOUS
<1>4. PICK a : a = [h[t] EXCEPT !.f = X]
  OBVIOUS
<1>5. g = [h EXCEPT ![t] = a]
  <2>1. g = [h EXCEPT ![t].f = X]
    BY <1>2, <1>3, Zenon DEF rawsetfield
  <2> QED
    BY ONLY <1>4, <2>1, Zenon
<1>6. \A u \in 1..Len(h) : IsTable(h[u], Len(h))
  BY DEF IsHeap
<1>7. a.f = X /\ a.mt = h[t].mt /\ {"mt", "f"} \subseteq DOMAIN a
  <2>1. {"mt", "f"} \subseteq DOMAIN h[t]
    BY <1>6 DEF IsTable
  <2> QED
    BY ONLY <1>4, <2>1
<1>8. IsTable(a, Len(h))
  <2>1. \A x \in DOMAIN X : IsRef(X[x], Len(h))
    BY <1>3, <1>6 DEF IsTable
  <2> QED
    BY <1>7, <2>1 DEF IsTable
<1>9. g \in Seq(S \cup {a}) /\ Len(g) = Len(h)
      /\ \A u \in 1..Len(h) : g[u] = IF u = t THEN a ELSE h[u]
  <2> DEFINE R == S \cup {a}
  <2>1. h \in Seq(R)
    BY <1>1, SeqMonotonic
  <2>2. a \in R
    OBVIOUS
  <2> HIDE DEF R
  <2>3. g \in Seq(R) /\ Len(g) = Len(h) /\ \A u \in 1..Len(h) : g[u] = IF u = t THEN a ELSE h[u]
    BY ONLY <1>5, <2>1, <2>2, t \in 1..Len(h), ExceptSeq
  <2> QED
    BY <2>3 DEF R
<1>10. IsHeap(g)
  <2>1. \A u \in 1..Len(h) : IsTable(g[u], Len(g))
    BY <1>6, <1>8, <1>9
  <2> QED
    BY <1>9, <2>1 DEF IsHeap
<1>11. \A u \in 1..Len(h) : g[u].mt = h[u].mt
  BY <1>7, <1>9
<1>12. ASSUME NEW u \in 1..Len(h), NEW x
       PROVE  rawgetfield(g, u, x) = IF u = t /\ x = f THEN v ELSE rawgetfield(h, u, x)
  <2>1. CASE u # t
    BY <1>9, <2>1 DEF rawgetfield
  <2>2. CASE u = t
    <3>1. g[u].f = X /\ h[u] = h[t]
      BY <1>7, <1>9, <2>2
    <3>2. DOMAIN X = DOMAIN h[t].f \cup {f} /\ \A y \in DOMAIN X : X[y] = IF y = f THEN v ELSE h[t].f[y]
      BY ONLY <1>3
    <3> QED
      BY ONLY <2>2, <3>1, <3>2 DEF rawgetfield
  <2> QED
    BY <2>1, <2>2
<1> QED
  BY <1>9, <1>10, <1>11, <1>12 DEF Sets

(* g is h and the tables b. *)
Grows(h, g, b) ==
    /\ IsHeap(g) /\ Len(g) = Len(h) + Len(b)
    /\ \A u \in 1..Len(h) : g[u] = h[u]
    /\ \A i \in 1..Len(b) : g[Len(h) + i] = b[i]

LEMMA MoreTables ==
    ASSUME NEW h, IsHeap(h), NEW R, NEW b \in Seq(R), NEW g, g = h \o b,
           \A i \in 1..Len(b) : IsTable(b[i], Len(h) + Len(b))
    PROVE  Grows(h, g, b)
<1>1. PICK S0 : h \in Seq(S0)
  BY DEF IsHeap
<1> DEFINE S == S0 \cup R
<1>2. h \in Seq(S) /\ b \in Seq(S)
  BY <1>1, SeqMonotonic
<1> HIDE DEF S
<1>3. /\ g \in Seq(S)
      /\ Len(g) = Len(h) + Len(b)
      /\ \A i \in 1..(Len(h) + Len(b)) : g[i] = IF i <= Len(h) THEN h[i] ELSE b[i - Len(h)]
  BY <1>2, ConcatProperties
<1>4. Len(h) \in Nat /\ Len(b) \in Nat
  BY <1>1, LenProperties
<1>5. \A u \in 1..Len(h) : g[u] = h[u]
  BY <1>3, <1>4
<1>6. \A i \in 1..Len(b) : g[Len(h) + i] = b[i]
  BY <1>3, <1>4
<1>7. \A u \in 1..Len(g) : IsTable(g[u], Len(g))
  <2>1. SUFFICES ASSUME NEW u \in 1..Len(g) PROVE IsTable(g[u], Len(g))
    OBVIOUS
  <2>2. CASE u <= Len(h)
    <3>1. IsTable(h[u], Len(h)) /\ g[u] = h[u]
      BY <1>4, <1>5, <2>2 DEF IsHeap
    <3> QED
      BY <1>3, <1>4, <3>1 DEF IsTable, IsRef
  <2>3. CASE u > Len(h)
    <3>1. u - Len(h) \in 1..Len(b) /\ g[u] = b[u - Len(h)]
      BY <1>3, <1>4, <2>3
    <3> QED
      BY <1>3, <3>1
  <2> QED
    BY <1>4, <1>3, <2>2, <2>3
<1> QED
  BY <1>3, <1>5, <1>6, <1>7 DEF Grows, IsHeap

Blank(g, u) == \A x : rawgetfield(g, u, x) = nil

True == [k |-> "true"]

(* Table u of g was made with the fields f. *)
LEMMA NewFields ==
    ASSUME NEW g, NEW u, NEW m, NEW f, g[u] = [mt |-> m, f |-> f]
    PROVE  g[u].mt = m /\ \A x : rawgetfield(g, u, x) = IF x \in DOMAIN f THEN f[x] ELSE nil
BY DEF rawgetfield

LEMMA NewTableIsBlank ==
    ASSUME NEW g, NEW u, g[u] = NewTable
    PROVE  Blank(g, u)
BY DEF NewTable, Blank, rawgetfield

LEMMA NewTableIsTable ==
    ASSUME NEW n, NEW m
    PROVE  IsTable(NewTable, n) /\ IsTable([mt |-> m, f |-> <<>>], n)
BY DEF NewTable, IsTable

LEMMA References ==
    ASSUME NEW i, NEW n, i \in 1..n
    PROVE  Table(i) # nil /\ Table(i).k = "table" /\ Table(i).id = i /\ IsRef(Table(i), n)
BY DEF Table, nil, IsRef

LEMMA Values ==
    /\ nil.k # "table" /\ True # nil /\ True.k # "table" /\ Error # nil
    /\ \A n : IsRef(True, n) /\ IsRef(nil, n)
BY DEF True, nil, Error, IsRef

(* What was at the tables of h is there still. *)
Kept(h, g) ==
    \A u \in 1..Len(h) : g[u].mt = h[u].mt /\ \A x : rawgetfield(g, u, x) = rawgetfield(h, u, x)

LEMMA GrowsKeeps ==
    ASSUME NEW h, NEW g, NEW b, Grows(h, g, b)
    PROVE  Kept(h, g)
BY DEF Grows, Kept, rawgetfield

ConstFields(g, c) ==
    \A x : rawgetfield(g, c, x) = CASE x = "identity" -> True
                                    [] x = "__propget" -> Table(c + 1)
                                    [] OTHER -> nil

LEMMA ConstTableMade ==
    ASSUME NEW h, IsHeap(h), NEW c, c = Len(h) + 1, NEW g, g = createConstTable(h)
    PROVE  /\ IsHeap(g) /\ Len(g) = Len(h) + 2 /\ Kept(h, g)
           /\ ConstFields(g, c) /\ Blank(g, c + 1)
<1>0. Len(h) \in Nat
  BY DEF IsHeap
<1>1. PICK f : f = [identity |-> True, __propget |-> Table(c + 1)]
  OBVIOUS
<1>2. PICK b : b = <<[mt |-> c, f |-> f], NewTable>>
  OBVIOUS
<1>3. g = h \o b
  BY <1>1, <1>2 DEF createConstTable, True
<1>4. b \in Seq({b[1], b[2]}) /\ Len(b) = 2 /\ b[1] = [mt |-> c, f |-> f] /\ b[2] = NewTable
  BY ONLY <1>2
<1>5. DOMAIN f = {"identity", "__propget"} /\ f["identity"] = True /\ f["__propget"] = Table(c + 1)
  BY ONLY <1>1
<1>6. IsTable(b[1], Len(h) + Len(b))
  <2>1. IsRef(True, Len(h) + Len(b)) /\ IsRef(Table(c + 1), Len(h) + Len(b))
    BY <1>0, <1>4, Values, References
  <2> QED
    BY <1>4, <1>5, <2>1 DEF IsTable
<1>7. IsTable(b[2], Len(h) + Len(b))
  BY <1>4, NewTableIsTable
<1>8. \A i \in 1..Len(b) : IsTable(b[i], Len(h) + Len(b))
  BY <1>4, <1>6, <1>7
<1>9. Grows(h, g, b)
  BY <1>3, <1>4, <1>8, MoreTables
<1>10. g[c] = b[1] /\ g[c + 1] = b[2]
  BY <1>0, <1>4, <1>9 DEF Grows
<1>11. ConstFields(g, c)
  <2>1. \A x : rawgetfield(g, c, x) = IF x \in DOMAIN f THEN f[x] ELSE nil
    BY <1>4, <1>10, NewFields
  <2> QED
    BY <1>5, <2>1 DEF ConstFields
<1>12. Blank(g, c + 1)
  BY <1>4, <1>10, NewTableIsBlank
<1>13. Kept(h, g)
  BY <1>9, GrowsKeeps
<1> QED
  BY <1>4, <1>9, <1>11, <1>12, <1>13 DEF Grows

ClassFields(g, t, const) ==
    \A x : rawgetfield(g, t, x) = CASE x = "identity" -> True
                                    [] x = "__propget" -> Table(t + 1)
                                    [] x = "__propset" -> Table(t + 2)
                                    [] x = "__const" -> Table(const)
                                    [] OTHER -> nil

LEMMA ClassTableMade ==
    ASSUME NEW h, IsHeap(h), NEW t, t = Len(h) + 1, NEW const \in 1..Len(h),
           NEW g, g = createClassTable(h, const)
    PROVE  /\ IsHeap(g) /\ Len(g) = Len(h) + 3
           /\ \A u \in 1..Len(h) : g[u].mt = h[u].mt
           /\ \A u \in 1..Len(h) : \A x :
                rawgetfield(g, u, x) = IF u = const /\ x = "__class" THEN Table(t) ELSE rawgetfield(h, u, x)
           /\ ClassFields(g, t, const) /\ Blank(g, t + 1) /\ Blank(g, t + 2)
<1>0. Len(h) \in Nat
  BY DEF IsHeap
<1>1. PICK f : f = [identity |-> True, __propget |-> Table(t + 1),
                    __propset |-> Table(t + 2), __const |-> Table(const)]
  OBVIOUS
<1>2. PICK b : b = <<[mt |-> t, f |-> f], NewTable, NewTable>>
  OBVIOUS
<1>3. PICK k : k = h \o b
  OBVIOUS
<1>3a. g = rawsetfield(k, const, "__class", Table(t))
  BY <1>1, <1>2, <1>3 DEF createClassTable, True
<1>4. /\ b \in Seq({b[1], b[2]}) /\ Len(b) = 3
      /\ b[1] = [mt |-> t, f |-> f] /\ b[2] = NewTable /\ b[3] = NewTable
  BY ONLY <1>2
<1>5. DOMAIN f = {"identity", "__propget", "__propset", "__const"} /\ f["identity"] = True
      /\ f["__propget"] = Table(t + 1) /\ f["__propset"] = Table(t + 2) /\ f["__const"] = Table(const)
  BY ONLY <1>1
<1>6. IsTable(b[1], Len(h) + Len(b))
  <2>1. IsRef(True, Len(h) + Len(b)) /\ IsRef(Table(t + 1), Len(h) + Len(b))
        /\ IsRef(Table(t + 2), Len(h) + Len(b)) /\ IsRef(Table(const), Len(h) + Len(b))
    BY <1>0, <1>4, Values, References
  <2> QED
    BY <1>4, <1>5, <2>1 DEF IsTable
<1>7. IsTable(NewTable, Len(h) + Len(b))
  BY NewTableIsTable
<1>8. \A i \in 1..Len(b) : IsTable(b[i], Len(h) + Len(b))
  BY <1>4, <1>6, <1>7
<1>9. Grows(h, k, b)
  BY <1>3, <1>4, <1>8, MoreTables
<1>10. k[t] = b[1] /\ k[t + 1] = b[2] /\ k[t + 2] = b[3]
  BY <1>0, <1>4, <1>9 DEF Grows
<1>11. ClassFields(k, t, const)
  <2>1. \A x : rawgetfield(k, t, x) = IF x \in DOMAIN f THEN f[x] ELSE nil
    BY <1>4, <1>10, NewFields
  <2> QED
    BY <1>5, <2>1 DEF ClassFields
<1>12. Blank(k, t + 1) /\ Blank(k, t + 2)
  BY <1>4, <1>10, NewTableIsBlank
<1>13a. Kept(h, k)
  BY <1>9, GrowsKeeps
<1>13. IsHeap(k) /\ Len(k) = Len(h) + 3 /\ Kept(h, k)
  BY <1>4, <1>9, <1>13a DEF Grows
<1>14. Sets(k, g, const, "__class", Table(t))
  <2>1. const \in 1..Len(k) /\ Table(t) # nil /\ IsRef(Table(t), Len(k))
    BY <1>0, <1>13, References
  <2> QED
    BY <1>3a, <1>13, <2>1, SetField
<1>15. t \in 1..Len(k) /\ t + 1 \in 1..Len(k) /\ t + 2 \in 1..Len(k) /\ \A u \in 1..Len(h) : u \in 1..Len(k)
       /\ t # const /\ t + 1 # const /\ t + 2 # const
  BY <1>0, <1>13
<1>16. \A u \in 1..Len(h) : g[u].mt = h[u].mt
  BY <1>13, <1>14, <1>15 DEF Sets, Kept
<1>17. ASSUME NEW u \in 1..Len(h), NEW x
       PROVE  rawgetfield(g, u, x) = IF u = const /\ x = "__class" THEN Table(t) ELSE rawgetfield(h, u, x)
  BY <1>13, <1>14, <1>15 DEF Sets, Kept
<1>18. ClassFields(g, t, const)
  <2>1. \A x : rawgetfield(g, t, x) = rawgetfield(k, t, x)
    BY <1>14, <1>15 DEF Sets
  <2> QED
    BY <1>11, <2>1 DEF ClassFields
<1>19. Blank(g, t + 1) /\ Blank(g, t + 2)
  BY <1>12, <1>14, <1>15 DEF Sets, Blank
<1> QED
  BY <1>13, <1>14, <1>16, <1>17, <1>18, <1>19 DEF Sets

StaticFields(g, t, class) ==
    \A x : rawgetfield(g, t, x) = CASE x = "__propget" -> Table(t + 1)
                                    [] x = "__propset" -> Table(t + 2)
                                    [] x = "__class" -> Table(class)
                                    [] OTHER -> nil

StaticMade(h, g, t, ns, name, class) ==
    /\ IsHeap(g) /\ Len(g) = Len(h) + 4
    /\ \A u \in 1..Len(h) : g[u].mt = h[u].mt
    /\ \A u \in 1..Len(h) : \A x :
        rawgetfield(g, u, x) = IF u = ns /\ x = name THEN Table(t) ELSE rawgetfield(h, u, x)
    /\ g[t].mt = t + 1 /\ Blank(g, t)
    /\ StaticFields(g, t + 1, class) /\ Blank(g, t + 2) /\ Blank(g, t + 3)

LEMMA StaticTableMade ==
    ASSUME NEW h, IsHeap(h), NEW t, t = Len(h) + 1, NEW ns \in 1..Len(h), NEW name, NEW class \in 1..Len(h),
           NEW g, g = createStaticTable(h, ns, name, class)
    PROVE  StaticMade(h, g, t, ns, name, class)
<1>0. Len(h) \in Nat
  BY DEF IsHeap
<1>1. PICK f : f = [__propget |-> Table(t + 2), __propset |-> Table(t + 3), __class |-> Table(class)]
  OBVIOUS
<1>2. PICK b : b = <<[mt |-> t + 1, f |-> <<>>], [mt |-> 0, f |-> f], NewTable, NewTable>>
  OBVIOUS
<1>3. PICK k : k = h \o b
  OBVIOUS
<1>3a. g = rawsetfield(k, ns, name, Table(t))
  BY <1>1, <1>2, <1>3 DEF createStaticTable
<1>4. /\ b \in Seq({b[1], b[2], b[3]}) /\ Len(b) = 4
      /\ b[1] = [mt |-> t + 1, f |-> <<>>] /\ b[2] = [mt |-> 0, f |-> f]
      /\ b[3] = NewTable /\ b[4] = NewTable
  BY ONLY <1>2
<1>5. DOMAIN f = {"__propget", "__propset", "__class"}
      /\ f["__propget"] = Table(t + 2) /\ f["__propset"] = Table(t + 3) /\ f["__class"] = Table(class)
  BY ONLY <1>1
<1>6. IsTable(b[2], Len(h) + Len(b))
  <2>1. IsRef(Table(t + 2), Len(h) + Len(b)) /\ IsRef(Table(t + 3), Len(h) + Len(b))
        /\ IsRef(Table(class), Len(h) + Len(b))
    BY <1>0, <1>4, References
  <2> QED
    BY <1>4, <1>5, <2>1 DEF IsTable
<1>7. IsTable(NewTable, Len(h) + Len(b)) /\ IsTable(b[1], Len(h) + Len(b))
  BY <1>4, NewTableIsTable
<1>8. \A i \in 1..Len(b) : IsTable(b[i], Len(h) + Len(b))
  <2>1. \A i \in 1..Len(b) : i \in {1, 2, 3, 4}
    BY <1>4
  <2> QED
    BY <1>4, <1>6, <1>7, <2>1
<1>9. Grows(h, k, b)
  BY <1>3, <1>4, <1>8, MoreTables
<1>10. k[t] = b[1] /\ k[t + 1] = b[2] /\ k[t + 2] = b[3] /\ k[t + 3] = b[4]
  BY <1>0, <1>4, <1>9 DEF Grows
<1>11. StaticFields(k, t + 1, class)
  <2>1. \A x : rawgetfield(k, t + 1, x) = IF x \in DOMAIN f THEN f[x] ELSE nil
    BY <1>4, <1>10, NewFields, SMTT(60)
  <2>2. t + 1 + 1 = t + 2 /\ t + 1 + 2 = t + 3
    BY <1>0
  <2> QED
    BY <1>5, <2>1, <2>2 DEF StaticFields
<1>12. Blank(k, t + 2) /\ Blank(k, t + 3) /\ Blank(k, t)
  <2>1. PICK e : e = <<>>
    OBVIOUS
  <2>2. k[t] = [mt |-> t + 1, f |-> e] /\ DOMAIN e = {}
    BY ONLY <1>4, <1>10, <2>1
  <2>3. \A x : rawgetfield(k, t, x) = IF x \in DOMAIN e THEN e[x] ELSE nil
    BY ONLY <2>2, NewFields
  <2>4. Blank(k, t)
    BY ONLY <2>2, <2>3 DEF Blank
  <2> QED
    BY <1>4, <1>10, <2>4, NewTableIsBlank
<1>13a. Kept(h, k)
  BY <1>9, GrowsKeeps
<1>13. IsHeap(k) /\ Len(k) = Len(h) + 4 /\ Kept(h, k) /\ k[t].mt = t + 1
  BY <1>4, <1>9, <1>10, <1>13a DEF Grows
<1>14. Sets(k, g, ns, name, Table(t))
  <2>1. ns \in 1..Len(k) /\ Table(t) # nil /\ IsRef(Table(t), Len(k))
    BY <1>0, <1>13, References
  <2> QED
    BY <1>3a, <1>13, <2>1, SetField
<1>15. /\ t \in 1..Len(k) /\ t + 1 \in 1..Len(k) /\ t + 2 \in 1..Len(k) /\ t + 3 \in 1..Len(k)
       /\ \A u \in 1..Len(h) : u \in 1..Len(k)
       /\ t # ns /\ t + 1 # ns /\ t + 2 # ns /\ t + 3 # ns
  BY <1>0, <1>13
<1>16. (\A u \in 1..Len(h) : g[u].mt = h[u].mt) /\ g[t].mt = t + 1
  BY <1>13, <1>14, <1>15 DEF Sets, Kept
<1>17. ASSUME NEW u \in 1..Len(h), NEW x
       PROVE  rawgetfield(g, u, x) = IF u = ns /\ x = name THEN Table(t) ELSE rawgetfield(h, u, x)
  BY <1>13, <1>14, <1>15 DEF Sets, Kept
<1>18. StaticFields(g, t + 1, class)
  <2>1. \A x : rawgetfield(g, t + 1, x) = rawgetfield(k, t + 1, x)
    BY <1>14, <1>15 DEF Sets
  <2> QED
    BY <1>11, <2>1 DEF StaticFields
<1>19. Blank(g, t + 2) /\ Blank(g, t + 3) /\ Blank(g, t)
  BY <1>12, <1>14, <1>15 DEF Sets, Blank
<1> QED
  BY <1>13, <1>14, <1>16, <1>17, <1>18, <1>19 DEF Sets, StaticMade

(* The tables of a class, at c and the places after it. *)
ClassMade(g, c) ==
    /\ \A x : rawgetfield(g, c, x) = CASE x = "identity" -> True
                                       [] x = "__propget" -> Table(c + 1)
                                       [] x = "__class" -> Table(c + 2)
                                       [] OTHER -> nil
    /\ Blank(g, c + 1)
    /\ ClassFields(g, c + 2, c) /\ Blank(g, c + 3) /\ Blank(g, c + 4)
    /\ g[c + 5].mt = c + 6 /\ Blank(g, c + 5)
    /\ StaticFields(g, c + 6, c + 2) /\ Blank(g, c + 7) /\ Blank(g, c + 8)

NewClass(h, g, ns, name) ==
    /\ IsHeap(g) /\ Len(g) = Len(h) + 9
    /\ \A u \in 1..Len(h) : g[u].mt = h[u].mt
    /\ \A u \in 1..Len(h) : \A x :
        rawgetfield(g, u, x) = IF u = ns /\ x = name THEN Table(Len(h) + 6) ELSE rawgetfield(h, u, x)
    /\ ClassMade(g, Len(h) + 1)

LEMMA TablesMade ==
    ASSUME NEW h, IsHeap(h), NEW ns \in 1..Len(h), NEW name, NEW g, g = CreateTables(h, ns, name)
    PROVE  NewClass(h, g, ns, name)
<1>0. Len(h) \in Nat
  BY DEF IsHeap
<1>1. PICK c : c = Len(h) + 1
  OBVIOUS
<1>2. PICK h1 : h1 = createConstTable(h)
  OBVIOUS
<1>3. PICK h2 : h2 = createClassTable(h1, c)
  OBVIOUS
<1>3a. c + 2 = Len(h) + 3
  BY <1>0, <1>1
<1>4. g = createStaticTable(h2, ns, name, c + 2)
  BY <1>1, <1>2, <1>3, <1>3a, Zenon DEF CreateTables, ConstAt, ClassAt
<1>5. /\ IsHeap(h1) /\ Len(h1) = Len(h) + 2 /\ Kept(h, h1)
      /\ ConstFields(h1, c) /\ Blank(h1, c + 1)
  BY <1>1, <1>2, ConstTableMade
<1>6. c \in 1..Len(h1) /\ c + 2 = Len(h1) + 1
  BY <1>0, <1>1, <1>5
<1>7. /\ IsHeap(h2) /\ Len(h2) = Len(h1) + 3
      /\ \A u \in 1..Len(h1) : h2[u].mt = h1[u].mt
      /\ \A u \in 1..Len(h1) : \A x :
            rawgetfield(h2, u, x) = IF u = c /\ x = "__class" THEN Table(c + 2) ELSE rawgetfield(h1, u, x)
      /\ ClassFields(h2, c + 2, c) /\ Blank(h2, c + 2 + 1) /\ Blank(h2, c + 2 + 2)
  BY ONLY <1>3, <1>5, <1>6, ClassTableMade
<1>8. ns \in 1..Len(h2) /\ c + 2 \in 1..Len(h2) /\ c + 5 = Len(h2) + 1
  BY <1>0, <1>1, <1>5, <1>7
<1>8a. PICK t, k : t = c + 5 /\ k = c + 2
  OBVIOUS
<1>8b. /\ IsHeap(h2) /\ t = Len(h2) + 1 /\ ns \in 1..Len(h2) /\ k \in 1..Len(h2)
       /\ g = createStaticTable(h2, ns, name, k)
  BY <1>4, <1>7, <1>8, <1>8a
<1>8c. StaticMade(h2, g, t, ns, name, k)
  BY ONLY <1>8b, StaticTableMade
<1>9. /\ IsHeap(g) /\ Len(g) = Len(h2) + 4
      /\ \A u \in 1..Len(h2) : g[u].mt = h2[u].mt
      /\ \A u \in 1..Len(h2) : \A x :
            rawgetfield(g, u, x) = IF u = ns /\ x = name THEN Table(c + 5) ELSE rawgetfield(h2, u, x)
      /\ g[c + 5].mt = c + 5 + 1 /\ Blank(g, c + 5)
      /\ StaticFields(g, c + 5 + 1, c + 2) /\ Blank(g, c + 5 + 2) /\ Blank(g, c + 5 + 3)
  BY ONLY <1>8a, <1>8c DEF StaticMade
<1>10. /\ c + 5 + 1 = c + 6 /\ c + 5 + 2 = c + 7 /\ c + 5 + 3 = c + 8 /\ c + 2 + 1 = c + 3 /\ c + 2 + 2 = c + 4
       /\ Len(h) + 6 = c + 5 /\ Len(g) = Len(h) + 9
       /\ \A u \in 1..Len(h) : u \in 1..Len(h1) /\ u \in 1..Len(h2) /\ u # c
       /\ c \in 1..Len(h2) /\ c + 1 \in 1..Len(h1) /\ c + 1 \in 1..Len(h2) /\ c + 2 \in 1..Len(h2)
       /\ c + 3 \in 1..Len(h2) /\ c + 4 \in 1..Len(h2) /\ c # c + 1
       /\ c # ns /\ c + 1 # ns /\ c + 2 # ns /\ c + 3 # ns /\ c + 4 # ns
  BY <1>0, <1>1, <1>5, <1>7, <1>9
<1>11. \A u \in 1..Len(h) : g[u].mt = h[u].mt
  BY <1>5, <1>7, <1>9, <1>10 DEF Kept
<1>12. ASSUME NEW u \in 1..Len(h), NEW x
       PROVE  rawgetfield(g, u, x) = IF u = ns /\ x = name THEN Table(c + 5) ELSE rawgetfield(h, u, x)
  <2>1. rawgetfield(h2, u, x) = rawgetfield(h1, u, x) /\ rawgetfield(h1, u, x) = rawgetfield(h, u, x)
    BY <1>5, <1>7, <1>10 DEF Kept
  <2> QED
    BY <1>9, <1>10, <2>1
<1>13. ASSUME NEW x
       PROVE  rawgetfield(g, c, x) = CASE x = "identity" -> True
                                       [] x = "__propget" -> Table(c + 1)
                                       [] x = "__class" -> Table(c + 2)
                                       [] OTHER -> nil
  <2>1. rawgetfield(g, c, x) = rawgetfield(h2, c, x)
    BY <1>9, <1>10
  <2>2. rawgetfield(h2, c, x) = IF x = "__class" THEN Table(c + 2) ELSE rawgetfield(h1, c, x)
    BY <1>6, <1>7
  <2> QED
    BY <1>5, <2>1, <2>2 DEF ConstFields
<1>14. Blank(g, c + 1)
  <2>1. PICK u : u = c + 1
    OBVIOUS
  <2>2. u \in 1..Len(h1) /\ u \in 1..Len(h2) /\ u # c /\ u # ns
    BY ONLY <1>10, <2>1
  <2>3. \A x : rawgetfield(g, u, x) = rawgetfield(h2, u, x)
    BY ONLY <1>9, <2>2
  <2>4. \A x : rawgetfield(h2, u, x) = rawgetfield(h1, u, x)
    BY ONLY <1>7, <2>2
  <2>5. \A x : rawgetfield(g, c + 1, x) = rawgetfield(h1, c + 1, x)
    BY ONLY <2>1, <2>3, <2>4
  <2> QED
    BY ONLY <1>5, <2>5 DEF Blank
<1>15. ClassFields(g, c + 2, c)
  <2>1. \A x : rawgetfield(g, c + 2, x) = rawgetfield(h2, c + 2, x)
    BY <1>9, <1>10
  <2> QED
    BY <1>7, <2>1 DEF ClassFields
<1>16. Blank(g, c + 3) /\ Blank(g, c + 4)
  <2>1. \A x : /\ rawgetfield(g, c + 3, x) = rawgetfield(h2, c + 3, x)
              /\ rawgetfield(g, c + 4, x) = rawgetfield(h2, c + 4, x)
    BY <1>9, <1>10
  <2>2. Blank(h2, c + 3) /\ Blank(h2, c + 4)
    BY <1>7, <1>10
  <2> QED
    BY ONLY <2>1, <2>2 DEF Blank
<1>17. ClassMade(g, c)
  BY <1>9, <1>10, <1>13, <1>14, <1>15, <1>16 DEF ClassMade
<1> QED
  BY <1>1, <1>9, <1>10, <1>11, <1>12, <1>17 DEF NewClass

(* g is h with the tables of p as parents of those at c. *)
Parented(h, g, c, p) ==
    /\ IsHeap(g) /\ Len(g) = Len(h)
    /\ \A u \in 1..Len(h) : g[u].mt = h[u].mt
    /\ \A u \in 1..Len(h) : \A x :
        rawgetfield(g, u, x) =
            IF x = "__parent" /\ u = c THEN Table(p.const)
            ELSE IF x = "__parent" /\ u = c + 2 THEN Table(p.class)
            ELSE IF x = "__parent" /\ u = c + 6 THEN Table(p.static)
            ELSE rawgetfield(h, u, x)

LEMMA ParentsSet ==
    ASSUME NEW h, IsHeap(h), NEW c \in 1..Len(h), c + 2 \in 1..Len(h), c + 6 \in 1..Len(h), NEW p,
           p.const \in 1..Len(h), p.class \in 1..Len(h), p.static \in 1..Len(h),
           NEW g, g = SetParents(h, c, c + 2, c + 6, p)
    PROVE  Parented(h, g, c, p)
<1>1. PICK h1 : h1 = rawsetfield(h, c, "__parent", Table(p.const))
  OBVIOUS
<1>2. PICK h2 : h2 = rawsetfield(h1, c + 2, "__parent", Table(p.class))
  OBVIOUS
<1>3. g = rawsetfield(h2, c + 6, "__parent", Table(p.static))
  BY <1>1, <1>2 DEF SetParents
<1>4. /\ Table(p.const) # nil /\ Table(p.class) # nil /\ Table(p.static) # nil
      /\ IsRef(Table(p.const), Len(h)) /\ IsRef(Table(p.class), Len(h)) /\ IsRef(Table(p.static), Len(h))
  BY References
<1>5. Sets(h, h1, c, "__parent", Table(p.const))
  BY ONLY <1>1, <1>4, SetField, IsHeap(h), c \in 1..Len(h)
<1>6. IsHeap(h1) /\ Len(h1) = Len(h)
  BY <1>5 DEF Sets
<1>7. Sets(h1, h2, c + 2, "__parent", Table(p.class))
  <2>1. c + 2 \in 1..Len(h1) /\ IsRef(Table(p.class), Len(h1))
    BY <1>4, <1>6
  <2> QED
    BY ONLY <1>2, <1>4, <1>6, <2>1, SetField
<1>8. IsHeap(h2) /\ Len(h2) = Len(h)
  BY <1>6, <1>7 DEF Sets
<1>9. Sets(h2, g, c + 6, "__parent", Table(p.static))
  <2>1. c + 6 \in 1..Len(h2) /\ IsRef(Table(p.static), Len(h2))
    BY <1>4, <1>8
  <2> QED
    BY ONLY <1>3, <1>4, <1>8, <2>1, SetField
<1>10. c # c + 2 /\ c # c + 6 /\ c + 2 # c + 6
  BY IsHeap(h) DEF IsHeap
<1>11. IsHeap(g) /\ Len(g) = Len(h) /\ \A u \in 1..Len(h) : g[u].mt = h[u].mt
  BY <1>5, <1>6, <1>7, <1>8, <1>9 DEF Sets
<1>12. \A u \in 1..Len(h) : \A x :
        rawgetfield(g, u, x) =
            IF x = "__parent" /\ u = c THEN Table(p.const)
            ELSE IF x = "__parent" /\ u = c + 2 THEN Table(p.class)
            ELSE IF x = "__parent" /\ u = c + 6 THEN Table(p.static)
            ELSE rawgetfield(h, u, x)
  BY <1>5, <1>6, <1>7, <1>8, <1>9, <1>10 DEF Sets
<1> QED
  BY <1>11, <1>12 DEF Parented

-----------------------------------------------------------------------------
(* What a field of a class holds.  The tables of a class lie one after the other from its const
   table on: const and its properties (0, 1), class, its getters and setters (2, 3, 4), the
   table scripts see (5), static, its getters and setters (6, 7, 8). *)

Slots == {0, 1, 2, 3, 4, 6, 7, 8}

(* The registration e put a function into table o of its class. *)
Suits(e, o) ==
    \/ o = 0 /\ e.kind = "function" /\ e.access = "const"
    \/ o = 2 /\ e.kind = "function"
    \/ o \in {1, 3} /\ e.kind = "data"
    \/ o = 4 /\ e.kind = "data" /\ e.access = "rw"
    \/ o = 6 /\ e.kind = "staticfunction"
    \/ o \in {7, 8} /\ e.kind = "static"

OpIn(e, o) ==
    CASE o \in {0, 1, 3} -> "reads"
      [] o = 2 -> IF e.access = "const" THEN "reads" ELSE "writes"
      [] o = 4 -> "writes"
      [] o \in {6, 7} -> "call"
      [] o = 8 -> IF e.access = "rw" THEN "call" ELSE "readOnlyError"

Holders(lg, C, x, o) ==
    {n \in DOMAIN lg : lg[n].cls = C /\ lg[n].name = x /\ Suits(lg[n], o)}

(* The last registration wins. *)
Want(lg, C, o, x) ==
    IF Holders(lg, C, x, o) = {} THEN nil
    ELSE [k |-> "fn", op |-> OpIn(lg[LastOf(Holders(lg, C, x, o))], o), cls |-> C,
          n |-> LastOf(Holders(lg, C, x, o))]

IsLog(lg) == \E S : lg \in Seq(S)

LEMMA LastIs ==
    ASSUME NEW S, NEW n \in S, S \subseteq Nat, \A m \in S : m <= n
    PROVE  LastOf(S) = n
<1>1. PICK l : l = LastOf(S)
  OBVIOUS
<1>2. l \in S /\ \A m \in S : m <= l
  BY <1>1 DEF LastOf
<1>3. l \in Nat /\ n \in Nat /\ n <= l /\ l <= n
  BY <1>2
<1> QED
  BY <1>1, <1>3

LEMMA LogFacts ==
    ASSUME NEW lg, IsLog(lg), NEW e
    PROVE  /\ Len(lg) \in Nat /\ DOMAIN lg = 1..Len(lg)
           /\ IsLog(Append(lg, e)) /\ Len(Append(lg, e)) = Len(lg) + 1
           /\ DOMAIN Append(lg, e) = 1..(Len(lg) + 1)
           /\ Append(lg, e)[Len(lg) + 1] = e
           /\ \A n \in 1..Len(lg) : Append(lg, e)[n] = lg[n]
<1>1. PICK S : lg \in Seq(S)
  BY DEF IsLog
<1> DEFINE R == S \cup {e}
<1>2. lg \in Seq(R) /\ e \in R
  BY <1>1, SeqMonotonic
<1> HIDE DEF R
<1>3. /\ Append(lg, e) \in Seq(R)
      /\ Len(Append(lg, e)) = Len(lg) + 1
      /\ Append(lg, e)[Len(lg) + 1] = e
      /\ \A n \in 1..Len(lg) : Append(lg, e)[n] = lg[n]
  BY <1>2, AppendProperties
<1>4. Len(lg) \in Nat /\ DOMAIN lg = 1..Len(lg) /\ DOMAIN Append(lg, e) = 1..Len(Append(lg, e))
  BY <1>2, <1>3, LenProperties
<1> QED
  BY <1>3, <1>4 DEF IsLog

(* One more registration. *)
LEMMA WantNow ==
    ASSUME NEW lg, IsLog(lg), NEW e, NEW C, NEW o, NEW x
    PROVE  Want(Append(lg, e), C, o, x) =
               IF e.cls = C /\ e.name = x /\ Suits(e, o)
               THEN [k |-> "fn", op |-> OpIn(e, o), cls |-> C, n |-> Len(lg) + 1]
               ELSE Want(lg, C, o, x)
<1>1. PICK new : new = Append(lg, e)
  OBVIOUS
<1>2. /\ Len(lg) \in Nat /\ DOMAIN lg = 1..Len(lg) /\ DOMAIN new = 1..(Len(lg) + 1)
      /\ new[Len(lg) + 1] = e /\ \A n \in 1..Len(lg) : new[n] = lg[n]
  BY <1>1, LogFacts
<1>3. CASE e.cls = C /\ e.name = x /\ Suits(e, o)
  <2>1. Len(lg) + 1 \in Holders(new, C, x, o)
    BY <1>2, <1>3 DEF Holders
  <2>2. Holders(new, C, x, o) \subseteq 1..(Len(lg) + 1)
    BY <1>2 DEF Holders
  <2>3. PICK H : H = Holders(new, C, x, o)
    OBVIOUS
  <2>4. LastOf(H) = Len(lg) + 1
    <3>1. H \subseteq Nat /\ \A m \in H : m <= Len(lg) + 1
      BY <1>2, <2>2, <2>3
    <3> QED
      BY ONLY <2>1, <2>3, <3>1, LastIs
  <2>5. Want(new, C, o, x) = [k |-> "fn", op |-> OpIn(new[Len(lg) + 1], o), cls |-> C, n |-> Len(lg) + 1]
    BY <2>1, <2>3, <2>4 DEF Want
  <2> QED
    BY <1>1, <1>2, <1>3, <2>5
<1>4. CASE ~(e.cls = C /\ e.name = x /\ Suits(e, o))
  <2>1. ASSUME NEW n PROVE n \in Holders(new, C, x, o) <=> n \in Holders(lg, C, x, o)
    <3>1. n \in 1..(Len(lg) + 1) <=> n \in 1..Len(lg) \/ n = Len(lg) + 1
      BY <1>2
    <3>2. CASE n = Len(lg) + 1
      <4>1. n \notin 1..Len(lg)
        BY <1>2, <3>2
      <4> QED
        BY <1>2, <1>4, <3>2, <4>1 DEF Holders
    <3>3. CASE n # Len(lg) + 1
      BY <1>2, <3>1, <3>3 DEF Holders
    <3> QED
      BY <3>2, <3>3
  <2>2. PICK H : H = Holders(lg, C, x, o)
    OBVIOUS
  <2>3. Holders(new, C, x, o) = H
    BY <2>1, <2>2
  <2>4. H # {} => new[LastOf(H)] = lg[LastOf(H)]
    <3>1. SUFFICES ASSUME H # {} PROVE LastOf(H) \in 1..Len(lg)
      BY <1>2
    <3>2. H \subseteq 1..Len(lg) /\ Len(lg) \in Nat
      BY <1>2, <2>2 DEF Holders
    <3>3. PICK n \in H : \A m \in H : m <= n
      BY ONLY <3>1, <3>2, HasLast
    <3>4. LastOf(H) = n
      <4>1. H \subseteq Nat
        BY <3>2
      <4> QED
        BY ONLY <3>3, <4>1, LastIs
    <3> QED
      BY <3>2, <3>4
  <2> QED
    BY <1>1, <1>4, <2>2, <2>3, <2>4 DEF Want
<1> QED
  BY <1>3, <1>4

-----------------------------------------------------------------------------
(* The invariant *)

IsReg(reg, C) == reg[C].class # 0

At(reg, C) == reg[C].const

IsRegistry(n, reg) ==
    /\ reg = [C \in Classes |-> reg[C]]
    /\ \A C \in Classes :
        \/ reg[C] = [static |-> 0, class |-> 0, const |-> 0]
        \/ /\ At(reg, C) \in 2..(n - 8)
           /\ reg[C] = [static |-> At(reg, C) + 6, class |-> At(reg, C) + 2, const |-> At(reg, C)]
    /\ \A C, D \in Classes :
        IsReg(reg, C) /\ IsReg(reg, D) /\ C # D => At(reg, C) + 8 < At(reg, D) \/ At(reg, D) + 8 < At(reg, C)

(* anc[C] are C and its bases, nearest first. *)
Lineage(reg, bas, anc, C) ==
    /\ bas[C] = NoClass \/ (bas[C] \in Classes /\ IsReg(reg, C) /\ IsReg(reg, bas[C]))
    /\ anc[C] \in Seq(Classes) /\ Len(anc[C]) >= 1 /\ anc[C][1] = C
    /\ anc[C] = IF bas[C] = NoClass THEN <<C>> ELSE <<C>> \o anc[bas[C]]
    /\ \A i \in 1..(Len(anc[C]) - 1) : bas[anc[C][i]] = anc[C][i + 1]
    /\ bas[anc[C][Len(anc[C])]] = NoClass
    /\ \A i, j \in 1..Len(anc[C]) : i # j => anc[C][i] # anc[C][j]
    /\ IsReg(reg, C) => \A i \in 1..Len(anc[C]) : IsReg(reg, anc[C][i])

Family(reg, bas, anc) ==
    /\ bas = [C \in Classes |-> bas[C]]
    /\ \A C \in Classes : Lineage(reg, bas, anc, C)

(* How the tables of C refer to each other and to those of its base. *)
Wired(h, reg, bas, C) ==
    /\ h[At(reg, C) + 5].mt = At(reg, C) + 6
    /\ rawgetfield(h, At(reg, C) + 5, "__class") = nil
    /\ rawgetfield(h, At(reg, C), "identity") # nil
    /\ rawgetfield(h, At(reg, C), "__propget") = Table(At(reg, C) + 1)
    /\ rawgetfield(h, At(reg, C), "__propset") = nil
    /\ rawgetfield(h, At(reg, C), "__const") = nil
    /\ rawgetfield(h, At(reg, C) + 2, "identity") # nil
    /\ rawgetfield(h, At(reg, C) + 2, "__propget") = Table(At(reg, C) + 3)
    /\ rawgetfield(h, At(reg, C) + 2, "__propset") = Table(At(reg, C) + 4)
    /\ rawgetfield(h, At(reg, C) + 2, "__const") = Table(At(reg, C))
    /\ rawgetfield(h, At(reg, C) + 6, "__propget") = Table(At(reg, C) + 7)
    /\ rawgetfield(h, At(reg, C) + 6, "__propset") = Table(At(reg, C) + 8)
    /\ bas[C] = NoClass => /\ rawgetfield(h, At(reg, C), "__parent") = nil
                           /\ rawgetfield(h, At(reg, C) + 2, "__parent") = nil
                           /\ rawgetfield(h, At(reg, C) + 6, "__parent") = nil
    /\ bas[C] # NoClass =>
        /\ rawgetfield(h, At(reg, C), "__parent") = Table(At(reg, bas[C]))
        /\ rawgetfield(h, At(reg, C) + 2, "__parent") = Table(At(reg, bas[C]) + 2)
        /\ rawgetfield(h, At(reg, C) + 6, "__parent") = Table(At(reg, bas[C]) + 6)

(* What the tables of C hold. *)
Stocked(h, reg, lg, C) ==
    \A o \in Slots : \A x \in Members : rawgetfield(h, At(reg, C) + o, x) = Want(lg, C, o, x)

(* The table of a namespace, and its getters and setters. *)
EndOf(n) == IF n = 1 THEN 1 ELSE n + 2

IsSpace(h, reg, spaces, n) ==
    /\ n \in 1..Len(h) /\ EndOf(n) <= Len(h)
    /\ n = 1 => rawgetfield(h, 1, "__propget") = nil
    /\ n # 1 => /\ rawgetfield(h, n, "__propget") = Table(n + 1)
                /\ rawgetfield(h, n, "__propset") = Table(n + 2)
    /\ \A C \in Classes :
        rawgetfield(h, n, C) # nil => IsReg(reg, C) /\ rawgetfield(h, n, C) = Table(At(reg, C) + 5)
    /\ \A s \in Spaces : HasTable(h, n, s) => Field(h, n, s) \in spaces
    /\ \A C \in Classes : IsReg(reg, C) => EndOf(n) < At(reg, C) \/ At(reg, C) + 8 < n

(* Only the tables of a derived class have a parent. *)
ParentsKnown(h, reg, bas) ==
    \A u \in 1..Len(h) : HasTable(h, u, "__parent") =>
        \E C \in Classes, o \in {0, 2, 6} : IsReg(reg, C) /\ bas[C] # NoClass /\ u = At(reg, C) + o

HeapInv(h, reg, bas, lg, spaces) ==
    /\ IsHeap(h) /\ IsRegistry(Len(h), reg) /\ IsLog(lg)
    /\ \A n \in DOMAIN lg : lg[n].cls = NoClass \/ (lg[n].cls \in Classes /\ IsReg(reg, lg[n].cls))
    /\ 1 \in spaces
    /\ \A n \in spaces : IsSpace(h, reg, spaces, n)
    /\ \A C \in Classes : IsReg(reg, C) => Wired(h, reg, bas, C) /\ Stocked(h, reg, lg, C)
    /\ ParentsKnown(h, reg, bas)

(* The Lua stack holds open namespaces, and on top the tables of an open class; what is
   opened as a namespace may be no table. *)
StackInv(reg, stk, sz, opn, cl, spaces) ==
    /\ (\E S : stk \in Seq(S)) /\ sz = Len(stk)
    /\ \/ opn = "none" /\ cl = NoClass /\ stk = <<>>
       \/ /\ opn = "namespace" /\ cl = NoClass
          /\ Len(stk) >= 1
          /\ \A i \in 1..Len(stk) : stk[i] \in spaces \/ (i = Len(stk) /\ stk[i] = NotATable)
       \/ /\ opn = "class" /\ cl \in Classes /\ IsReg(reg, cl)
          /\ Len(stk) >= 4 /\ \A i \in 1..(Len(stk) - 3) : stk[i] \in spaces
          /\ stk[Len(stk) - 2] = At(reg, cl)
          /\ stk[Len(stk) - 1] = At(reg, cl) + 2
          /\ stk[Len(stk)] = At(reg, cl) + 6

Good(spaces, anc) ==
    /\ HeapInv(heap, registry, base, log, spaces)
    /\ Family(registry, base, anc)
    /\ StackInv(registry, stack, size, open, cls, spaces)

Sound == NoAssertionFails /\ \E spaces, anc : Good(spaces, anc)

-----------------------------------------------------------------------------
(* What keeps the invariant *)

LEMMA BlockInHeap ==
    ASSUME NEW n \in Nat, NEW reg, IsRegistry(n, reg), NEW C \in Classes, IsReg(reg, C)
    PROVE  /\ At(reg, C) \in Nat /\ At(reg, C) >= 2 /\ At(reg, C) + 8 <= n
           /\ reg[C].const = At(reg, C) /\ reg[C].class = At(reg, C) + 2 /\ reg[C].static = At(reg, C) + 6
           /\ \A o \in 0..8 : At(reg, C) + o \in 1..n
<1>1. reg[C] # [static |-> 0, class |-> 0, const |-> 0]
  BY DEF IsReg
<1>2. /\ At(reg, C) \in 2..(n - 8)
      /\ reg[C] = [static |-> At(reg, C) + 6, class |-> At(reg, C) + 2, const |-> At(reg, C)]
  BY <1>1 DEF IsRegistry
<1>3. PICK c : c = At(reg, C)
  OBVIOUS
<1>4. c \in Nat /\ c >= 2 /\ c + 8 <= n /\ \A o \in 0..8 : c + o \in 1..n
  BY <1>2, <1>3
<1> QED
  BY <1>2, <1>3, <1>4

(* The fields that tie the tables together. *)
Fixed == {"identity", "__propget", "__propset", "__const", "__class", "__parent"}

LEMMA NamesApart ==
    /\ \A x \in Fixed : x \notin Classes /\ x \notin Members /\ x \notin Spaces /\ x # "__call"
    /\ \A x \in Classes : x \notin Members /\ x \notin Spaces /\ x # "__call"
    /\ "__call" \notin Members /\ "__call" \notin Spaces
    /\ "__parent" \notin Members /\ "__class" \notin Members
    /\ NoClass \notin Classes
BY NamesAssumption DEF Fixed, Reserved

SameFixed(h, g, u) == g[u].mt = h[u].mt /\ \A x \in Fixed : rawgetfield(g, u, x) = rawgetfield(h, u, x)

LEMMA WiredStays ==
    ASSUME NEW h, NEW reg, NEW bas, NEW C \in Classes, Wired(h, reg, bas, C), IsReg(reg, C),
           Len(h) \in Nat, IsRegistry(Len(h), reg),
           NEW g, NEW reg2, NEW bas2, reg2[C] = reg[C], bas2[C] = bas[C],
           bas[C] # NoClass => reg2[bas[C]] = reg[bas[C]],
           \A u \in 1..Len(h) : SameFixed(h, g, u)
    PROVE  Wired(g, reg2, bas2, C)
<1>1. PICK c : c = At(reg, C)
  OBVIOUS
<1>2. c \in 1..Len(h) /\ c + 2 \in 1..Len(h) /\ c + 5 \in 1..Len(h) /\ c + 6 \in 1..Len(h) /\ c + 0 = c
  <2>1. c \in Nat /\ c >= 2 /\ c + 8 <= Len(h)
    BY <1>1, BlockInHeap
  <2> QED
    BY ONLY <2>1, Len(h) \in Nat
<1>3. SameFixed(h, g, c) /\ SameFixed(h, g, c + 2) /\ SameFixed(h, g, c + 5) /\ SameFixed(h, g, c + 6)
  BY <1>2
<1>4. At(reg2, C) = c /\ (bas[C] # NoClass => At(reg2, bas2[C]) = At(reg, bas[C]))
  BY <1>1 DEF At
<1> QED
  BY <1>1, <1>3, <1>4 DEF Wired, SameFixed, Fixed

(* A table does not appear in a field where there was none. *)
NoNewTables(h, g, u) ==
    \A x : HasTable(g, u, x) => HasTable(h, u, x) /\ Field(g, u, x) = Field(h, u, x)

(* One more registration of a member. *)
LEMMA AddKeeps ==
    ASSUME NEW h, NEW reg, NEW bas, NEW lg, NEW spaces, HeapInv(h, reg, bas, lg, spaces),
           NEW e, e.cls = NoClass \/ (e.cls \in Classes /\ IsReg(reg, e.cls)),
           NEW g, IsHeap(g), Len(g) = Len(h),
           \A u \in 1..Len(h) : SameFixed(h, g, u) /\ NoNewTables(h, g, u),
           \A u \in 1..Len(h) : \A x \in Classes : rawgetfield(g, u, x) = rawgetfield(h, u, x),
           \A C \in Classes : IsReg(reg, C) => Stocked(g, reg, Append(lg, e), C)
    PROVE  HeapInv(g, reg, bas, Append(lg, e), spaces)
<1>1. /\ IsHeap(h) /\ IsRegistry(Len(h), reg) /\ IsLog(lg)
      /\ \A n \in DOMAIN lg : lg[n].cls = NoClass \/ (lg[n].cls \in Classes /\ IsReg(reg, lg[n].cls))
      /\ 1 \in spaces
      /\ \A n \in spaces : IsSpace(h, reg, spaces, n)
      /\ \A C \in Classes : IsReg(reg, C) => Wired(h, reg, bas, C)
  BY DEF HeapInv
<1>2. Len(h) \in Nat
  BY <1>1 DEF IsHeap
<1>3. PICK new : new = Append(lg, e)
  OBVIOUS
<1>4. IsLog(new) /\ \A n \in DOMAIN new : new[n].cls = NoClass \/ (new[n].cls \in Classes /\ IsReg(reg, new[n].cls))
  <2>1. /\ Len(lg) \in Nat /\ DOMAIN lg = 1..Len(lg) /\ DOMAIN new = 1..(Len(lg) + 1)
        /\ IsLog(new) /\ new[Len(lg) + 1] = e /\ \A n \in 1..Len(lg) : new[n] = lg[n]
    BY <1>1, <1>3, LogFacts
  <2>2. \A n \in DOMAIN new : n \in DOMAIN lg \/ n = Len(lg) + 1
    BY <2>1
  <2> QED
    BY <1>1, <2>1, <2>2
<1>5. ASSUME NEW C \in Classes, IsReg(reg, C) PROVE Wired(g, reg, bas, C)
  BY <1>1, <1>2, <1>5, WiredStays
<1>6. ASSUME NEW n \in spaces PROVE IsSpace(g, reg, spaces, n)
  <2>1. IsSpace(h, reg, spaces, n)
    BY <1>1
  <2>2. n \in 1..Len(h)
    BY <2>1 DEF IsSpace
  <2>3. SameFixed(h, g, n) /\ NoNewTables(h, g, n)
    BY <2>2
  <2>4. /\ n = 1 => rawgetfield(g, 1, "__propget") = nil
        /\ n # 1 => /\ rawgetfield(g, n, "__propget") = Table(n + 1)
                    /\ rawgetfield(g, n, "__propset") = Table(n + 2)
    BY <2>1, <2>3 DEF IsSpace, SameFixed, Fixed
  <2>5. \A C \in Classes :
          rawgetfield(g, n, C) # nil => IsReg(reg, C) /\ rawgetfield(g, n, C) = Table(At(reg, C) + 5)
    BY <2>1, <2>2 DEF IsSpace
  <2>6. \A s \in Spaces : HasTable(g, n, s) => Field(g, n, s) \in spaces
    BY <2>1, <2>3 DEF IsSpace, NoNewTables
  <2> QED
    BY <2>1, <2>4, <2>5, <2>6 DEF IsSpace
<1>7. ParentsKnown(g, reg, bas)
  <2>1. ParentsKnown(h, reg, bas)
    BY DEF HeapInv
  <2>2. \A u \in 1..Len(g) : HasTable(g, u, "__parent") => HasTable(h, u, "__parent") /\ u \in 1..Len(h)
    BY DEF NoNewTables
  <2> QED
    BY <2>1, <2>2 DEF ParentsKnown
<1> QED
  BY <1>1, <1>3, <1>4, <1>5, <1>6, <1>7 DEF HeapInv

(* A class is registered: T in the namespace ns, derived from U unless that is NoClass. *)
Made(h, g, ns, T, U, reg) ==
    LET c == Len(h) + 1
    IN  /\ IsHeap(g) /\ Len(g) = Len(h) + 9
        /\ \A u \in 1..Len(h) : g[u].mt = h[u].mt
        /\ \A u \in 1..Len(h) : \A x :
            rawgetfield(g, u, x) = IF u = ns /\ x = T THEN Table(Len(h) + 6) ELSE rawgetfield(h, u, x)
        /\ g[c + 5].mt = c + 6
        /\ rawgetfield(g, c + 5, "__class") = nil
        /\ \A o \in Slots : \A x \in Members : rawgetfield(g, c + o, x) = nil
        /\ \A o \in {1, 3, 4, 5, 7, 8} : rawgetfield(g, c + o, "__parent") = nil
        /\ rawgetfield(g, c, "identity") # nil
        /\ rawgetfield(g, c, "__propget") = Table(c + 1)
        /\ rawgetfield(g, c, "__propset") = nil
        /\ rawgetfield(g, c, "__const") = nil
        /\ rawgetfield(g, c + 2, "identity") # nil
        /\ rawgetfield(g, c + 2, "__propget") = Table(c + 3)
        /\ rawgetfield(g, c + 2, "__propset") = Table(c + 4)
        /\ rawgetfield(g, c + 2, "__const") = Table(c)
        /\ rawgetfield(g, c + 6, "__propget") = Table(c + 7)
        /\ rawgetfield(g, c + 6, "__propset") = Table(c + 8)
        /\ U = NoClass => /\ rawgetfield(g, c, "__parent") = nil
                          /\ rawgetfield(g, c + 2, "__parent") = nil
                          /\ rawgetfield(g, c + 6, "__parent") = nil
        /\ U # NoClass => /\ rawgetfield(g, c, "__parent") = Table(reg[U].const)
                          /\ rawgetfield(g, c + 2, "__parent") = Table(reg[U].class)
                          /\ rawgetfield(g, c + 6, "__parent") = Table(reg[U].static)

LEMMA BaseMade ==
    ASSUME NEW h, IsHeap(h), NEW ns \in 1..Len(h), NEW T, NEW reg,
           NEW g, g = CreateTables(h, ns, T)
    PROVE  Made(h, g, ns, T, NoClass, reg)
<1>0. Len(h) \in Nat
  BY DEF IsHeap
<1>1. NewClass(h, g, ns, T)
  BY TablesMade
<1>2. PICK c : c = Len(h) + 1
  OBVIOUS
<1>3. ClassMade(g, c)
  BY <1>1, <1>2 DEF NewClass
<1>4. True # nil
  BY Values
<1>5. c + 2 + 1 = c + 3 /\ c + 2 + 2 = c + 4 /\ c + 6 + 1 = c + 7 /\ c + 6 + 2 = c + 8 /\ c + 0 = c
  BY <1>0, <1>2
<1>6. /\ rawgetfield(g, c, "identity") # nil
      /\ rawgetfield(g, c, "__propget") = Table(c + 1)
      /\ rawgetfield(g, c, "__propset") = nil
      /\ rawgetfield(g, c, "__const") = nil
      /\ rawgetfield(g, c, "__parent") = nil
  BY <1>3, <1>4 DEF ClassMade
<1>7. /\ rawgetfield(g, c + 2, "identity") # nil
      /\ rawgetfield(g, c + 2, "__propget") = Table(c + 3)
      /\ rawgetfield(g, c + 2, "__propset") = Table(c + 4)
      /\ rawgetfield(g, c + 2, "__const") = Table(c)
      /\ rawgetfield(g, c + 2, "__parent") = nil
  BY <1>3, <1>4, <1>5 DEF ClassMade, ClassFields
<1>8. /\ rawgetfield(g, c + 6, "__propget") = Table(c + 7)
      /\ rawgetfield(g, c + 6, "__propset") = Table(c + 8)
      /\ rawgetfield(g, c + 6, "__parent") = nil
  BY <1>3, <1>5 DEF ClassMade, StaticFields
<1>9. ASSUME NEW o \in Slots, NEW x \in Members PROVE rawgetfield(g, c + o, x) = nil
  <2>1. x \notin {"identity", "__propget", "__propset", "__const", "__class"}
    BY NamesAssumption DEF Reserved
  <2>2. rawgetfield(g, c, x) = nil
    BY <1>3, <2>1 DEF ClassMade
  <2>3. rawgetfield(g, c + 2, x) = nil
    BY <1>3, <2>1 DEF ClassMade, ClassFields
  <2>4. rawgetfield(g, c + 6, x) = nil
    BY <1>3, <2>1 DEF ClassMade, StaticFields
  <2>5. /\ rawgetfield(g, c + 1, x) = nil /\ rawgetfield(g, c + 3, x) = nil /\ rawgetfield(g, c + 4, x) = nil
        /\ rawgetfield(g, c + 7, x) = nil /\ rawgetfield(g, c + 8, x) = nil
    BY <1>3 DEF ClassMade, Blank
  <2> QED
    BY ONLY <1>5, <2>2, <2>3, <2>4, <2>5, o \in Slots DEF Slots
<1>10. g[c + 5].mt = c + 6 /\ rawgetfield(g, c + 5, "__class") = nil
  BY <1>3 DEF ClassMade, Blank
<1>10a. \A o \in {1, 3, 4, 5, 7, 8} : rawgetfield(g, c + o, "__parent") = nil
  <2>1. /\ Blank(g, c + 1) /\ Blank(g, c + 3) /\ Blank(g, c + 4) /\ Blank(g, c + 5) /\ Blank(g, c + 7)
        /\ Blank(g, c + 8)
    BY <1>3 DEF ClassMade
  <2> QED
    BY ONLY <2>1 DEF Blank
<1>11. /\ IsHeap(g) /\ Len(g) = Len(h) + 9
       /\ \A u \in 1..Len(h) : g[u].mt = h[u].mt
       /\ \A u \in 1..Len(h) : \A x :
            rawgetfield(g, u, x) = IF u = ns /\ x = T THEN Table(Len(h) + 6) ELSE rawgetfield(h, u, x)
  BY <1>1 DEF NewClass
<1> QED
  BY ONLY <1>2, <1>6, <1>7, <1>8, <1>9, <1>10, <1>10a, <1>11, Zenon DEF Made

LEMMA DerivedMade ==
    ASSUME NEW h, IsHeap(h), NEW ns \in 1..Len(h), NEW T, NEW reg, NEW U, U # NoClass,
           reg[U].const \in 1..Len(h), reg[U].class \in 1..Len(h), reg[U].static \in 1..Len(h),
           NEW g, g = SetParents(CreateTables(h, ns, T), Len(h) + 1, Len(h) + 3, Len(h) + 7, reg[U])
    PROVE  Made(h, g, ns, T, U, reg)
<1>0. Len(h) \in Nat
  BY DEF IsHeap
<1>1. PICK k : k = CreateTables(h, ns, T)
  OBVIOUS
<1>2. Made(h, k, ns, T, NoClass, reg)
  BY <1>1, BaseMade
<1>3. PICK c, p : c = Len(h) + 1 /\ p = reg[U]
  OBVIOUS
<1>4. IsHeap(k) /\ Len(k) = Len(h) + 9
  BY <1>2 DEF Made
<1>5. Parented(k, g, c, p)
  <2>1. c + 2 = Len(h) + 3 /\ c + 6 = Len(h) + 7
    BY <1>0, <1>3
  <2>2. g = SetParents(k, c, c + 2, c + 6, p)
    BY <1>1, <1>3, <2>1
  <2>3. c \in 1..Len(k) /\ c + 2 \in 1..Len(k) /\ c + 6 \in 1..Len(k)
        /\ p.const \in 1..Len(k) /\ p.class \in 1..Len(k) /\ p.static \in 1..Len(k)
    BY <1>0, <1>3, <1>4, SMTT(60)
  <2> QED
    BY ONLY <1>4, <2>2, <2>3, ParentsSet
<1>6. /\ \A u \in 1..Len(h) : u \in 1..Len(k) /\ u # c /\ u # c + 2 /\ u # c + 6
      /\ c \in 1..Len(k) /\ c + 2 \in 1..Len(k) /\ c + 5 \in 1..Len(k) /\ c + 6 \in 1..Len(k)
      /\ \A o \in Slots : c + o \in 1..Len(k)
      /\ c # c + 2 /\ c # c + 6 /\ c + 2 # c + 6
  BY <1>0, <1>3, <1>4 DEF Slots
<1>7. IsHeap(g) /\ Len(g) = Len(h) + 9 /\ \A u \in 1..Len(k) : g[u].mt = k[u].mt
  BY <1>4, <1>5 DEF Parented
<1>8. \A u \in 1..Len(k) : \A x : x # "__parent" => rawgetfield(g, u, x) = rawgetfield(k, u, x)
  BY <1>5 DEF Parented
<1>9. \A u \in 1..Len(h) : \A x : rawgetfield(g, u, x) = rawgetfield(k, u, x)
  BY <1>5, <1>6 DEF Parented
<1>10. /\ rawgetfield(g, c, "__parent") = Table(p.const)
       /\ rawgetfield(g, c + 2, "__parent") = Table(p.class)
       /\ rawgetfield(g, c + 6, "__parent") = Table(p.static)
  BY <1>5, <1>6 DEF Parented
<1>11. \A x \in Members : x # "__parent"
  BY NamesApart
<1>12. /\ \A u \in 1..Len(h) : k[u].mt = h[u].mt
       /\ \A u \in 1..Len(h) : \A x :
            rawgetfield(k, u, x) = IF u = ns /\ x = T THEN Table(Len(h) + 6) ELSE rawgetfield(h, u, x)
       /\ k[c + 5].mt = c + 6
       /\ rawgetfield(k, c + 5, "__class") = nil
       /\ \A o \in Slots : \A x \in Members : rawgetfield(k, c + o, x) = nil
       /\ \A o \in {1, 3, 4, 5, 7, 8} : rawgetfield(k, c + o, "__parent") = nil
       /\ rawgetfield(k, c, "identity") # nil
       /\ rawgetfield(k, c, "__propget") = Table(c + 1)
       /\ rawgetfield(k, c, "__propset") = nil
       /\ rawgetfield(k, c, "__const") = nil
       /\ rawgetfield(k, c + 2, "identity") # nil
       /\ rawgetfield(k, c + 2, "__propget") = Table(c + 3)
       /\ rawgetfield(k, c + 2, "__propset") = Table(c + 4)
       /\ rawgetfield(k, c + 2, "__const") = Table(c)
       /\ rawgetfield(k, c + 6, "__propget") = Table(c + 7)
       /\ rawgetfield(k, c + 6, "__propset") = Table(c + 8)
  BY <1>2, <1>3, Zenon DEF Made
<1>13. /\ \A u \in 1..Len(h) : g[u].mt = h[u].mt
       /\ \A u \in 1..Len(h) : \A x :
            rawgetfield(g, u, x) = IF u = ns /\ x = T THEN Table(Len(h) + 6) ELSE rawgetfield(h, u, x)
       /\ g[c + 5].mt = c + 6
       /\ rawgetfield(g, c + 5, "__class") = nil
       /\ \A o \in Slots : \A x \in Members : rawgetfield(g, c + o, x) = nil
  <2>1. "__class" # "__parent"
    OBVIOUS
  <2>2. rawgetfield(g, c + 5, "__class") = nil
    BY ONLY <1>6, <1>8, <1>12, <2>1
  <2>3. g[c + 5].mt = c + 6 /\ \A u \in 1..Len(h) : g[u].mt = h[u].mt
    BY ONLY <1>6, <1>7, <1>12
  <2>4. \A o \in Slots : \A x \in Members : rawgetfield(g, c + o, x) = nil
    BY ONLY <1>6, <1>8, <1>11, <1>12
  <2>5. \A u \in 1..Len(h) : \A x :
            rawgetfield(g, u, x) = IF u = ns /\ x = T THEN Table(Len(h) + 6) ELSE rawgetfield(h, u, x)
    BY ONLY <1>9, <1>12
  <2> QED
    BY ONLY <2>2, <2>3, <2>4, <2>5
<1>14. /\ rawgetfield(g, c, "identity") # nil
       /\ rawgetfield(g, c, "__propget") = Table(c + 1)
       /\ rawgetfield(g, c, "__propset") = nil
       /\ rawgetfield(g, c, "__const") = nil
       /\ rawgetfield(g, c + 2, "identity") # nil
       /\ rawgetfield(g, c + 2, "__propget") = Table(c + 3)
       /\ rawgetfield(g, c + 2, "__propset") = Table(c + 4)
       /\ rawgetfield(g, c + 2, "__const") = Table(c)
       /\ rawgetfield(g, c + 6, "__propget") = Table(c + 7)
       /\ rawgetfield(g, c + 6, "__propset") = Table(c + 8)
  BY ONLY <1>6, <1>8, <1>12
<1>15. \A o \in {1, 3, 4, 5, 7, 8} : rawgetfield(g, c + o, "__parent") = nil
  <2>1. ASSUME NEW o \in {1, 3, 4, 5, 7, 8}
        PROVE  c + o \in 1..Len(k) /\ c + o # c /\ c + o # c + 2 /\ c + o # c + 6
    BY <1>0, <1>3, <1>4
  <2>2. ASSUME NEW o \in {1, 3, 4, 5, 7, 8}
        PROVE  rawgetfield(g, c + o, "__parent") = rawgetfield(k, c + o, "__parent")
    BY <1>5, <2>1 DEF Parented
  <2> QED
    BY <1>12, <2>2
<1> QED
  BY ONLY <1>3, <1>7, <1>10, <1>13, <1>14, <1>15, U # NoClass, Zenon DEF Made

LEMMA ClassKeeps ==
    ASSUME NEW h, NEW reg, NEW bas, NEW lg, NEW spaces, HeapInv(h, reg, bas, lg, spaces),
           bas = [C \in Classes |-> bas[C]],
           \A C \in Classes : bas[C] = NoClass \/ (bas[C] \in Classes /\ IsReg(reg, C) /\ IsReg(reg, bas[C])),
           NEW T \in Classes, ~IsReg(reg, T), NEW ns \in spaces,
           NEW U, U = NoClass \/ (U \in Classes /\ IsReg(reg, U)),
           NEW g, Made(h, g, ns, T, U, reg),
           NEW reg2, reg2 = [reg EXCEPT ![T] = [static |-> Len(h) + 7, class |-> Len(h) + 3,
                                                const |-> Len(h) + 1]],
           NEW bas2, bas2 = [bas EXCEPT ![T] = U]
    PROVE  HeapInv(g, reg2, bas2, lg, spaces)
<1>1. /\ IsHeap(h) /\ IsRegistry(Len(h), reg) /\ IsLog(lg)
      /\ \A n \in DOMAIN lg : lg[n].cls = NoClass \/ (lg[n].cls \in Classes /\ IsReg(reg, lg[n].cls))
      /\ 1 \in spaces
      /\ \A n \in spaces : IsSpace(h, reg, spaces, n)
      /\ \A C \in Classes : IsReg(reg, C) => Wired(h, reg, bas, C) /\ Stocked(h, reg, lg, C)
  BY DEF HeapInv
<1>2. Len(h) \in Nat
  BY <1>1 DEF IsHeap
<1>3. PICK c, r : c = Len(h) + 1 /\ r = [static |-> c + 6, class |-> c + 2, const |-> c]
  OBVIOUS
<1>4. r = [static |-> Len(h) + 7, class |-> Len(h) + 3, const |-> Len(h) + 1] /\ c \in Nat
  <2>1. c + 6 = Len(h) + 7 /\ c + 2 = Len(h) + 3 /\ c \in Nat
    BY <1>2, <1>3
  <2> QED
    BY ONLY <1>3, <2>1
<1>5. reg2 = [C \in Classes |-> IF C = T THEN r ELSE reg[C]]
  <2>1. reg = [C \in Classes |-> reg[C]]
    BY <1>1 DEF IsRegistry
  <2> QED
    BY <1>4, <2>1, Zenon
<1>6. bas2 = [C \in Classes |-> IF C = T THEN U ELSE bas[C]]
  BY Zenon
<1>7. reg2[T] = r /\ bas2[T] = U /\ \A C \in Classes : C # T => reg2[C] = reg[C] /\ bas2[C] = bas[C]
  BY <1>5, <1>6
<1>8. At(reg2, T) = c /\ IsReg(reg2, T)
  BY <1>3, <1>4, <1>7 DEF At, IsReg
<1>9. \A C \in Classes : C # T => (IsReg(reg2, C) <=> IsReg(reg, C)) /\ At(reg2, C) = At(reg, C)
  BY <1>7 DEF At, IsReg
<1>9a. \A C \in Classes : IsReg(reg, C) => C # T
  OBVIOUS
<1>10. /\ IsHeap(g) /\ Len(g) = Len(h) + 9
       /\ \A u \in 1..Len(h) : g[u].mt = h[u].mt
       /\ \A u \in 1..Len(h) : \A x :
            rawgetfield(g, u, x) = IF u = ns /\ x = T THEN Table(Len(h) + 6) ELSE rawgetfield(h, u, x)
  BY Zenon DEF Made
<1>11. IsRegistry(Len(g), reg2)
  <2>1. reg2 = [C \in Classes |-> reg2[C]]
    BY <1>5
  <2>2. ASSUME NEW C \in Classes
        PROVE  \/ reg2[C] = [static |-> 0, class |-> 0, const |-> 0]
               \/ /\ At(reg2, C) \in 2..(Len(g) - 8)
                  /\ reg2[C] = [static |-> At(reg2, C) + 6, class |-> At(reg2, C) + 2, const |-> At(reg2, C)]
    <3>1. CASE C = T
      <4>1. c \in 2..(Len(g) - 8)
        <5>1. IsSpace(h, reg, spaces, 1)
          BY <1>1
        <5>2. 1 \in 1..Len(h)
          BY <5>1 DEF IsSpace
        <5> QED
          BY <1>2, <1>3, <1>10, <5>2
      <4> QED
        BY <1>3, <1>7, <1>8, <3>1, <4>1
    <3>2. CASE C # T
      <4>1. reg2[C] = reg[C] /\ At(reg2, C) = At(reg, C)
        BY <1>7, <1>9, <3>2
      <4>2. At(reg, C) \in 2..(Len(h) - 8) => At(reg, C) \in 2..(Len(g) - 8)
        BY <1>2, <1>10
      <4>3. \/ reg[C] = [static |-> 0, class |-> 0, const |-> 0]
            \/ /\ At(reg, C) \in 2..(Len(h) - 8)
               /\ reg[C] = [static |-> At(reg, C) + 6, class |-> At(reg, C) + 2, const |-> At(reg, C)]
        BY <1>1 DEF IsRegistry
      <4> QED
        BY <4>1, <4>2, <4>3, Zenon
    <3> QED
      BY <3>1, <3>2
  <2>3. ASSUME NEW C \in Classes, NEW D \in Classes, IsReg(reg2, C), IsReg(reg2, D), C # D
        PROVE  At(reg2, C) + 8 < At(reg2, D) \/ At(reg2, D) + 8 < At(reg2, C)
    <3>1. ASSUME NEW E \in Classes, IsReg(reg, E) PROVE At(reg, E) \in Nat /\ At(reg, E) + 8 < c
      <4>1. At(reg, E) \in Nat /\ At(reg, E) + 8 <= Len(h)
        BY <1>1, <1>2, <3>1, BlockInHeap
      <4> QED
        BY <1>2, <1>3, <4>1
    <3>2. CASE C = T
      BY <1>8, <1>9, <2>3, <3>1, <3>2
    <3>3. CASE D = T
      BY <1>8, <1>9, <2>3, <3>1, <3>3
    <3>4. CASE C # T /\ D # T
      BY <1>1, <1>9, <2>3, <3>4 DEF IsRegistry
    <3> QED
      BY <3>2, <3>3, <3>4
  <2> QED
    BY <2>1, <2>2, <2>3 DEF IsRegistry
<1>12. \A n \in DOMAIN lg : lg[n].cls = NoClass \/ (lg[n].cls \in Classes /\ IsReg(reg2, lg[n].cls))
  BY <1>1, <1>9, <1>9a
<1>13. T \notin Members /\ T \notin Spaces /\ T \notin Fixed
  BY NamesApart
<1>14. \A u \in 1..Len(h) : SameFixed(h, g, u)
  BY <1>10, <1>13 DEF SameFixed
<1>15. ASSUME NEW n \in spaces PROVE IsSpace(g, reg2, spaces, n)
  <2>1. IsSpace(h, reg, spaces, n)
    BY <1>1
  <2>2. n \in 1..Len(h) /\ EndOf(n) <= Len(h)
    BY <2>1 DEF IsSpace
  <2>3. n \in 1..Len(g) /\ EndOf(n) \in Nat /\ EndOf(n) <= Len(g) /\ EndOf(n) < c
    BY <1>2, <1>3, <1>10, <2>2 DEF EndOf
  <2>4. /\ n = 1 => rawgetfield(g, 1, "__propget") = nil
        /\ n # 1 => /\ rawgetfield(g, n, "__propget") = Table(n + 1)
                    /\ rawgetfield(g, n, "__propset") = Table(n + 2)
    <3>1. SameFixed(h, g, n)
      BY <1>14, <2>2
    <3> QED
      BY <2>1, <3>1 DEF IsSpace, SameFixed, Fixed
  <2>5. ASSUME NEW C \in Classes, rawgetfield(g, n, C) # nil
        PROVE  IsReg(reg2, C) /\ rawgetfield(g, n, C) = Table(At(reg2, C) + 5)
    <3>1. CASE n = ns /\ C = T
      <4>1. rawgetfield(g, n, C) = Table(Len(h) + 6)
        BY <1>10, <2>2, <3>1
      <4>2. Len(h) + 6 = c + 5
        BY <1>2, <1>3
      <4> QED
        BY <1>8, <3>1, <4>1, <4>2
    <3>2. CASE ~(n = ns /\ C = T)
      <4>1. rawgetfield(g, n, C) = rawgetfield(h, n, C)
        BY <1>10, <2>2, <3>2
      <4>2. IsReg(reg, C) /\ rawgetfield(h, n, C) = Table(At(reg, C) + 5)
        BY <2>1, <2>5, <4>1 DEF IsSpace
      <4>3. IsReg(reg2, C) /\ At(reg2, C) = At(reg, C)
        BY <1>9, <1>9a, <4>2
      <4> QED
        BY <4>1, <4>2, <4>3
    <3> QED
      BY <3>1, <3>2
  <2>6. \A s \in Spaces : HasTable(g, n, s) => Field(g, n, s) \in spaces
    <3>1. \A s \in Spaces : rawgetfield(g, n, s) = rawgetfield(h, n, s)
      BY <1>10, <1>13, <2>2
    <3> QED
      BY <2>1, <3>1 DEF IsSpace, HasTable, Field
  <2>7. \A C \in Classes : IsReg(reg2, C) => EndOf(n) < At(reg2, C) \/ At(reg2, C) + 8 < n
    BY <1>8, <1>9, <2>1, <2>3 DEF IsSpace
  <2> QED
    BY <2>3, <2>4, <2>5, <2>6, <2>7 DEF IsSpace
<1>16. ASSUME NEW C \in Classes, IsReg(reg2, C) PROVE Wired(g, reg2, bas2, C)
  <2>1. CASE C # T
    <3>1. IsReg(reg, C) /\ reg2[C] = reg[C] /\ bas2[C] = bas[C] /\ Wired(h, reg, bas, C)
      BY <1>1, <1>7, <1>9, <1>16, <2>1
    <3>2. bas[C] # NoClass => reg2[bas[C]] = reg[bas[C]]
      BY <1>7, <1>9a
    <3> QED
      BY <1>1, <1>2, <1>14, <3>1, <3>2, WiredStays
  <2>2. CASE C = T
    <3>1. U # NoClass => /\ reg[U].const = At(reg2, U) /\ reg[U].class = At(reg2, U) + 2
                         /\ reg[U].static = At(reg2, U) + 6
      <4>1. SUFFICES ASSUME U # NoClass
                     PROVE  /\ reg[U].const = At(reg2, U) /\ reg[U].class = At(reg2, U) + 2
                            /\ reg[U].static = At(reg2, U) + 6
        OBVIOUS
      <4>2. U \in Classes /\ IsReg(reg, U) /\ At(reg2, U) = At(reg, U)
        BY <1>9, <1>9a, <4>1
      <4>3. /\ reg[U].const = At(reg, U) /\ reg[U].class = At(reg, U) + 2
            /\ reg[U].static = At(reg, U) + 6
        BY ONLY <1>1, <1>2, <4>2, BlockInHeap
      <4> QED
        BY ONLY <4>2, <4>3
    <3>2. /\ g[c + 5].mt = c + 6
          /\ rawgetfield(g, c + 5, "__class") = nil
          /\ rawgetfield(g, c, "identity") # nil
          /\ rawgetfield(g, c, "__propget") = Table(c + 1)
          /\ rawgetfield(g, c, "__propset") = nil
          /\ rawgetfield(g, c, "__const") = nil
          /\ rawgetfield(g, c + 2, "identity") # nil
          /\ rawgetfield(g, c + 2, "__propget") = Table(c + 3)
          /\ rawgetfield(g, c + 2, "__propset") = Table(c + 4)
          /\ rawgetfield(g, c + 2, "__const") = Table(c)
          /\ rawgetfield(g, c + 6, "__propget") = Table(c + 7)
          /\ rawgetfield(g, c + 6, "__propset") = Table(c + 8)
          /\ U = NoClass => /\ rawgetfield(g, c, "__parent") = nil
                            /\ rawgetfield(g, c + 2, "__parent") = nil
                            /\ rawgetfield(g, c + 6, "__parent") = nil
          /\ U # NoClass => /\ rawgetfield(g, c, "__parent") = Table(reg[U].const)
                            /\ rawgetfield(g, c + 2, "__parent") = Table(reg[U].class)
                            /\ rawgetfield(g, c + 6, "__parent") = Table(reg[U].static)
      BY <1>3, Zenon DEF Made
    <3>3. bas2[C] = U /\ At(reg2, C) = c
      BY <1>7, <1>8, <2>2
    <3> QED
      BY ONLY <3>1, <3>2, <3>3, Zenon DEF Wired
  <2> QED
    BY <2>1, <2>2
<1>17. ASSUME NEW C \in Classes, IsReg(reg2, C) PROVE Stocked(g, reg2, lg, C)
  <2>1. CASE C # T
    <3>1. IsReg(reg, C) /\ At(reg2, C) = At(reg, C) /\ Stocked(h, reg, lg, C)
      BY <1>1, <1>9, <1>17, <2>1
    <3>2. \A o \in Slots : At(reg, C) + o \in 1..Len(h)
      <4>1. \A o \in Slots : o \in 0..8
        BY DEF Slots
      <4>2. \A o \in 0..8 : At(reg, C) + o \in 1..Len(h)
        BY <1>1, <1>2, <3>1, BlockInHeap
      <4> QED
        BY ONLY <4>1, <4>2
    <3>3. \A u \in 1..Len(h) : \A x \in Members : rawgetfield(g, u, x) = rawgetfield(h, u, x)
      BY <1>10, <1>13
    <3> QED
      BY ONLY <3>1, <3>2, <3>3 DEF Stocked
  <2>2. CASE C = T
    <3>1. \A o \in Slots : \A x \in Members : rawgetfield(g, c + o, x) = nil
      BY <1>3, Zenon DEF Made
    <3>2. \A o, x : Holders(lg, T, x, o) = {}
      <4>1. \A n \in DOMAIN lg : lg[n].cls # T
        BY <1>1, NamesApart
      <4> QED
        BY <4>1 DEF Holders
    <3> QED
      BY <1>8, <2>2, <3>1, <3>2 DEF Stocked, Want
  <2> QED
    BY <2>1, <2>2
<1>18. ASSUME NEW u \in 1..Len(g), HasTable(g, u, "__parent")
       PROVE  \E C \in Classes, o \in {0, 2, 6} : IsReg(reg2, C) /\ bas2[C] # NoClass /\ u = At(reg2, C) + o
  <2>1. CASE u \in 1..Len(h)
    <3>1. HasTable(h, u, "__parent")
      <4>1. rawgetfield(g, u, "__parent") = rawgetfield(h, u, "__parent")
        BY <1>14, <2>1 DEF SameFixed, Fixed
      <4> QED
        BY <1>18, <4>1 DEF HasTable
    <3>2. PICK C \in Classes, o \in {0, 2, 6} : IsReg(reg, C) /\ bas[C] # NoClass /\ u = At(reg, C) + o
      BY <2>1, <3>1 DEF HeapInv, ParentsKnown
    <3>3. IsReg(reg2, C) /\ bas2[C] = bas[C] /\ At(reg2, C) = At(reg, C)
      BY <1>7, <1>9, <1>9a, <3>2
    <3> QED
      BY <3>2, <3>3
  <2>2. CASE u \notin 1..Len(h)
    <3>1. u = c \/ u \in {c + 2, c + 6} \/ \E o \in {1, 3, 4, 5, 7, 8} : u = c + o
      <4>1. u \in {c + 0, c + 1, c + 2, c + 3, c + 4, c + 5, c + 6, c + 7, c + 8} /\ c + 0 = c
        BY <1>2, <1>3, <1>10, <2>2
      <4> QED
        BY ONLY <4>1
    <3>2. \A o \in {1, 3, 4, 5, 7, 8} : rawgetfield(g, c + o, "__parent") = nil
      BY <1>3, Zenon DEF Made
    <3>3. U = NoClass => /\ rawgetfield(g, c, "__parent") = nil
                         /\ rawgetfield(g, c + 2, "__parent") = nil
                         /\ rawgetfield(g, c + 6, "__parent") = nil
      BY <1>3, Zenon DEF Made
    <3>4. nil.k # "table"
      BY Values
    <3>5. u \in {c, c + 2, c + 6} /\ U # NoClass
      BY ONLY <1>18, <3>1, <3>2, <3>3, <3>4 DEF HasTable
    <3>6. \E o \in {0, 2, 6} : u = c + o
      BY ONLY <1>4, <3>5
    <3> QED
      BY <1>7, <1>8, <3>5, <3>6
  <2> QED
    BY <2>1, <2>2
<1>19. ParentsKnown(g, reg2, bas2)
  BY <1>18 DEF ParentsKnown
<1> QED
  BY <1>1, <1>10, <1>11, <1>12, <1>15, <1>16, <1>17, <1>19 DEF HeapInv

(* A namespace s in the namespace ns. *)
LEMMA SpaceKeeps ==
    ASSUME NEW h, NEW reg, NEW bas, NEW lg, NEW spaces, HeapInv(h, reg, bas, lg, spaces),
           \A C \in Classes : bas[C] = NoClass \/ (bas[C] \in Classes /\ IsReg(reg, C) /\ IsReg(reg, bas[C])),
           NEW ns \in spaces, NEW s \in Spaces, NEW t, t = Len(h) + 1, NEW g,
           g = rawsetfield(h \o <<[mt |-> t, f |-> [__propget |-> Table(t + 1), __propset |-> Table(t + 2)]],
                                 NewTable, NewTable>>, ns, s, Table(t))
    PROVE  HeapInv(g, reg, bas, lg, spaces \cup {t})
<1>1. /\ IsHeap(h) /\ IsRegistry(Len(h), reg) /\ IsLog(lg)
      /\ \A n \in DOMAIN lg : lg[n].cls = NoClass \/ (lg[n].cls \in Classes /\ IsReg(reg, lg[n].cls))
      /\ 1 \in spaces
      /\ \A n \in spaces : IsSpace(h, reg, spaces, n)
      /\ \A C \in Classes : IsReg(reg, C) => Wired(h, reg, bas, C) /\ Stocked(h, reg, lg, C)
  BY DEF HeapInv
<1>2. Len(h) \in Nat
  BY <1>1 DEF IsHeap
<1>3. PICK f : f = [__propget |-> Table(t + 1), __propset |-> Table(t + 2)]
  OBVIOUS
<1>4. PICK b : b = <<[mt |-> t, f |-> f], NewTable, NewTable>>
  OBVIOUS
<1>5. PICK k : k = h \o b
  OBVIOUS
<1>6. g = rawsetfield(k, ns, s, Table(t))
  BY <1>3, <1>4, <1>5
<1>7. b \in Seq({b[1], b[2]}) /\ Len(b) = 3 /\ b[1] = [mt |-> t, f |-> f] /\ b[2] = NewTable /\ b[3] = NewTable
  BY ONLY <1>4
<1>8. DOMAIN f = {"__propget", "__propset"} /\ f["__propget"] = Table(t + 1) /\ f["__propset"] = Table(t + 2)
  BY ONLY <1>3
<1>9. \A i \in 1..Len(b) : IsTable(b[i], Len(h) + Len(b))
  <2>1. IsRef(Table(t + 1), Len(h) + Len(b)) /\ IsRef(Table(t + 2), Len(h) + Len(b))
    <3>1. t + 1 \in 1..(Len(h) + Len(b)) /\ t + 2 \in 1..(Len(h) + Len(b))
      BY <1>2, <1>7
    <3> QED
      BY ONLY <3>1, References
  <2>2. IsTable(b[1], Len(h) + Len(b))
    BY <1>7, <1>8, <2>1 DEF IsTable
  <2>3. IsTable(NewTable, Len(h) + Len(b))
    BY NewTableIsTable
  <2> QED
    BY <1>7, <2>2, <2>3
<1>10. Grows(h, k, b)
  BY <1>1, <1>5, <1>7, <1>9, MoreTables
<1>11. Kept(h, k)
  BY <1>10, GrowsKeeps
<1>12. IsHeap(k) /\ Len(k) = Len(h) + 3 /\ k[t] = b[1]
  <2>1. IsHeap(k) /\ Len(k) = Len(h) + Len(b) /\ \A i \in 1..Len(b) : k[Len(h) + i] = b[i]
    BY <1>10 DEF Grows
  <2>2. 1 \in 1..Len(b)
    BY <1>7
  <2> QED
    BY <1>7, <2>1, <2>2
<1>13. \A x : rawgetfield(k, t, x) = IF x \in DOMAIN f THEN f[x] ELSE nil
  <2>1. k[t] = [mt |-> t, f |-> f]
    BY ONLY <1>7, <1>12, Zenon
  <2> QED
    BY ONLY <2>1, NewFields
<1>14. ns \in 1..Len(h) /\ 1 \in 1..Len(h)
  BY <1>1 DEF IsSpace
<1>15. Sets(k, g, ns, s, Table(t))
  <2>0. t \in 1..Len(k) /\ ns \in 1..Len(k)
    BY ONLY <1>2, <1>12, <1>14, t = Len(h) + 1
  <2>1. ns \in 1..Len(k) /\ Table(t) # nil /\ IsRef(Table(t), Len(k))
    BY ONLY <2>0, References
  <2> QED
    BY <1>6, <1>12, <2>1, SetField
<1>16. /\ IsHeap(g) /\ Len(g) = Len(h) + 3
       /\ \A u \in 1..Len(h) : g[u].mt = h[u].mt
       /\ \A u \in 1..Len(h) : \A x :
            rawgetfield(g, u, x) = IF u = ns /\ x = s THEN Table(t) ELSE rawgetfield(h, u, x)
  <2>1. \A u \in 1..Len(h) : u \in 1..Len(k)
    BY <1>2, <1>12
  <2>2. IsHeap(g) /\ Len(g) = Len(k)
    BY <1>15 DEF Sets
  <2>3. ASSUME NEW u \in 1..Len(h)
        PROVE  /\ g[u].mt = k[u].mt
               /\ \A x : rawgetfield(g, u, x) = IF u = ns /\ x = s THEN Table(t) ELSE rawgetfield(k, u, x)
    BY ONLY <1>15, <2>1, u \in 1..Len(h) DEF Sets
  <2>4. ASSUME NEW u \in 1..Len(h)
        PROVE  k[u].mt = h[u].mt /\ \A x : rawgetfield(k, u, x) = rawgetfield(h, u, x)
    BY ONLY <1>11, u \in 1..Len(h) DEF Kept
  <2>5. IsHeap(g) /\ Len(g) = Len(h) + 3
    BY ONLY <1>12, <2>2
  <2>6. \A u \in 1..Len(h) : g[u].mt = h[u].mt
    BY ONLY <2>3, <2>4
  <2>7. ASSUME NEW u \in 1..Len(h), NEW x
        PROVE  rawgetfield(g, u, x) = IF u = ns /\ x = s THEN Table(t) ELSE rawgetfield(h, u, x)
    BY ONLY <2>3, <2>4, u \in 1..Len(h)
  <2> QED
    BY ONLY <2>5, <2>6, <2>7
<1>17. \A x : rawgetfield(g, t, x) = IF x \in DOMAIN f THEN f[x] ELSE nil
  <2>1. t \in 1..Len(k) /\ t # ns
    BY <1>2, <1>12, <1>14
  <2> QED
    BY <1>13, <1>15, <2>1 DEF Sets
<1>18. s \notin Fixed /\ s \notin Classes
  BY NamesApart
<1>19. \A u \in 1..Len(h) : SameFixed(h, g, u)
  BY <1>16, <1>18 DEF SameFixed
<1>20. IsRegistry(Len(g), reg)
  <2>1. \A C \in Classes : At(reg, C) \in 2..(Len(h) - 8) => At(reg, C) \in 2..(Len(g) - 8)
    BY <1>2, <1>16
  <2> QED
    BY <1>1, <2>1, Zenon DEF IsRegistry
<1>21. ASSUME NEW n \in spaces PROVE IsSpace(g, reg, spaces \cup {t}, n)
  <2>1. IsSpace(h, reg, spaces, n)
    BY <1>1
  <2>2. n \in 1..Len(h) /\ EndOf(n) <= Len(h)
    BY <2>1 DEF IsSpace
  <2>3. n \in 1..Len(g) /\ EndOf(n) <= Len(g)
    BY <1>2, <1>16, <2>2 DEF EndOf
  <2>4. /\ n = 1 => rawgetfield(g, 1, "__propget") = nil
        /\ n # 1 => /\ rawgetfield(g, n, "__propget") = Table(n + 1)
                    /\ rawgetfield(g, n, "__propset") = Table(n + 2)
    <3>1. SameFixed(h, g, n)
      BY <1>19, <2>2
    <3> QED
      BY <2>1, <3>1 DEF IsSpace, SameFixed, Fixed
  <2>5. \A C \in Classes :
          rawgetfield(g, n, C) # nil => IsReg(reg, C) /\ rawgetfield(g, n, C) = Table(At(reg, C) + 5)
    <3>1. \A C \in Classes : rawgetfield(g, n, C) = rawgetfield(h, n, C)
      BY <1>16, <1>18, <2>2
    <3> QED
      BY <2>1, <3>1 DEF IsSpace
  <2>6. \A y \in Spaces : HasTable(g, n, y) => Field(g, n, y) \in spaces \cup {t}
    <3>1. \A y \in Spaces : rawgetfield(g, n, y) = Table(t) \/ rawgetfield(g, n, y) = rawgetfield(h, n, y)
      BY <1>16, <2>2
    <3> QED
      BY <2>1, <3>1 DEF IsSpace, HasTable, Field, Table
  <2> QED
    BY <2>1, <2>3, <2>4, <2>5, <2>6 DEF IsSpace
<1>22. IsSpace(g, reg, spaces \cup {t}, t)
  <2>1. t \in 1..Len(g) /\ EndOf(t) <= Len(g) /\ t # 1
    BY <1>2, <1>14, <1>16 DEF EndOf
  <2>2. rawgetfield(g, t, "__propget") = Table(t + 1) /\ rawgetfield(g, t, "__propset") = Table(t + 2)
    BY <1>8, <1>17
  <2>3. \A x : x \notin Fixed => rawgetfield(g, t, x) = nil
    BY <1>8, <1>17 DEF Fixed
  <2>4. \A C \in Classes : rawgetfield(g, t, C) = nil
    BY <2>3, NamesApart
  <2>5. \A y \in Spaces : ~HasTable(g, t, y)
    BY <2>3, NamesApart, Values DEF HasTable
  <2>6. \A C \in Classes : IsReg(reg, C) => At(reg, C) + 8 < t
    <3>1. SUFFICES ASSUME NEW C \in Classes, IsReg(reg, C) PROVE At(reg, C) + 8 < t
      OBVIOUS
    <3>2. At(reg, C) \in Nat /\ At(reg, C) + 8 <= Len(h)
      BY <1>1, <1>2, <3>1, BlockInHeap
    <3> QED
      BY <1>2, <3>2
  <2> QED
    BY <2>1, <2>2, <2>4, <2>5, <2>6 DEF IsSpace
<1>23. ASSUME NEW C \in Classes, IsReg(reg, C) PROVE Wired(g, reg, bas, C)
  BY <1>1, <1>2, <1>19, <1>23, WiredStays
<1>24. ASSUME NEW C \in Classes, IsReg(reg, C) PROVE Stocked(g, reg, lg, C)
  <2>1. Stocked(h, reg, lg, C)
    BY <1>1, <1>24
  <2>2. PICK c : c = At(reg, C)
    OBVIOUS
  <2>3. c \in Nat /\ c + 8 <= Len(h) /\ c >= 2
    BY <1>1, <1>2, <1>24, <2>2, BlockInHeap
  <2>4. EndOf(ns) < c \/ c + 8 < ns
    BY <1>1, <1>24, <2>2 DEF IsSpace
  <2>5. \A o \in Slots : c + o \in 1..Len(h) /\ c + o # ns
    BY <1>2, <1>14, <2>3, <2>4 DEF EndOf, Slots
  <2>6. \A o \in Slots : \A x : rawgetfield(g, c + o, x) = rawgetfield(h, c + o, x)
    BY <1>16, <2>5, SMTT(60)
  <2> QED
    BY ONLY <2>1, <2>2, <2>6 DEF Stocked
<1>25. ASSUME NEW u \in 1..Len(g), HasTable(g, u, "__parent")
       PROVE  u \in 1..Len(h) /\ HasTable(h, u, "__parent")
  <2>1. CASE u \in 1..Len(h)
    <3>1. rawgetfield(g, u, "__parent") = rawgetfield(h, u, "__parent")
      BY <1>19, <2>1 DEF SameFixed, Fixed
    <3> QED
      BY <1>25, <2>1, <3>1 DEF HasTable
  <2>2. CASE u \notin 1..Len(h)
    <3>1. u \in {t, t + 1, t + 2} /\ u # ns /\ u \in 1..Len(k)
      <4>1. Len(g) = Len(h) + 3 /\ Len(k) = Len(h) + 3
        BY <1>12, <1>16
      <4> QED
        BY ONLY <1>2, <1>14, <2>2, <4>1, t = Len(h) + 1, u \in 1..Len(g)
    <3>2. k[t + 1] = NewTable /\ k[t + 2] = NewTable
      <4>1. Len(b) = 3 /\ \A i \in 1..Len(b) : k[Len(h) + i] = b[i]
        BY <1>7, <1>10 DEF Grows
      <4>2. t + 1 = Len(h) + 2 /\ t + 2 = Len(h) + 3 /\ 2 \in 1..Len(b) /\ 3 \in 1..Len(b)
        BY <1>2, <4>1
      <4> QED
        BY <1>7, <4>1, <4>2
    <3>3. Blank(k, t + 1) /\ Blank(k, t + 2)
      BY <3>2, NewTableIsBlank
    <3>4. rawgetfield(k, t, "__parent") = nil
      BY <1>8, <1>13
    <3>5. rawgetfield(k, u, "__parent") = nil
      BY <3>1, <3>3, <3>4 DEF Blank
    <3>6. rawgetfield(g, u, "__parent") = nil
      BY <1>15, <3>1, <3>5 DEF Sets
    <3> QED
      BY <1>25, <3>6, Values DEF HasTable
  <2> QED
    BY <2>1, <2>2
<1>26. ParentsKnown(g, reg, bas)
  BY <1>25 DEF HeapInv, ParentsKnown
<1> QED
  BY <1>1, <1>16, <1>20, <1>21, <1>22, <1>23, <1>24, <1>26 DEF HeapInv

-----------------------------------------------------------------------------
(* Bases *)

LEMMA ConsFacts ==
    ASSUME NEW S, NEW a \in S, NEW q \in Seq(S)
    PROVE  /\ <<a>> \o q \in Seq(S) /\ Len(<<a>> \o q) = Len(q) + 1 /\ Len(q) \in Nat
           /\ (<<a>> \o q)[1] = a
           /\ \A i \in 1..Len(q) : (<<a>> \o q)[i + 1] = q[i]
<1>1. <<a>> \in Seq(S) /\ Len(<<a>>) = 1 /\ <<a>>[1] = a /\ Len(q) \in Nat
  BY LenProperties
<1>2. PICK p : p = <<a>> \o q
  OBVIOUS
<1>3. /\ p \in Seq(S) /\ Len(p) = Len(<<a>>) + Len(q)
      /\ \A i \in 1..(Len(<<a>>) + Len(q)) : p[i] = IF i <= Len(<<a>>) THEN <<a>>[i] ELSE q[i - Len(<<a>>)]
  BY <1>1, <1>2, ConcatProperties
<1>4. /\ Len(p) = 1 + Len(q)
      /\ \A i \in 1..(1 + Len(q)) : p[i] = IF i <= 1 THEN <<a>>[i] ELSE q[i - 1]
  BY <1>1, <1>3
<1>5. p[1] = a
  BY <1>1, <1>4
<1>6. \A i \in 1..Len(q) : p[i + 1] = q[i]
  BY <1>1, <1>4
<1> QED
  BY <1>1, <1>2, <1>3, <1>4, <1>5, <1>6

LEMMA FamilyGrows ==
    ASSUME NEW reg, NEW bas, NEW anc, Family(reg, bas, anc),
           NEW T \in Classes, ~IsReg(reg, T), NEW U, U = NoClass \/ (U \in Classes /\ IsReg(reg, U)),
           NEW reg2, IsReg(reg2, T), \A C \in Classes : C # T => (IsReg(reg2, C) <=> IsReg(reg, C)),
           NEW bas2, bas2 = [bas EXCEPT ![T] = U]
    PROVE  \E anc2 : Family(reg2, bas2, anc2)
<1>0. bas = [C \in Classes |-> bas[C]]
  BY DEF Family
<1>1. \A C \in Classes : Lineage(reg, bas, anc, C)
  BY DEF Family
<1>1a. \A C \in Classes :
        /\ bas[C] = NoClass \/ (bas[C] \in Classes /\ IsReg(reg, C) /\ IsReg(reg, bas[C]))
        /\ anc[C] = IF bas[C] = NoClass THEN <<C>> ELSE <<C>> \o anc[bas[C]]
        /\ anc[C][1] = C
  BY <1>1 DEF Lineage
<1>2. /\ bas2 = [C \in Classes |-> bas2[C]] /\ bas2[T] = U
      /\ \A C \in Classes : C # T => bas2[C] = bas[C]
  <2>1. bas2 = [C \in Classes |-> IF C = T THEN U ELSE bas[C]]
    BY <1>0, Zenon
  <2> QED
    BY <2>1
<1>3. PICK q : q = IF U = NoClass THEN <<T>> ELSE <<T>> \o anc[U]
  OBVIOUS
<1>4. PICK anc2 : anc2 = [C \in Classes |-> IF C = T THEN q ELSE anc[C]]
  OBVIOUS
<1>5. anc2[T] = q /\ \A C \in Classes : C # T => anc2[C] = anc[C]
  BY <1>4
<1>6. U # T /\ T # NoClass
  BY NamesApart
(* T is no base of another class. *)
<1>7. ASSUME NEW C \in Classes, C # T, NEW i \in 1..Len(anc[C]) PROVE anc[C][i] \in Classes /\ anc[C][i] # T
  <2>0. Lineage(reg, bas, anc, C)
    BY <1>1
  <2>1. anc[C] \in Seq(Classes)
    BY <2>0 DEF Lineage
  <2>2. anc[C][i] \in Classes
    BY <2>1, ElementOfSeq
  <2>3. CASE IsReg(reg, C)
    <3>1. IsReg(reg, anc[C][i])
      BY <2>0, <2>3 DEF Lineage
    <3> QED
      BY <2>2, <3>1
  <2>4. CASE ~IsReg(reg, C)
    <3>1. anc[C] = <<C>>
      BY <1>1a, <2>4
    <3>2. i = 1
      BY <3>1
    <3> QED
      BY <1>1a, <1>7, <3>2
  <2> QED
    BY <2>2, <2>3, <2>4
<1>8. ASSUME NEW C \in Classes, C # T PROVE Lineage(reg2, bas2, anc2, C)
  <2>0. Lineage(reg, bas, anc, C)
    BY <1>1
  <2>1. anc2[C] = anc[C] /\ bas2[C] = bas[C]
    BY <1>2, <1>5, <1>8
  <2>2. bas[C] = NoClass \/ (bas[C] \in Classes /\ IsReg(reg, C) /\ IsReg(reg, bas[C]) /\ bas[C] # T)
    BY <1>1a
  <2>3. bas2[C] = NoClass \/ (bas2[C] \in Classes /\ IsReg(reg2, C) /\ IsReg(reg2, bas2[C]))
    BY <1>8, <2>1, <2>2
  <2>4. anc2[C] = IF bas2[C] = NoClass THEN <<C>> ELSE <<C>> \o anc2[bas2[C]]
    <3>1. bas[C] # NoClass => anc2[bas[C]] = anc[bas[C]]
      BY <1>5, <2>2
    <3>2. anc[C] = IF bas[C] = NoClass THEN <<C>> ELSE <<C>> \o anc[bas[C]]
      BY <1>1a
    <3> QED
      BY ONLY <2>1, <3>1, <3>2
  <2>5. anc[C] \in Seq(Classes) /\ Len(anc[C]) \in Nat /\ Len(anc[C]) >= 1
    BY <2>0, LenProperties DEF Lineage
  <2>6. ASSUME NEW i \in 1..Len(anc[C]) PROVE bas2[anc[C][i]] = bas[anc[C][i]]
    BY <1>2, <1>7, <1>8
  <2>7. \A i \in 1..(Len(anc[C]) - 1) : bas2[anc[C][i]] = anc[C][i + 1]
    <3>1. \A i \in 1..(Len(anc[C]) - 1) : i \in 1..Len(anc[C])
      BY <2>5
    <3>2. \A i \in 1..(Len(anc[C]) - 1) : bas[anc[C][i]] = anc[C][i + 1]
      BY <2>0 DEF Lineage
    <3> QED
      BY ONLY <2>6, <3>1, <3>2
  <2>8. bas2[anc[C][Len(anc[C])]] = NoClass
    <3>1. Len(anc[C]) \in 1..Len(anc[C])
      BY <2>5
    <3> QED
      BY <2>0, <2>6, <3>1 DEF Lineage
  <2>9. IsReg(reg2, C) => \A i \in 1..Len(anc[C]) : IsReg(reg2, anc[C][i])
    BY <2>0, <1>7, <1>8 DEF Lineage
  <2>10. anc[C][1] = C /\ \A i, j \in 1..Len(anc[C]) : i # j => anc[C][i] # anc[C][j]
    BY <2>0 DEF Lineage
  <2> QED
    BY ONLY <2>1, <2>3, <2>4, <2>5, <2>7, <2>8, <2>9, <2>10 DEF Lineage
<1>9. /\ bas2[T] = NoClass \/ (bas2[T] \in Classes /\ IsReg(reg2, T) /\ IsReg(reg2, bas2[T]))
      /\ q \in Seq(Classes) /\ Len(q) >= 1 /\ q[1] = T
      /\ q = IF bas2[T] = NoClass THEN <<T>> ELSE <<T>> \o anc2[bas2[T]]
      /\ \A i \in 1..(Len(q) - 1) : bas2[q[i]] = q[i + 1]
      /\ bas2[q[Len(q)]] = NoClass
      /\ \A i, j \in 1..Len(q) : i # j => q[i] # q[j]
      /\ \A i \in 1..Len(q) : IsReg(reg2, q[i])
  <2>1. CASE U = NoClass
    <3>1. q = <<T>>
      BY <1>3, <2>1
    <3>2. q \in Seq(Classes) /\ Len(q) = 1 /\ q[1] = T
      BY <3>1
    <3>3. bas2[T] = NoClass
      BY <1>2, <2>1
    <3>4. \A i \in 1..Len(q) : i = 1
      BY <3>2
    <3>5. \A i \in 1..(Len(q) - 1) : FALSE
      BY <3>2
    <3> QED
      BY <3>1, <3>2, <3>3, <3>4, <3>5
  <2>2. CASE U # NoClass
    <3>1. U \in Classes /\ IsReg(reg, U) /\ q = <<T>> \o anc[U]
      BY <1>3, <2>2
    <3>2. PICK p : p = anc[U]
      OBVIOUS
    <3>3. /\ p \in Seq(Classes) /\ Len(p) >= 1 /\ p[1] = U
          /\ \A i \in 1..(Len(p) - 1) : bas[p[i]] = p[i + 1]
          /\ bas[p[Len(p)]] = NoClass
          /\ \A i, j \in 1..Len(p) : i # j => p[i] # p[j]
          /\ \A i \in 1..Len(p) : IsReg(reg, p[i])
      <4>1. Lineage(reg, bas, anc, U)
        BY <1>1, <3>1
      <4> QED
        BY ONLY <3>1, <3>2, <4>1 DEF Lineage
    <3>4. /\ q \in Seq(Classes) /\ Len(q) = Len(p) + 1 /\ Len(p) \in Nat
          /\ q[1] = T
          /\ \A i \in 1..Len(p) : q[i + 1] = p[i]
      BY <3>1, <3>2, <3>3, ConsFacts
    <3>5. \A i \in 1..Len(p) : p[i] \in Classes /\ p[i] # T /\ bas2[p[i]] = bas[p[i]]
      BY <1>2, <1>6, <1>7, <3>1, <3>2
    <3>6. \A i \in 2..Len(q) : i - 1 \in 1..Len(p) /\ q[i] = p[i - 1]
      <4>1. SUFFICES ASSUME NEW i \in 2..Len(q) PROVE i - 1 \in 1..Len(p) /\ q[i] = p[i - 1]
        OBVIOUS
      <4>2. i - 1 \in 1..Len(p) /\ i - 1 + 1 = i
        BY <3>4
      <4> QED
        BY <3>4, <4>2
    <3>7. bas2[T] \in Classes /\ IsReg(reg2, bas2[T]) /\ anc2[bas2[T]] = p
      BY <1>2, <1>5, <1>6, <3>1, <3>2
    <3>8. q = IF bas2[T] = NoClass THEN <<T>> ELSE <<T>> \o anc2[bas2[T]]
      BY <1>2, <2>2, <3>1, <3>2, <3>7
    <3>9. ASSUME NEW i \in 1..(Len(q) - 1) PROVE bas2[q[i]] = q[i + 1]
      <4>1. i \in 1..Len(p)
        BY <3>4
      <4>2. q[i + 1] = p[i]
        BY <3>4, <4>1
      <4>3. CASE i = 1
        BY <1>2, <3>3, <3>4, <4>2, <4>3
      <4>4. CASE i # 1
        <5>1. i - 1 \in 1..(Len(p) - 1) /\ i \in 2..Len(q) /\ i - 1 + 1 = i /\ i - 1 \in 1..Len(p)
          BY <3>4, <4>1, <4>4
        <5>2. q[i] = p[i - 1] /\ bas[p[i - 1]] = p[i]
          BY <3>3, <3>6, <5>1
        <5> QED
          BY <3>5, <4>2, <5>1, <5>2
      <4> QED
        BY <4>3, <4>4
    <3>10. bas2[q[Len(q)]] = NoClass
      <4>1. Len(q) = Len(p) + 1 /\ Len(p) \in 1..Len(p)
        BY <3>3, <3>4
      <4>2. q[Len(q)] = p[Len(p)]
        BY <3>4, <4>1
      <4> QED
        BY <3>3, <3>5, <4>1, <4>2
    <3>11. ASSUME NEW i \in 1..Len(q), NEW j \in 1..Len(q), i < j PROVE q[i] # q[j]
      <4>1. j \in 2..Len(q) /\ (i # 1 => i \in 2..Len(q))
        BY <3>4, <3>11
      <4>2. q[j] = p[j - 1] /\ j - 1 \in 1..Len(p)
        BY <3>6, <4>1
      <4>3. CASE i = 1
        BY <3>4, <3>5, <4>2, <4>3
      <4>4. CASE i # 1
        <5>1. q[i] = p[i - 1] /\ i - 1 \in 1..Len(p) /\ i - 1 # j - 1
          BY <3>6, <3>11, <4>1, <4>4
        <5> QED
          BY <3>3, <4>2, <5>1
      <4> QED
        BY <4>3, <4>4
    <3>12. \A i, j \in 1..Len(q) : i # j => q[i] # q[j]
      <4>1. \A i, j \in 1..Len(q) : i # j => i < j \/ j < i
        OBVIOUS
      <4> QED
        BY <3>11, <4>1
    <3>13. ASSUME NEW i \in 1..Len(q) PROVE IsReg(reg2, q[i])
      <4>1. CASE i = 1
        BY <3>4, <4>1
      <4>2. CASE i # 1
        <5>1. i \in 2..Len(q)
          BY <3>4, <4>2
        <5> QED
          BY <3>3, <3>5, <3>6, <5>1
      <4> QED
        BY <4>1, <4>2
    <3>14. Len(q) >= 1
      BY <3>4
    <3> QED
      BY ONLY <3>4, <3>7, <3>8, <3>9, <3>10, <3>12, <3>13, <3>14, IsReg(reg2, T)
  <2> QED
    BY <2>1, <2>2
<1>10. Lineage(reg2, bas2, anc2, T)
  <2>1. anc2[T] = q
    BY <1>5
  <2>2. anc2[T] \in Seq(Classes) /\ Len(anc2[T]) >= 1 /\ anc2[T][1] = T
    BY ONLY <1>9, <2>1
  <2>3. anc2[T] = IF bas2[T] = NoClass THEN <<T>> ELSE <<T>> \o anc2[bas2[T]]
    BY ONLY <1>9, <2>1
  <2>4. \A i \in 1..(Len(anc2[T]) - 1) : bas2[anc2[T][i]] = anc2[T][i + 1]
    BY ONLY <1>9, <2>1
  <2>5. bas2[anc2[T][Len(anc2[T])]] = NoClass
    BY ONLY <1>9, <2>1
  <2>6. \A i, j \in 1..Len(anc2[T]) : i # j => anc2[T][i] # anc2[T][j]
    BY ONLY <1>9, <2>1
  <2>7. IsReg(reg2, T) => \A i \in 1..Len(anc2[T]) : IsReg(reg2, anc2[T][i])
    BY ONLY <1>9, <2>1
  <2> QED
    BY ONLY <1>9, <2>2, <2>3, <2>4, <2>5, <2>6, <2>7, Zenon DEF Lineage
<1>11. Family(reg2, bas2, anc2)
  BY <1>2, <1>8, <1>10 DEF Family
<1> QED
  BY <1>11

-----------------------------------------------------------------------------
(* Members *)

(* g differs from h in functions that have the name of a member. *)
Quiet(h, g) ==
    /\ IsHeap(g) /\ Len(g) = Len(h)
    /\ \A u \in 1..Len(h) :
        /\ SameFixed(h, g, u) /\ NoNewTables(h, g, u)
        /\ \A x \in Classes : rawgetfield(g, u, x) = rawgetfield(h, u, x)

LEMMA QuietTwice ==
    ASSUME NEW h, NEW g, NEW k, Quiet(h, g), Quiet(g, k)
    PROVE  Quiet(h, k)
<1>1. IsHeap(k) /\ Len(k) = Len(h)
  BY DEF Quiet
<1>2. ASSUME NEW u \in 1..Len(h)
      PROVE  /\ SameFixed(h, k, u) /\ NoNewTables(h, k, u)
             /\ \A x \in Classes : rawgetfield(k, u, x) = rawgetfield(h, u, x)
  <2>1. /\ SameFixed(h, g, u) /\ NoNewTables(h, g, u)
        /\ \A x \in Classes : rawgetfield(g, u, x) = rawgetfield(h, u, x)
    BY DEF Quiet
  <2>2. /\ SameFixed(g, k, u) /\ NoNewTables(g, k, u)
        /\ \A x \in Classes : rawgetfield(k, u, x) = rawgetfield(g, u, x)
    <3>1. u \in 1..Len(g)
      BY DEF Quiet
    <3> QED
      BY <3>1 DEF Quiet
  <2> QED
    BY ONLY <2>1, <2>2 DEF SameFixed, NoNewTables
<1> QED
  BY <1>1, <1>2 DEF Quiet

Names == Members \cup {"__call"}

LEMMA Put ==
    ASSUME NEW h, IsHeap(h), NEW t \in 1..Len(h), NEW name \in Names, NEW v, v.k = "fn",
           NEW g, g = rawsetfield(h, t, name, v)
    PROVE  Sets(h, g, t, name, v) /\ Quiet(h, g)
<1>1. v # nil /\ v.k # "table" /\ IsRef(v, Len(h))
  BY DEF nil, IsRef
<1>2. Sets(h, g, t, name, v)
  BY <1>1, SetField
<1>3. name \notin Fixed /\ name \notin Classes
  BY NamesApart DEF Names
<1>4. ASSUME NEW u \in 1..Len(h)
      PROVE  /\ SameFixed(h, g, u) /\ NoNewTables(h, g, u)
             /\ \A x \in Classes : rawgetfield(g, u, x) = rawgetfield(h, u, x)
  BY <1>1, <1>2, <1>3 DEF Sets, SameFixed, NoNewTables, HasTable, Field
<1> QED
  BY <1>2, <1>4 DEF Sets, Quiet

LEMMA PutIn ==
    ASSUME NEW h, IsHeap(h), NEW t, NEW sub, NEW i \in 1..Len(h), rawgetfield(h, t, sub) = Table(i),
           NEW name \in Names, NEW v, v.k = "fn", NEW g, g = SetIn(h, t, sub, name, v)
    PROVE  Sets(h, g, i, name, v) /\ Quiet(h, g)
<1>1. Field(h, t, sub) = i
  BY DEF Field, Table
<1>2. g = rawsetfield(h, i, name, v)
  BY <1>1 DEF SetIn
<1> QED
  BY <1>2, Put

(* The function that registration e has put into table o. *)
Added(e, o, n) == [k |-> "fn", op |-> OpIn(e, o), cls |-> e.cls, n |-> n]

(* What a registration has put into the tables at c. *)
Fills(h, g, c, e, n) ==
    \A u \in 1..Len(h) : \A x \in Members :
        rawgetfield(g, u, x) =
            IF x = e.name /\ u - c \in Slots /\ Suits(e, u - c) THEN Added(e, u - c, n)
            ELSE rawgetfield(h, u, x)

LEMMA ClassAdd ==
    ASSUME NEW h, NEW reg, NEW bas, NEW lg, NEW spaces, HeapInv(h, reg, bas, lg, spaces),
           NEW e, e.cls \in Classes, IsReg(reg, e.cls),
           NEW g, Quiet(h, g), Fills(h, g, At(reg, e.cls), e, Len(lg) + 1)
    PROVE  HeapInv(g, reg, bas, Append(lg, e), spaces)
<1>1. /\ IsHeap(h) /\ IsRegistry(Len(h), reg) /\ IsLog(lg)
      /\ \A C \in Classes : IsReg(reg, C) => Stocked(h, reg, lg, C)
  BY DEF HeapInv
<1>2. Len(h) \in Nat
  BY <1>1 DEF IsHeap
<1>3. PICK T, c, n : T = e.cls /\ c = At(reg, T) /\ n = Len(lg) + 1
  OBVIOUS
<1>4. c \in Nat /\ T \in Classes /\ IsReg(reg, T)
  BY <1>1, <1>2, <1>3, BlockInHeap
<1>5. ASSUME NEW C \in Classes, IsReg(reg, C) PROVE Stocked(g, reg, Append(lg, e), C)
  <2>1. PICK d : d = At(reg, C)
    OBVIOUS
  <2>2. d \in Nat /\ \A o \in 0..8 : d + o \in 1..Len(h)
    BY <1>1, <1>2, <1>5, <2>1, BlockInHeap
  <2>3. SUFFICES ASSUME NEW o \in Slots, NEW x \in Members
                 PROVE  rawgetfield(g, d + o, x) = Want(Append(lg, e), C, o, x)
    BY <2>1 DEF Stocked
  <2>4. PICK u : u = d + o
    OBVIOUS
  <2>4a. o \in 0..8 /\ u \in 1..Len(h)
    BY <2>2, <2>4 DEF Slots
  <2>5. rawgetfield(h, u, x) = Want(lg, C, o, x)
    BY <1>1, <1>5, <2>1, <2>4 DEF Stocked
  <2>6. Want(Append(lg, e), C, o, x) =
            IF T = C /\ e.name = x /\ Suits(e, o) THEN [k |-> "fn", op |-> OpIn(e, o), cls |-> C, n |-> n]
            ELSE Want(lg, C, o, x)
    BY <1>1, <1>3, WantNow
  <2>7. rawgetfield(g, u, x) =
            IF x = e.name /\ u - c \in Slots /\ Suits(e, u - c) THEN Added(e, u - c, n)
            ELSE rawgetfield(h, u, x)
    <3>1. Fills(h, g, c, e, n)
      BY <1>3
    <3> QED
      BY ONLY <2>4a, <3>1, x \in Members DEF Fills
  <2>8. rawgetfield(g, u, x) = Want(Append(lg, e), C, o, x)
    <3>1. CASE T = C
      <4>1. u - c = o
        BY <1>3, <1>4, <2>1, <2>4, <2>4a, <3>1
      <4> QED
        BY <1>3, <2>5, <2>6, <2>7, <3>1, <4>1 DEF Added
    <3>2. CASE T # C
      <4>1. c + 8 < d \/ d + 8 < c
        BY <1>1, <1>3, <1>4, <1>5, <2>1, <3>2 DEF IsRegistry
      <4>2. u - c \notin 0..8
        BY <1>4, <2>2, <2>4, <2>4a, <4>1
      <4>3. u - c \notin Slots
        BY <4>2 DEF Slots
      <4> QED
        BY <2>5, <2>6, <2>7, <3>2, <4>3
    <3> QED
      BY <3>1, <3>2
  <2> QED
    BY ONLY <2>4, <2>8
<1>6. /\ IsHeap(g) /\ Len(g) = Len(h)
      /\ \A u \in 1..Len(h) : SameFixed(h, g, u) /\ NoNewTables(h, g, u)
      /\ \A u \in 1..Len(h) : \A x \in Classes : rawgetfield(g, u, x) = rawgetfield(h, u, x)
  BY DEF Quiet
<1> QED
  BY <1>5, <1>6, AddKeeps

(* A registration that leaves the tables of classes alone. *)
LEMMA OtherAdd ==
    ASSUME NEW h, NEW reg, NEW bas, NEW lg, NEW spaces, HeapInv(h, reg, bas, lg, spaces),
           NEW e, e.cls = NoClass \/ (e.cls \in Classes /\ IsReg(reg, e.cls) /\ \A o : ~Suits(e, o)),
           NEW g, Quiet(h, g),
           \A C \in Classes : IsReg(reg, C) => \A o \in Slots : \A x \in Members :
                rawgetfield(g, At(reg, C) + o, x) = rawgetfield(h, At(reg, C) + o, x)
    PROVE  HeapInv(g, reg, bas, Append(lg, e), spaces)
<1>1. IsLog(lg) /\ \A C \in Classes : IsReg(reg, C) => Stocked(h, reg, lg, C)
  BY DEF HeapInv
<1>2. ASSUME NEW C \in Classes, IsReg(reg, C) PROVE Stocked(g, reg, Append(lg, e), C)
  <2>1. \A o, x : ~(e.cls = C /\ e.name = x /\ Suits(e, o))
    BY NamesApart
  <2>2. \A o, x : Want(Append(lg, e), C, o, x) = Want(lg, C, o, x)
    BY <1>1, <2>1, WantNow
  <2> QED
    BY <1>1, <1>2, <2>2 DEF Stocked
<1>3. /\ IsHeap(g) /\ Len(g) = Len(h)
      /\ \A u \in 1..Len(h) : SameFixed(h, g, u) /\ NoNewTables(h, g, u)
      /\ \A u \in 1..Len(h) : \A x \in Classes : rawgetfield(g, u, x) = rawgetfield(h, u, x)
  BY DEF Quiet
<1> QED
  BY <1>2, <1>3, AddKeeps

-----------------------------------------------------------------------------
(* Registering the members of a class *)

(* What a registration of a member needs to know of the class that is open. *)
OpenClassIs(C, c) ==
    /\ C \in Classes /\ IsReg(registry, C) /\ c = At(registry, C)
    /\ ConstTable = c /\ ClassTable = c + 2 /\ StaticTable = c + 6
    /\ IsHeap(heap) /\ Len(heap) \in Nat /\ c \in Nat
    /\ c \in 1..Len(heap) /\ c + 1 \in 1..Len(heap) /\ c + 2 \in 1..Len(heap) /\ c + 3 \in 1..Len(heap)
    /\ c + 4 \in 1..Len(heap) /\ c + 6 \in 1..Len(heap) /\ c + 7 \in 1..Len(heap) /\ c + 8 \in 1..Len(heap)
    /\ rawgetfield(heap, c, "__propget") = Table(c + 1)
    /\ rawgetfield(heap, c + 2, "__propget") = Table(c + 3)
    /\ rawgetfield(heap, c + 2, "__propset") = Table(c + 4)
    /\ rawgetfield(heap, c + 6, "__propget") = Table(c + 7)
    /\ rawgetfield(heap, c + 6, "__propset") = Table(c + 8)

LEMMA ClassIsOpen ==
    ASSUME NEW spaces, NEW anc, Good(spaces, anc), open = "class"
    PROVE  OpenClassIs(cls, At(registry, cls))
<1>1. PICK c : c = At(registry, cls)
  OBVIOUS
<1>2. HeapInv(heap, registry, base, log, spaces) /\ StackInv(registry, stack, size, open, cls, spaces)
  BY DEF Good
<1>3. /\ cls \in Classes /\ IsReg(registry, cls)
      /\ stack[Len(stack) - 2] = c /\ stack[Len(stack) - 1] = c + 2 /\ stack[Len(stack)] = c + 6
  BY <1>1, <1>2 DEF StackInv
<1>4. IsHeap(heap) /\ IsRegistry(Len(heap), registry) /\ Wired(heap, registry, base, cls)
  BY <1>2, <1>3 DEF HeapInv
<1>5. Len(heap) \in Nat
  BY <1>4 DEF IsHeap
<1>6. c \in Nat /\ c >= 2 /\ c + 8 <= Len(heap)
  BY <1>1, <1>3, <1>4, <1>5, BlockInHeap
<1>7. /\ c \in 1..Len(heap) /\ c + 1 \in 1..Len(heap) /\ c + 2 \in 1..Len(heap) /\ c + 3 \in 1..Len(heap)
      /\ c + 4 \in 1..Len(heap) /\ c + 6 \in 1..Len(heap) /\ c + 7 \in 1..Len(heap) /\ c + 8 \in 1..Len(heap)
  BY ONLY <1>5, <1>6
<1>8. /\ rawgetfield(heap, c, "__propget") = Table(c + 1)
      /\ rawgetfield(heap, c + 2, "__propget") = Table(c + 3)
      /\ rawgetfield(heap, c + 2, "__propset") = Table(c + 4)
      /\ rawgetfield(heap, c + 6, "__propget") = Table(c + 7)
      /\ rawgetfield(heap, c + 6, "__propset") = Table(c + 8)
  BY <1>1, <1>4 DEF Wired
<1>9. ConstTable = c /\ ClassTable = c + 2 /\ StaticTable = c + 6
  BY <1>3 DEF ConstTable, ClassTable, StaticTable, Top
<1> QED
  BY <1>1, <1>3, <1>4, <1>5, <1>6, <1>7, <1>8, <1>9 DEF OpenClassIs

Entry(kind, name, access) == [cls |-> cls, kind |-> kind, name |-> name, access |-> access]

LEMMA AddIsSound ==
    ASSUME NEW spaces, NEW anc, Good(spaces, anc), NEW kind, NEW name, NEW access, NEW g,
           HeapInv(g, registry, base, Append(log, Entry(kind, name, access)), spaces),
           Adds(kind, name, access, g)
    PROVE  Sound'
<1>1. /\ heap' = g /\ log' = Append(log, Entry(kind, name, access))
      /\ ~failed /\ UNCHANGED <<registry, stack, size, open, cls, failed, base>>
  BY DEF Adds, Entry
<1>2. HeapInv(heap', registry', base', log', spaces)
  BY <1>1
<1>3. Family(registry', base', anc) /\ StackInv(registry', stack', size', open', cls', spaces)
  BY <1>1 DEF Good
<1> QED
  BY <1>1, <1>2, <1>3 DEF Sound, Good, NoAssertionFails

LEMMA MemberIsSound ==
    ASSUME NEW spaces, NEW anc, Good(spaces, anc), open = "class",
           NEW kind, NEW name, NEW access, NEW g, Quiet(heap, g),
           Fills(heap, g, At(registry, cls), Entry(kind, name, access), Len(log) + 1),
           Adds(kind, name, access, g)
    PROVE  Sound'
<1>1. cls \in Classes /\ IsReg(registry, cls)
  BY ClassIsOpen DEF OpenClassIs
<1>2. HeapInv(heap, registry, base, log, spaces)
  BY DEF Good
<1>3. PICK e : e = Entry(kind, name, access)
  OBVIOUS
<1>4. e.cls = cls
  BY <1>3 DEF Entry
<1>5. HeapInv(g, registry, base, Append(log, e), spaces)
  <2>1. Fills(heap, g, At(registry, e.cls), e, Len(log) + 1)
    BY <1>3, <1>4
  <2> QED
    BY <1>1, <1>2, <1>4, <2>1, ClassAdd
<1> QED
  BY <1>3, <1>5, AddIsSound

LEMMA FnFacts ==
    ASSUME NEW op
    PROVE  Fn(op).k = "fn" /\ Fn(op) = [k |-> "fn", op |-> op, cls |-> cls, n |-> Len(log) + 1]
BY DEF Fn

LEMMA StaticDataSound ==
    ASSUME NEW spaces, NEW anc, Good(spaces, anc), NEW name \in Members, NEW access \in {"rw", "ro"},
           addStaticData(name, access)
    PROVE  Sound'
<1>1. open = "class"
  BY DEF addStaticData
<1>2. PICK c : c = At(registry, cls)
  OBVIOUS
<1>3. OpenClassIs(cls, c)
  BY <1>1, <1>2, ClassIsOpen
<1>4. PICK get, set : get = Fn("call") /\ set = Fn(IF access = "rw" THEN "call" ELSE "readOnlyError")
  OBVIOUS
<1>5. get.k = "fn" /\ set.k = "fn"
  BY <1>4, FnFacts
<1>6. PICK h1 : h1 = SetIn(heap, c + 6, "__propget", name, get)
  OBVIOUS
<1>7. PICK h2 : h2 = SetIn(h1, c + 6, "__propset", name, set)
  OBVIOUS
<1>8. Adds("static", name, access, h2)
  BY <1>3, <1>4, <1>6, <1>7 DEF addStaticData, Property, OpenClassIs
<1>9. name \in Names
  BY DEF Names
<1>10. Sets(heap, h1, c + 7, name, get) /\ Quiet(heap, h1)
  BY <1>3, <1>5, <1>6, <1>9, PutIn DEF OpenClassIs
<1>11. IsHeap(h1) /\ Len(h1) = Len(heap) /\ rawgetfield(h1, c + 6, "__propset") = Table(c + 8)
  BY <1>3, <1>10 DEF OpenClassIs, Quiet, SameFixed, Fixed
<1>12. Sets(h1, h2, c + 8, name, set) /\ Quiet(h1, h2)
  <2>1. c + 8 \in 1..Len(h1)
    BY <1>3, <1>11 DEF OpenClassIs
  <2> QED
    BY ONLY <1>5, <1>7, <1>9, <1>11, <2>1, PutIn
<1>13. Quiet(heap, h2)
  BY <1>10, <1>12, QuietTwice
<1>14. PICK e, n : e = Entry("static", name, access) /\ n = Len(log) + 1
  OBVIOUS
<1>15. /\ e.name = name /\ Added(e, 7, n) = get /\ Added(e, 8, n) = set
       /\ \A o \in Slots : Suits(e, o) <=> o = 7 \/ o = 8
  BY <1>4, <1>14, FnFacts DEF Entry, Added, OpIn, Suits, Slots
<1>16. Fills(heap, h2, c, e, n)
  <2>1. SUFFICES ASSUME NEW u \in 1..Len(heap), NEW x \in Members
                 PROVE  rawgetfield(h2, u, x) =
                            IF x = e.name /\ u - c \in Slots /\ Suits(e, u - c) THEN Added(e, u - c, n)
                            ELSE rawgetfield(heap, u, x)
    BY DEF Fills
  <2>2. rawgetfield(h2, u, x) = IF u = c + 8 /\ x = name THEN set
                                ELSE IF u = c + 7 /\ x = name THEN get
                                ELSE rawgetfield(heap, u, x)
    BY <1>10, <1>11, <1>12 DEF Sets
  <2>3. (u = c + 8 <=> u - c = 8) /\ (u = c + 7 <=> u - c = 7)
    <3>1. c \in Nat /\ Len(heap) \in Nat
      BY <1>3 DEF OpenClassIs
    <3> QED
      BY ONLY <3>1, u \in 1..Len(heap)
  <2>4. 7 \in Slots /\ 8 \in Slots
    BY DEF Slots
  <2>5. PICK d : d = u - c
    OBVIOUS
  <2> QED
    BY ONLY <1>15, <2>2, <2>3, <2>4, <2>5
<1> QED
  BY <1>1, <1>2, <1>8, <1>13, <1>14, <1>16, MemberIsSound

LEMMA StaticFunctionSound ==
    ASSUME NEW spaces, NEW anc, Good(spaces, anc), NEW name \in Members, addStaticFunction(name)
    PROVE  Sound'
<1>1. open = "class"
  BY DEF addStaticFunction
<1>2. PICK c : c = At(registry, cls)
  OBVIOUS
<1>3. OpenClassIs(cls, c)
  BY <1>1, <1>2, ClassIsOpen
<1>4. PICK fn : fn = Fn("call")
  OBVIOUS
<1>5. fn.k = "fn"
  BY <1>4, FnFacts
<1>6. PICK h1 : h1 = rawsetfield(heap, c + 6, name, fn)
  OBVIOUS
<1>7. Adds("staticfunction", name, "const", h1)
  BY <1>3, <1>4, <1>6 DEF addStaticFunction, OpenClassIs
<1>8. name \in Names
  BY DEF Names
<1>9. Sets(heap, h1, c + 6, name, fn) /\ Quiet(heap, h1)
  BY <1>3, <1>5, <1>6, <1>8, Put DEF OpenClassIs
<1>10. PICK e, n : e = Entry("staticfunction", name, "const") /\ n = Len(log) + 1
  OBVIOUS
<1>11. e.name = name /\ Added(e, 6, n) = fn /\ \A o \in Slots : Suits(e, o) <=> o = 6
  BY <1>4, <1>10, FnFacts DEF Entry, Added, OpIn, Suits, Slots
<1>12. Fills(heap, h1, c, e, n)
  <2>1. SUFFICES ASSUME NEW u \in 1..Len(heap), NEW x \in Members
                 PROVE  rawgetfield(h1, u, x) =
                            IF x = e.name /\ u - c \in Slots /\ Suits(e, u - c) THEN Added(e, u - c, n)
                            ELSE rawgetfield(heap, u, x)
    BY DEF Fills
  <2>2. rawgetfield(h1, u, x) = IF u = c + 6 /\ x = name THEN fn ELSE rawgetfield(heap, u, x)
    BY <1>9 DEF Sets
  <2>3. u = c + 6 <=> u - c = 6
    <3>1. c \in Nat /\ Len(heap) \in Nat
      BY <1>3 DEF OpenClassIs
    <3> QED
      BY ONLY <3>1, u \in 1..Len(heap)
  <2>4. 6 \in Slots
    BY DEF Slots
  <2>5. PICK d : d = u - c
    OBVIOUS
  <2> QED
    BY ONLY <1>11, <2>2, <2>3, <2>4, <2>5
<1> QED
  BY <1>1, <1>2, <1>7, <1>9, <1>10, <1>12, MemberIsSound

LEMMA DataSound ==
    ASSUME NEW spaces, NEW anc, Good(spaces, anc), NEW name \in Members, NEW access \in {"rw", "ro"},
           addData(name, access)
    PROVE  Sound'
<1>1. open = "class"
  BY DEF addData
<1>2. PICK c : c = At(registry, cls)
  OBVIOUS
<1>3. OpenClassIs(cls, c)
  BY <1>1, <1>2, ClassIsOpen
<1>4. PICK get, set : get = Fn("reads") /\ set = Fn("writes")
  OBVIOUS
<1>5. get.k = "fn" /\ set.k = "fn"
  BY <1>4, FnFacts
<1>6. PICK h1 : h1 = SetIn(heap, c + 2, "__propget", name, get)
  OBVIOUS
<1>7. PICK h2 : h2 = SetIn(h1, c, "__propget", name, get)
  OBVIOUS
<1>8. PICK h3 : h3 = SetIn(h2, c + 2, "__propset", name, set)
  OBVIOUS
<1>9. PICK g : g = IF access = "rw" THEN h3 ELSE h2
  OBVIOUS
<1>10. Adds("data", name, access, g)
  BY <1>3, <1>4, <1>6, <1>7, <1>8, <1>9 DEF addData, GetterAndSetter, OpenClassIs
<1>11. name \in Names
  BY DEF Names
<1>12. Sets(heap, h1, c + 3, name, get) /\ Quiet(heap, h1)
  BY <1>3, <1>5, <1>6, <1>11, PutIn DEF OpenClassIs
<1>13. IsHeap(h1) /\ Len(h1) = Len(heap) /\ rawgetfield(h1, c, "__propget") = Table(c + 1)
  BY <1>3, <1>12 DEF OpenClassIs, Quiet, SameFixed, Fixed
<1>14. Sets(h1, h2, c + 1, name, get) /\ Quiet(h1, h2)
  <2>1. c + 1 \in 1..Len(h1)
    BY <1>3, <1>13 DEF OpenClassIs
  <2> QED
    BY ONLY <1>5, <1>7, <1>11, <1>13, <2>1, PutIn
<1>15. Quiet(heap, h2)
  BY <1>12, <1>14, QuietTwice
<1>16. IsHeap(h2) /\ Len(h2) = Len(heap) /\ rawgetfield(h2, c + 2, "__propset") = Table(c + 4)
  BY <1>3, <1>15 DEF OpenClassIs, Quiet, SameFixed, Fixed
<1>17. Sets(h2, h3, c + 4, name, set) /\ Quiet(h2, h3)
  <2>1. c + 4 \in 1..Len(h2)
    BY <1>3, <1>16 DEF OpenClassIs
  <2> QED
    BY ONLY <1>5, <1>8, <1>11, <1>16, <2>1, PutIn
<1>18. Quiet(heap, g)
  BY <1>9, <1>15, <1>17, QuietTwice
<1>19. PICK e, n : e = Entry("data", name, access) /\ n = Len(log) + 1
  OBVIOUS
<1>20. /\ e.name = name /\ Added(e, 1, n) = get /\ Added(e, 3, n) = get /\ Added(e, 4, n) = set
       /\ \A o \in Slots : Suits(e, o) <=> o = 1 \/ o = 3 \/ (o = 4 /\ access = "rw")
  BY <1>4, <1>19, FnFacts DEF Entry, Added, OpIn, Suits, Slots
<1>21. Fills(heap, g, c, e, n)
  <2>1. SUFFICES ASSUME NEW u \in 1..Len(heap), NEW x \in Members
                 PROVE  rawgetfield(g, u, x) =
                            IF x = e.name /\ u - c \in Slots /\ Suits(e, u - c) THEN Added(e, u - c, n)
                            ELSE rawgetfield(heap, u, x)
    BY DEF Fills
  <2>2. /\ rawgetfield(h1, u, x) = IF u = c + 3 /\ x = name THEN get ELSE rawgetfield(heap, u, x)
        /\ rawgetfield(h2, u, x) = IF u = c + 1 /\ x = name THEN get ELSE rawgetfield(h1, u, x)
        /\ rawgetfield(h3, u, x) = IF u = c + 4 /\ x = name THEN set ELSE rawgetfield(h2, u, x)
    BY <1>12, <1>13, <1>14, <1>16, <1>17 DEF Sets
  <2>3. (u = c + 1 <=> u - c = 1) /\ (u = c + 3 <=> u - c = 3) /\ (u = c + 4 <=> u - c = 4)
    <3>1. c \in Nat /\ Len(heap) \in Nat
      BY <1>3 DEF OpenClassIs
    <3> QED
      BY ONLY <3>1, u \in 1..Len(heap)
  <2>4. 1 \in Slots /\ 3 \in Slots /\ 4 \in Slots
    BY DEF Slots
  <2>5. PICK d : d = u - c
    OBVIOUS
  <2> QED
    BY ONLY <1>9, <1>20, <2>2, <2>3, <2>4, <2>5
<1> QED
  BY <1>1, <1>2, <1>10, <1>18, <1>19, <1>21, MemberIsSound

LEMMA FunctionSound ==
    ASSUME NEW spaces, NEW anc, Good(spaces, anc), NEW name \in Members,
           NEW access \in {"const", "mutable"}, addFunction(name, access)
    PROVE  Sound'
<1>1. open = "class"
  BY DEF addFunction
<1>2. PICK c : c = At(registry, cls)
  OBVIOUS
<1>3. OpenClassIs(cls, c)
  BY <1>1, <1>2, ClassIsOpen
<1>4. PICK fn : fn = Fn(IF access = "const" THEN "reads" ELSE "writes")
  OBVIOUS
<1>5. fn.k = "fn"
  BY <1>4, FnFacts
<1>6. PICK h1 : h1 = IF access = "const" THEN rawsetfield(heap, c, name, fn) ELSE heap
  OBVIOUS
<1>7. PICK h2 : h2 = rawsetfield(h1, c + 2, name, fn)
  OBVIOUS
<1>8. Adds("function", name, access, h2)
  BY <1>3, <1>4, <1>6, <1>7 DEF addFunction, AddMemberFunction, OpenClassIs
<1>9. name \in Names
  BY DEF Names
<1>10. /\ IsHeap(h1) /\ Len(h1) = Len(heap)
       /\ \A u \in 1..Len(heap) : \A x :
            rawgetfield(h1, u, x) = IF u = c /\ x = name /\ access = "const" THEN fn ELSE rawgetfield(heap, u, x)
       /\ access = "const" => Quiet(heap, h1)
  <2>1. CASE access = "const"
    <3>1. Sets(heap, h1, c, name, fn) /\ Quiet(heap, h1)
      BY <1>3, <1>5, <1>6, <1>9, <2>1, Put DEF OpenClassIs
    <3> QED
      BY <2>1, <3>1 DEF Sets
  <2>2. CASE access # "const"
    BY <1>3, <1>6, <2>2 DEF OpenClassIs
  <2> QED
    BY <2>1, <2>2
<1>11. Sets(h1, h2, c + 2, name, fn) /\ Quiet(h1, h2)
  <2>1. c + 2 \in 1..Len(h1)
    BY <1>3, <1>10 DEF OpenClassIs
  <2> QED
    BY ONLY <1>5, <1>7, <1>9, <1>10, <2>1, Put
<1>12. Quiet(heap, h2)
  <2>1. CASE access = "const"
    BY <1>10, <1>11, <2>1, QuietTwice
  <2>2. CASE access # "const"
    BY <1>6, <1>11, <2>2
  <2> QED
    BY <2>1, <2>2
<1>13. PICK e, n : e = Entry("function", name, access) /\ n = Len(log) + 1
  OBVIOUS
<1>14. /\ e.name = name /\ (access = "const" => Added(e, 0, n) = fn) /\ Added(e, 2, n) = fn
       /\ \A o \in Slots : Suits(e, o) <=> (o = 0 /\ access = "const") \/ o = 2
  BY <1>4, <1>13, FnFacts DEF Entry, Added, OpIn, Suits, Slots
<1>15. Fills(heap, h2, c, e, n)
  <2>1. SUFFICES ASSUME NEW u \in 1..Len(heap), NEW x \in Members
                 PROVE  rawgetfield(h2, u, x) =
                            IF x = e.name /\ u - c \in Slots /\ Suits(e, u - c) THEN Added(e, u - c, n)
                            ELSE rawgetfield(heap, u, x)
    BY DEF Fills
  <2>2. /\ rawgetfield(h1, u, x) = IF u = c /\ x = name /\ access = "const" THEN fn ELSE rawgetfield(heap, u, x)
        /\ rawgetfield(h2, u, x) = IF u = c + 2 /\ x = name THEN fn ELSE rawgetfield(h1, u, x)
    BY <1>10, <1>11 DEF Sets
  <2>3. (u = c <=> u - c = 0) /\ (u = c + 2 <=> u - c = 2)
    <3>1. c \in Nat /\ Len(heap) \in Nat
      BY <1>3 DEF OpenClassIs
    <3> QED
      BY ONLY <3>1, u \in 1..Len(heap)
  <2>4. 0 \in Slots /\ 2 \in Slots
    BY DEF Slots
  <2>5. PICK d : d = u - c
    OBVIOUS
  <2> QED
    BY ONLY <1>14, <2>2, <2>3, <2>4, <2>5
<1> QED
  BY <1>1, <1>2, <1>8, <1>12, <1>13, <1>15, MemberIsSound

LEMMA ConstructorSound ==
    ASSUME NEW spaces, NEW anc, Good(spaces, anc), addConstructor
    PROVE  Sound'
<1>1. open = "class"
  BY DEF addConstructor
<1>2. PICK c : c = At(registry, cls)
  OBVIOUS
<1>3. OpenClassIs(cls, c)
  BY <1>1, <1>2, ClassIsOpen
<1>4. PICK fn : fn = Fn("call")
  OBVIOUS
<1>5. fn.k = "fn"
  BY <1>4, FnFacts
<1>6. PICK g : g = rawsetfield(heap, c + 6, "__call", fn)
  OBVIOUS
<1>7. Adds("constructor", "__call", "const", g)
  BY <1>3, <1>4, <1>6 DEF addConstructor, OpenClassIs
<1>8. "__call" \in Names
  BY DEF Names
<1>9. Sets(heap, g, c + 6, "__call", fn) /\ Quiet(heap, g)
  BY <1>3, <1>5, <1>6, <1>8, Put DEF OpenClassIs
<1>10. PICK e : e = Entry("constructor", "__call", "const")
  OBVIOUS
<1>11. e.cls \in Classes /\ IsReg(registry, e.cls) /\ \A o : ~Suits(e, o)
  BY <1>3, <1>10 DEF Entry, Suits, OpenClassIs
<1>12. HeapInv(heap, registry, base, log, spaces)
  BY DEF Good
<1>13. ASSUME NEW C \in Classes, IsReg(registry, C), NEW o \in Slots, NEW x \in Members
       PROVE  rawgetfield(g, At(registry, C) + o, x) = rawgetfield(heap, At(registry, C) + o, x)
  <2>1. At(registry, C) + o \in 1..Len(heap)
    <3>1. IsRegistry(Len(heap), registry) /\ Len(heap) \in Nat
      BY <1>3, <1>12 DEF HeapInv, OpenClassIs
    <3>2. o \in 0..8
      BY DEF Slots
    <3> QED
      BY ONLY <1>13, <3>1, <3>2, BlockInHeap
  <2>2. x # "__call"
    BY NamesApart
  <2> QED
    BY <1>9, <2>1, <2>2 DEF Sets
<1>14. HeapInv(g, registry, base, Append(log, e), spaces)
  BY <1>9, <1>11, <1>12, <1>13, OtherAdd
<1> QED
  BY <1>7, <1>10, <1>14, AddIsSound

-----------------------------------------------------------------------------
(* Registering the members of a namespace *)

LEMMA TopIsSpace ==
    ASSUME NEW spaces, NEW anc, Good(spaces, anc), open = "namespace", Top # NotATable
    PROVE  /\ Top \in spaces /\ IsSpace(heap, registry, spaces, Top) /\ cls = NoClass
           /\ IsHeap(heap) /\ Len(heap) \in Nat /\ Len(stack) \in Nat /\ Len(stack) >= 1
<1>1. HeapInv(heap, registry, base, log, spaces) /\ StackInv(registry, stack, size, open, cls, spaces)
  BY DEF Good
<1>2. /\ Len(stack) >= 1 /\ cls = NoClass
      /\ \A i \in 1..Len(stack) : stack[i] \in spaces \/ stack[i] = NotATable
  BY <1>1 DEF StackInv
<1>3. Len(stack) \in Nat
  BY <1>1, LenProperties DEF StackInv
<1>4. Top \in spaces
  BY <1>2, <1>3 DEF Top
<1>5. IsHeap(heap) /\ Len(heap) \in Nat /\ IsSpace(heap, registry, spaces, Top)
  BY <1>1, <1>4, LenProperties DEF HeapInv, IsHeap
<1> QED
  BY <1>2, <1>3, <1>4, <1>5

(* A table of a namespace is none of a class. *)
LEMMA SpacesAreApart ==
    ASSUME NEW spaces, NEW anc, Good(spaces, anc), NEW n, IsSpace(heap, registry, spaces, n),
           NEW u \in n..EndOf(n), NEW C \in Classes, IsReg(registry, C), NEW o \in Slots
    PROVE  At(registry, C) + o \in 1..Len(heap) /\ At(registry, C) + o # u
<1>1. HeapInv(heap, registry, base, log, spaces)
  BY DEF Good
<1>2. IsRegistry(Len(heap), registry) /\ Len(heap) \in Nat
  BY <1>1 DEF HeapInv, IsHeap
<1>3. o \in 0..8
  BY DEF Slots
<1>4. PICK c : c = At(registry, C)
  OBVIOUS
<1>5. c \in Nat /\ c + o \in 1..Len(heap)
  BY <1>2, <1>3, <1>4, BlockInHeap
<1>6. (EndOf(n) < c \/ c + 8 < n) /\ n \in 1..Len(heap)
  BY <1>4 DEF IsSpace
<1>7. EndOf(n) \in Nat
  BY <1>2, <1>6 DEF EndOf
<1> QED
  BY <1>2, <1>3, <1>4, <1>5, <1>6, <1>7

LEMMA VariableSound ==
    ASSUME NEW spaces, NEW anc, Good(spaces, anc), NEW name \in Members, NEW access \in {"rw", "ro"},
           addVariable(name, access)
    PROVE  Sound'
<1>1. open = "namespace" /\ Top # NotATable /\ HasTable(heap, Top, "__propget")
  BY DEF addVariable, InNamespace
<1>2. PICK t : t = Top
  OBVIOUS
<1>3. /\ t \in spaces /\ IsSpace(heap, registry, spaces, t) /\ cls = NoClass
      /\ IsHeap(heap) /\ Len(heap) \in Nat
  BY <1>1, <1>2, TopIsSpace
<1>4. t # 1
  BY <1>1, <1>2, <1>3, Values DEF IsSpace, HasTable
<1>5. /\ t + 1 \in 1..Len(heap) /\ t + 2 \in 1..Len(heap) /\ t + 1 \in t..EndOf(t) /\ t + 2 \in t..EndOf(t)
      /\ rawgetfield(heap, t, "__propget") = Table(t + 1)
      /\ rawgetfield(heap, t, "__propset") = Table(t + 2)
      /\ t \in 1..Len(heap)
  BY <1>3, <1>4 DEF IsSpace, EndOf
<1>6. PICK get, set : get = Fn("call") /\ set = Fn(IF access = "rw" THEN "call" ELSE "readOnlyError")
  OBVIOUS
<1>7. get.k = "fn" /\ set.k = "fn"
  BY <1>6, FnFacts
<1>8. PICK h1 : h1 = SetIn(heap, t, "__propget", name, get)
  OBVIOUS
<1>9. PICK h2 : h2 = SetIn(h1, t, "__propset", name, set)
  OBVIOUS
<1>10. Adds("variable", name, access, h2)
  BY <1>2, <1>6, <1>8, <1>9 DEF addVariable, Property
<1>11. name \in Names
  BY DEF Names
<1>12. Sets(heap, h1, t + 1, name, get) /\ Quiet(heap, h1)
  BY <1>3, <1>5, <1>7, <1>8, <1>11, PutIn
<1>13. IsHeap(h1) /\ Len(h1) = Len(heap) /\ rawgetfield(h1, t, "__propset") = Table(t + 2)
  BY <1>5, <1>12 DEF Quiet, SameFixed, Fixed
<1>14. Sets(h1, h2, t + 2, name, set) /\ Quiet(h1, h2)
  <2>1. t + 2 \in 1..Len(h1)
    BY <1>5, <1>13
  <2> QED
    BY ONLY <1>7, <1>9, <1>11, <1>13, <2>1, PutIn
<1>15. Quiet(heap, h2)
  BY <1>12, <1>14, QuietTwice
<1>16. PICK e : e = Entry("variable", name, access)
  OBVIOUS
<1>17. e.cls = NoClass
  BY <1>3, <1>16 DEF Entry
<1>18. HeapInv(heap, registry, base, log, spaces)
  BY DEF Good
<1>19. ASSUME NEW C \in Classes, IsReg(registry, C), NEW o \in Slots, NEW x \in Members
       PROVE  rawgetfield(h2, At(registry, C) + o, x) = rawgetfield(heap, At(registry, C) + o, x)
  <2>1. PICK u : u = At(registry, C) + o
    OBVIOUS
  <2>2. u \in 1..Len(heap) /\ u # t + 1 /\ u # t + 2
    BY <1>3, <1>5, <1>19, <2>1, SpacesAreApart
  <2>3. rawgetfield(h2, u, x) = rawgetfield(heap, u, x)
    BY <1>12, <1>13, <1>14, <2>2 DEF Sets
  <2> QED
    BY ONLY <2>1, <2>3
<1>20. HeapInv(h2, registry, base, Append(log, e), spaces)
  BY <1>15, <1>17, <1>18, <1>19, OtherAdd
<1> QED
  BY <1>10, <1>16, <1>20, AddIsSound

LEMMA FreeFunctionSound ==
    ASSUME NEW spaces, NEW anc, Good(spaces, anc), NEW name \in Members, addFreeFunction(name)
    PROVE  Sound'
<1>1. open = "namespace" /\ Top # NotATable
  BY DEF addFreeFunction, InNamespace
<1>2. PICK t : t = Top
  OBVIOUS
<1>3. /\ t \in spaces /\ IsSpace(heap, registry, spaces, t) /\ cls = NoClass
      /\ IsHeap(heap) /\ Len(heap) \in Nat
  BY <1>1, <1>2, TopIsSpace
<1>4. t \in 1..Len(heap) /\ t \in t..EndOf(t)
  BY <1>3 DEF IsSpace, EndOf
<1>5. PICK fn : fn = Fn("call")
  OBVIOUS
<1>6. fn.k = "fn"
  BY <1>5, FnFacts
<1>7. PICK g : g = rawsetfield(heap, t, name, fn)
  OBVIOUS
<1>8. Adds("freefunction", name, "const", g)
  BY <1>2, <1>5, <1>7 DEF addFreeFunction
<1>9. name \in Names
  BY DEF Names
<1>10. Sets(heap, g, t, name, fn) /\ Quiet(heap, g)
  BY <1>3, <1>4, <1>6, <1>7, <1>9, Put
<1>11. PICK e : e = Entry("freefunction", name, "const")
  OBVIOUS
<1>12. e.cls = NoClass
  BY <1>3, <1>11 DEF Entry
<1>13. HeapInv(heap, registry, base, log, spaces)
  BY DEF Good
<1>14. ASSUME NEW C \in Classes, IsReg(registry, C), NEW o \in Slots, NEW x \in Members
       PROVE  rawgetfield(g, At(registry, C) + o, x) = rawgetfield(heap, At(registry, C) + o, x)
  <2>1. PICK u : u = At(registry, C) + o
    OBVIOUS
  <2>2. u \in 1..Len(heap) /\ u # t
    BY <1>3, <1>4, <1>14, <2>1, SpacesAreApart
  <2>3. rawgetfield(g, u, x) = rawgetfield(heap, u, x)
    BY <1>10, <2>2 DEF Sets
  <2> QED
    BY ONLY <2>1, <2>3
<1>15. HeapInv(g, registry, base, Append(log, e), spaces)
  BY <1>10, <1>12, <1>13, <1>14, OtherAdd
<1> QED
  BY <1>8, <1>11, <1>15, AddIsSound

-----------------------------------------------------------------------------
(* Namespaces and classes *)

LEMMA SoundInit ==
    ASSUME Init
    PROVE  Sound
<1>1. PICK spaces : spaces = {1}
  OBVIOUS
<1>2. PICK anc : anc = [C \in Classes |-> <<C>>]
  OBVIOUS
<1>3. /\ heap = <<NewTable>> /\ registry = [T \in Classes |-> [static |-> 0, class |-> 0, const |-> 0]]
      /\ stack = <<>> /\ size = 0 /\ open = "none" /\ cls = NoClass /\ ~failed
      /\ base = [T \in Classes |-> NoClass] /\ log = <<>>
  BY DEF Init
<1>4. heap \in Seq({NewTable}) /\ Len(heap) = 1 /\ heap[1] = NewTable
  BY <1>3
<1>5. IsHeap(heap)
  <2>1. IsTable(NewTable, Len(heap))
    BY NewTableIsTable
  <2> QED
    BY <1>4, <2>1 DEF IsHeap
<1>6. \A C \in Classes : ~IsReg(registry, C) /\ base[C] = NoClass
  BY <1>3 DEF IsReg
<1>7. IsRegistry(Len(heap), registry)
  BY <1>3, <1>6 DEF IsRegistry
<1>8. IsLog(log) /\ DOMAIN log = {} /\ Len(log) = 0
  BY <1>3 DEF IsLog
<1>9. IsSpace(heap, registry, spaces, 1)
  <2>1. \A x : rawgetfield(heap, 1, x) = nil
    BY <1>4, NewTableIsBlank DEF Blank
  <2> QED
    BY <1>4, <1>6, <2>1, Values DEF IsSpace, EndOf, HasTable
<1>9a. ParentsKnown(heap, registry, base)
  <2>1. \A u \in 1..Len(heap) : rawgetfield(heap, u, "__parent") = nil
    BY <1>4, NewTableIsBlank DEF Blank
  <2> QED
    BY <2>1, Values DEF ParentsKnown, HasTable
<1>10. HeapInv(heap, registry, base, log, spaces)
  BY <1>1, <1>5, <1>6, <1>7, <1>8, <1>9, <1>9a DEF HeapInv
<1>11. Family(registry, base, anc)
  <2>1. ASSUME NEW C \in Classes PROVE Lineage(registry, base, anc, C)
    <3>1. anc[C] = <<C>> /\ anc[C] \in Seq(Classes) /\ Len(anc[C]) = 1 /\ anc[C][1] = C
      BY <1>2
    <3>2. (\A i \in 1..Len(anc[C]) : i = 1) /\ \A i \in 1..(Len(anc[C]) - 1) : FALSE
      BY <3>1
    <3> QED
      BY <1>6, <3>1, <3>2 DEF Lineage
  <2> QED
    BY <1>3, <2>1 DEF Family
<1>12. StackInv(registry, stack, size, open, cls, spaces)
  BY <1>3 DEF StackInv
<1> QED
  BY <1>3, <1>10, <1>11, <1>12 DEF Sound, Good, NoAssertionFails

LEMMA GetGlobalSound ==
    ASSUME NEW spaces, NEW anc, Good(spaces, anc), getGlobalNamespace
    PROVE  Sound'
<1>1. /\ stack' = <<1>> /\ size' = 1 /\ open' = "namespace" /\ ~failed
      /\ UNCHANGED <<heap, registry, cls, failed, base, log>> /\ open = "none"
  BY DEF getGlobalNamespace
<1>2. HeapInv(heap', registry', base', log', spaces) /\ Family(registry', base', anc)
  BY <1>1 DEF Good
<1>3. StackInv(registry', stack', size', open', cls', spaces)
  <2>1. stack' \in Seq({1}) /\ Len(stack') = 1 /\ stack'[1] = 1
    BY <1>1
  <2>2. 1 \in spaces
    BY DEF Good, HeapInv
  <2>3. cls = NoClass
    BY <1>1 DEF Good, StackInv
  <2> QED
    BY <1>1, <2>1, <2>2, <2>3 DEF StackInv
<1> QED
  BY <1>1, <1>2, <1>3 DEF Sound, Good, NoAssertionFails

(* a is pushed: p is stk and a. *)
Pushed(stk, a, p) ==
    /\ (\E R : p \in Seq(R)) /\ Len(p) = Len(stk) + 1 /\ p[Len(stk) + 1] = a
    /\ \A i \in 1..Len(stk) : p[i] = stk[i]

LEMMA PushSpace ==
    ASSUME NEW S, NEW stk \in Seq(S), NEW a, NEW p, p = Append(stk, a)
    PROVE  Pushed(stk, a, p)
<1> DEFINE R == S \cup {a}
<1>1. stk \in Seq(R) /\ a \in R
  BY SeqMonotonic
<1> HIDE DEF R
<1>2. /\ p \in Seq(R) /\ Len(p) = Len(stk) + 1
      /\ p[Len(stk) + 1] = a /\ \A i \in 1..Len(stk) : p[i] = stk[i]
  BY <1>1, AppendProperties
<1> QED
  BY <1>2 DEF Pushed

LEMMA BasesKnown ==
    ASSUME NEW reg, NEW bas, NEW anc, Family(reg, bas, anc)
    PROVE  /\ bas = [C \in Classes |-> bas[C]]
           /\ \A C \in Classes : bas[C] = NoClass \/ (bas[C] \in Classes /\ IsReg(reg, C) /\ IsReg(reg, bas[C]))
BY DEF Family, Lineage

LEMMA BeginNamespaceSound ==
    ASSUME NEW spaces, NEW anc, Good(spaces, anc), NEW name \in Spaces, beginNamespace(name)
    PROVE  Sound'
<1>1. /\ open = "namespace" /\ ~failed /\ ~failed' /\ Top # NotATable /\ size' = size + 1
      /\ UNCHANGED <<registry, open, cls, failed, base, log>>
  BY DEF beginNamespace, InNamespace
<1>2. PICK ns, t : ns = Top /\ t = Len(heap) + 1
  OBVIOUS
<1>3. /\ ns \in spaces /\ IsSpace(heap, registry, spaces, ns) /\ cls = NoClass
      /\ Len(stack) \in Nat /\ Len(stack) >= 1
  BY <1>1, <1>2, TopIsSpace
<1>4. PICK S : stack \in Seq(S)
  BY DEF Good, StackInv
<1>5. size = Len(stack) /\ \A i \in 1..Len(stack) : stack[i] \in spaces
  BY <1>1 DEF Good, StackInv, Top
<1>6. HeapInv(heap, registry, base, log, spaces) /\ Family(registry, base, anc)
  BY DEF Good
<1>7. ASSUME NEW more, NEW a, a \in more \/ a = NotATable, spaces \subseteq more, stack' = Append(stack, a)
      PROVE  StackInv(registry', stack', size', open', cls', more)
  <2>1. /\ (\E R : stack' \in Seq(R)) /\ Len(stack') = Len(stack) + 1
        /\ stack'[Len(stack) + 1] = a /\ \A i \in 1..Len(stack) : stack'[i] = stack[i]
    <3>1. PICK stk, new : stk = stack /\ new = Append(stk, a)
      OBVIOUS
    <3>2. stk \in Seq(S)
      BY ONLY <1>4, <3>1, Zenon
    <3>3. Pushed(stk, a, new)
      BY ONLY <3>1, <3>2, PushSpace
    <3>4. stack' = new
      BY <1>7, <3>1
    <3> QED
      BY ONLY <3>1, <3>3, <3>4, Zenon DEF Pushed
  <2>2. \A i \in 1..Len(stack') : i \in 1..Len(stack) \/ i = Len(stack) + 1
    BY <1>3, <2>1
  <2>3. \A i \in 1..Len(stack') : stack'[i] \in more \/ (i = Len(stack') /\ stack'[i] = NotATable)
    BY <1>5, <1>7, <2>1, <2>2
  <2> QED
    BY <1>1, <1>3, <1>5, <2>1, <2>3 DEF StackInv
<1>8. CASE rawgetfield(heap, ns, name) # nil
  <2>1. PICK v : v = rawgetfield(heap, ns, name)
    OBVIOUS
  <2>2. PICK a : a = IF v.k = "table" THEN v.id ELSE NotATable
    OBVIOUS
  <2>3. stack' = Append(stack, a) /\ UNCHANGED heap
    BY <1>2, <1>8, <2>1, <2>2 DEF beginNamespace
  <2>4. v.k = "table" => v.id \in spaces
    BY <1>3, <2>1 DEF IsSpace, HasTable, Field
  <2>5. a \in spaces \/ a = NotATable
    BY <2>2, <2>4
  <2>6. StackInv(registry', stack', size', open', cls', spaces)
    BY <1>7, <2>3, <2>5
  <2> QED
    BY <1>1, <1>6, <2>3, <2>6 DEF Sound, Good, NoAssertionFails
<1>9. CASE rawgetfield(heap, ns, name) = nil
  <2>1. /\ stack' = Append(stack, t)
        /\ heap' = rawsetfield(
                heap \o <<[mt |-> t, f |-> [__propget |-> Table(t + 1), __propset |-> Table(t + 2)]],
                          NewTable, NewTable>>, ns, name, Table(t))
    BY <1>2, <1>9 DEF beginNamespace
  <2>2. PICK more : more = spaces \cup {t}
    OBVIOUS
  <2>3. PICK g : g = heap'
    OBVIOUS
  <2>4. HeapInv(g, registry, base, log, more)
    <3>1. \A C \in Classes :
            base[C] = NoClass \/ (base[C] \in Classes /\ IsReg(registry, C) /\ IsReg(registry, base[C]))
      BY <1>6, BasesKnown
    <3> QED
      BY ONLY <1>2, <1>3, <1>6, <2>1, <2>2, <2>3, <3>1, name \in Spaces, SpaceKeeps
  <2>5. StackInv(registry', stack', size', open', cls', more)
    BY <1>7, <2>1, <2>2
  <2>6. HeapInv(heap', registry', base', log', more) /\ Family(registry', base', anc)
    BY <1>1, <1>6, <2>3, <2>4
  <2> QED
    BY <1>1, <2>5, <2>6 DEF Sound, Good, NoAssertionFails
<1> QED
  BY <1>8, <1>9

(* The assertion that a namespace is a table. *)
LEMMA AssertTableSound ==
    ASSUME NEW spaces, NEW anc, Good(spaces, anc), AssertTable
    PROVE  Sound'
<1>1. /\ open' = "namespace" /\ stack'[Len(stack')] = NotATable
      /\ UNCHANGED <<heap, registry, stack, size, open, cls, base, log>>
  BY DEF AssertTable, Top
<1>2. NoAssertionFails'
  BY <1>1 DEF NoAssertionFails, Top
<1> QED
  BY <1>1, <1>2 DEF Sound, Good

(* n elements less on the Lua stack. *)
LEMMA PopIsFine ==
    ASSUME NEW S, stack \in Seq(S), NEW n \in Nat, n <= Len(stack), pop(n, n)
    PROVE  /\ ~failed' /\ (\E R : stack' \in Seq(R)) /\ Len(stack') = Len(stack) - n /\ Len(stack) \in Nat
           /\ \A i \in 1..(Len(stack) - n) : stack'[i] = stack[i]
<1>1. Len(stack) \in Nat
  BY LenProperties
<1>2. ~failed'
  <2>1. ~(n > n \/ n > Len(stack))
    BY <1>1
  <2> QED
    BY <2>1, Zenon DEF pop
<1>3. PICK m : m = Len(stack) - n
  OBVIOUS
<1>4. stack' = SubSeq(stack, 1, m) /\ m \in Nat /\ m <= Len(stack)
  BY <1>1, <1>2, <1>3 DEF pop
<1>5. \A i \in 1..m : stack[i] \in S
  <2>1. \A i \in 1..m : i \in 1..Len(stack)
    BY <1>1, <1>4
  <2> QED
    BY <2>1, ElementOfSeq
<1>6. /\ SubSeq(stack, 1, m) \in Seq(S)
      /\ Len(SubSeq(stack, 1, m)) = IF 1 <= m THEN m - 1 + 1 ELSE 0
      /\ \A i \in 1..(m - 1 + 1) : SubSeq(stack, 1, m)[i] = stack[1 + i - 1]
  BY ONLY <1>4, <1>5, SubSeqProperties
<1>7. Len(SubSeq(stack, 1, m)) = m /\ \A i \in 1..m : SubSeq(stack, 1, m)[i] = stack[i]
  BY ONLY <1>4, <1>6
<1> QED
  BY <1>1, <1>2, <1>3, <1>4, <1>6, <1>7

LEMMA EndNamespaceSound ==
    ASSUME NEW spaces, NEW anc, Good(spaces, anc), endNamespace
    PROVE  Sound'
<1>1. /\ open = "namespace" /\ ~failed /\ Len(stack) > 1 /\ size' = size - 1 /\ pop(1, 1)
      /\ UNCHANGED <<heap, registry, open, cls, base, log>>
  BY DEF endNamespace, InNamespace
<1>2. PICK S : stack \in Seq(S)
  BY DEF Good, StackInv
<1>3. /\ ~failed' /\ (\E R : stack' \in Seq(R)) /\ Len(stack') = Len(stack) - 1 /\ Len(stack) \in Nat
      /\ \A i \in 1..(Len(stack) - 1) : stack'[i] = stack[i]
  <2>1. Len(stack) \in Nat
    BY <1>2, LenProperties
  <2>2. 1 \in Nat /\ 1 <= Len(stack)
    BY <1>1, <2>1
  <2> QED
    BY ONLY <1>1, <1>2, <2>2, PopIsFine
<1>4. /\ size = Len(stack) /\ cls = NoClass
      /\ \A i \in 1..Len(stack) : stack[i] \in spaces \/ (i = Len(stack) /\ stack[i] = NotATable)
  BY <1>1 DEF Good, StackInv
<1>5. \A i \in 1..Len(stack') : stack'[i] \in spaces
  BY <1>3, <1>4
<1>6. StackInv(registry', stack', size', open', cls', spaces)
  BY <1>1, <1>3, <1>4, <1>5 DEF StackInv
<1>7. HeapInv(heap', registry', base', log', spaces) /\ Family(registry', base', anc)
  BY <1>1 DEF Good
<1> QED
  BY <1>3, <1>6, <1>7 DEF Sound, Good, NoAssertionFails

LEMMA DestroySound ==
    ASSUME NEW spaces, NEW anc, Good(spaces, anc), Destroy
    PROVE  Sound'
<1>1. /\ size' = 0 /\ open' = "none" /\ cls' = NoClass /\ pop(size, size)
      /\ UNCHANGED <<heap, registry, base, log>>
  BY DEF Destroy
<1>2. PICK S : stack \in Seq(S)
  BY DEF Good, StackInv
<1>3. size = Len(stack)
  BY DEF Good, StackInv
<1>4. ~failed' /\ (\E R : stack' \in Seq(R)) /\ Len(stack') = Len(stack) - size /\ Len(stack) \in Nat
  <2>1. size \in Nat /\ size <= Len(stack)
    BY <1>2, <1>3, LenProperties
  <2> QED
    BY ONLY <1>1, <1>2, <2>1, PopIsFine
<1>5. stack' = <<>> /\ Len(stack') = 0
  <2>1. Len(stack') = 0
    BY <1>3, <1>4
  <2> QED
    BY <1>4, <2>1, EmptySeq
<1>6. StackInv(registry', stack', size', open', cls', spaces)
  BY <1>1, <1>4, <1>5 DEF StackInv
<1>7. HeapInv(heap', registry', base', log', spaces) /\ Family(registry', base', anc)
  BY <1>1 DEF Good
<1> QED
  BY <1>4, <1>6, <1>7 DEF Sound, Good, NoAssertionFails

LEMMA EndClassSound ==
    ASSUME NEW spaces, NEW anc, Good(spaces, anc), endClass
    PROVE  Sound'
<1>1. /\ open = "class" /\ open' = "namespace" /\ cls' = NoClass /\ size' = size - 3 /\ pop(3, 3)
      /\ UNCHANGED <<heap, registry, base, log>>
  BY DEF endClass, endClassPops
<1>2. PICK S : stack \in Seq(S)
  BY DEF Good, StackInv
<1>3. size = Len(stack) /\ Len(stack) >= 4 /\ \A i \in 1..(Len(stack) - 3) : stack[i] \in spaces
  BY <1>1 DEF Good, StackInv
<1>4. /\ ~failed' /\ (\E R : stack' \in Seq(R)) /\ Len(stack') = Len(stack) - 3 /\ Len(stack) \in Nat
      /\ \A i \in 1..(Len(stack) - 3) : stack'[i] = stack[i]
  <2>1. Len(stack) \in Nat
    BY <1>2, LenProperties
  <2>2. 3 \in Nat /\ 3 <= Len(stack)
    BY <1>3, <2>1
  <2> QED
    BY ONLY <1>1, <1>2, <2>2, PopIsFine
<1>5. \A i \in 1..Len(stack') : stack'[i] \in spaces
  BY <1>3, <1>4
<1>6. StackInv(registry', stack', size', open', cls', spaces)
  BY <1>1, <1>3, <1>4, <1>5 DEF StackInv
<1>7. HeapInv(heap', registry', base', log', spaces) /\ Family(registry', base', anc)
  BY <1>1 DEF Good
<1> QED
  BY <1>4, <1>6, <1>7 DEF Sound, Good, NoAssertionFails

LEMMA OpenClassSound ==
    ASSUME NEW spaces, NEW anc, Good(spaces, anc), open = "namespace",
           Top # NotATable,
           NEW T \in Classes, IsReg(registry', T), NEW c, c = At(registry', T), c \in Nat,
           OpenClass(T, c, c + 2, c + 6)
    PROVE  StackInv(registry', stack', size', open', cls', spaces)
<1>1. stack' = stack \o <<c, c + 2, c + 6>> /\ size' = size + 3 /\ open' = "class" /\ cls' = T
  BY DEF OpenClass
<1>2. PICK S0 : stack \in Seq(S0)
  BY DEF Good, StackInv
<1>3. size = Len(stack) /\ Len(stack) >= 1 /\ \A i \in 1..Len(stack) : stack[i] \in spaces
  BY DEF Good, StackInv, Top
<1>4. PICK b : b = <<c, c + 2, c + 6>>
  OBVIOUS
<1>5. b \in Seq(Nat) /\ Len(b) = 3 /\ b[1] = c /\ b[2] = c + 2 /\ b[3] = c + 6
  BY ONLY <1>4, c \in Nat
<1> DEFINE S == S0 \cup Nat
<1>6. stack \in Seq(S) /\ b \in Seq(S)
  BY <1>2, <1>5, SeqMonotonic
<1> HIDE DEF S
<1>7. PICK p : p = stack \o b
  OBVIOUS
<1>8. /\ p \in Seq(S) /\ Len(p) = Len(stack) + Len(b)
      /\ \A i \in 1..(Len(stack) + Len(b)) : p[i] = IF i <= Len(stack) THEN stack[i] ELSE b[i - Len(stack)]
  BY <1>6, <1>7, ConcatProperties
<1>9. Len(stack) \in Nat
  BY <1>6, LenProperties
<1>10. Len(p) = Len(stack) + 3 /\ Len(p) - 3 = Len(stack) /\ Len(p) >= 4
  BY <1>3, <1>5, <1>8, <1>9
<1>11. \A i \in 1..(Len(p) - 3) : p[i] \in spaces
  BY <1>3, <1>5, <1>8, <1>9, <1>10
<1>12. p[Len(p) - 2] = c /\ p[Len(p) - 1] = c + 2 /\ p[Len(p)] = c + 6
  <2>1. PICK l : l = Len(stack)
    OBVIOUS
  <2>2. l \in Nat /\ \A i \in 1..(l + 3) : p[i] = IF i <= l THEN stack[i] ELSE b[i - l]
    BY <1>5, <1>8, <1>9, <2>1
  <2>3. p[l + 1] = b[1] /\ p[l + 2] = b[2] /\ p[l + 3] = b[3]
    BY ONLY <2>2
  <2>4. Len(p) - 2 = l + 1 /\ Len(p) - 1 = l + 2 /\ Len(p) = l + 3
    BY <1>10, <2>1, <2>2
  <2> QED
    BY ONLY <1>5, <2>3, <2>4
<1>13. stack' = p /\ size' = Len(p)
  BY <1>1, <1>3, <1>4, <1>7, <1>10
<1> QED
  BY <1>1, <1>8, <1>10, <1>11, <1>12, <1>13 DEF StackInv

LEMMA RegisterSound ==
    ASSUME NEW spaces, NEW anc, Good(spaces, anc), open = "namespace", Top # NotATable, ~failed,
           NEW T \in Classes, ~IsReg(registry, T), NEW U, U = NoClass \/ (U \in Classes /\ IsReg(registry, U)),
           Made(heap, heap', Top, T, U, registry),
           registry' = [registry EXCEPT ![T] = [static |-> StaticAt(heap), class |-> ClassAt(heap),
                                                const |-> ConstAt(heap)]],
           base' = [base EXCEPT ![T] = U],
           OpenClass(T, ConstAt(heap), ClassAt(heap), StaticAt(heap)),
           UNCHANGED <<failed, log>>
    PROVE  Sound'
<1>1. HeapInv(heap, registry, base, log, spaces) /\ Family(registry, base, anc)
  BY DEF Good
<1>2. Top \in spaces /\ Len(heap) \in Nat
  BY TopIsSpace
<1>3. PICK h, g, reg, reg2, bas, bas2, ns, lg :
        /\ h = heap /\ g = heap' /\ reg = registry /\ reg2 = registry' /\ bas = base /\ bas2 = base' /\ ns = Top
        /\ lg = log
  OBVIOUS
<1>4. reg2 = [reg EXCEPT ![T] = [static |-> Len(h) + 7, class |-> Len(h) + 3, const |-> Len(h) + 1]]
  BY <1>3 DEF StaticAt, ClassAt, ConstAt
<1>5. HeapInv(g, reg2, bas2, lg, spaces)
  <2>1. HeapInv(h, reg, bas, lg, spaces)
    BY <1>1, <1>3
  <2>2. /\ bas = [C \in Classes |-> bas[C]]
        /\ \A C \in Classes : bas[C] = NoClass \/ (bas[C] \in Classes /\ IsReg(reg, C) /\ IsReg(reg, bas[C]))
    BY <1>1, <1>3, BasesKnown
  <2>3. /\ ~IsReg(reg, T) /\ ns \in spaces /\ (U = NoClass \/ (U \in Classes /\ IsReg(reg, U)))
        /\ Made(h, g, ns, T, U, reg) /\ bas2 = [bas EXCEPT ![T] = U]
    BY <1>2, <1>3
  <2> QED
    BY ONLY <1>4, <2>1, <2>2, <2>3, T \in Classes, ClassKeeps
<1>6. PICK c : c = Len(h) + 1
  OBVIOUS
<1>6a. c \in Nat /\ c + 2 = Len(h) + 3 /\ c + 6 = Len(h) + 7
  BY <1>2, <1>3, <1>6
<1>7. /\ reg2[T] = [static |-> c + 6, class |-> c + 2, const |-> c]
      /\ \A C \in Classes : C # T => reg2[C] = reg[C]
  <2>1. reg = [C \in Classes |-> reg[C]]
    BY <1>1, <1>3 DEF HeapInv, IsRegistry
  <2>2. PICK r : r = [static |-> c + 6, class |-> c + 2, const |-> c]
    OBVIOUS
  <2>3. reg2 = [reg EXCEPT ![T] = r]
    BY ONLY <1>4, <1>6, <1>6a, <2>2
  <2> QED
    BY ONLY <2>1, <2>2, <2>3, T \in Classes
<1>8. At(reg2, T) = c /\ IsReg(reg2, T) /\ \A C \in Classes : C # T => (IsReg(reg2, C) <=> IsReg(reg, C))
  <2>1. c + 2 # 0
    BY <1>6a
  <2> QED
    BY <1>7, <2>1 DEF At, IsReg
<1>9. PICK anc2 : Family(reg2, bas2, anc2)
  <2>1. /\ Family(reg, bas, anc) /\ ~IsReg(reg, T) /\ (U = NoClass \/ (U \in Classes /\ IsReg(reg, U)))
        /\ bas2 = [bas EXCEPT ![T] = U]
    BY <1>1, <1>3
  <2> QED
    BY ONLY <1>8, <2>1, T \in Classes, FamilyGrows
<1>10. StackInv(registry', stack', size', open', cls', spaces)
  <2>1. OpenClass(T, c, c + 2, c + 6)
    BY <1>3, <1>6, <1>6a DEF StaticAt, ClassAt, ConstAt
  <2>2. IsReg(registry', T) /\ c = At(registry', T)
    BY <1>3, <1>8
  <2> QED
    BY <1>6a, <2>1, <2>2, OpenClassSound
<1>11. HeapInv(heap', registry', base', log', spaces) /\ Family(registry', base', anc2)
  BY <1>3, <1>5, <1>9
<1>12. ~failed'
  OBVIOUS
<1> QED
  BY <1>10, <1>11, <1>12 DEF Sound, Good, NoAssertionFails

LEMMA BeginClassSound ==
    ASSUME NEW spaces, NEW anc, Good(spaces, anc), NEW T \in Classes, beginClass(T)
    PROVE  Sound'
<1>1. /\ open = "namespace" /\ Top # NotATable /\ ~failed /\ UNCHANGED <<base, log>>
      /\ registry[T].class = 0 \/ rawgetfield(heap, Top, T) # nil
  BY DEF beginClass, InNamespace
<1>2. Top \in spaces /\ IsSpace(heap, registry, spaces, Top) /\ IsHeap(heap)
  BY <1>1, TopIsSpace
<1>3. CASE rawgetfield(heap, Top, T) = nil
  <2>1. ~IsReg(registry, T)
    BY <1>1, <1>3 DEF IsReg
  <2>2. /\ heap' = CreateTables(heap, Top, T)
        /\ registry' = [registry EXCEPT ![T] = [static |-> StaticAt(heap), class |-> ClassAt(heap),
                                                const |-> ConstAt(heap)]]
        /\ OpenClass(T, ConstAt(heap), ClassAt(heap), StaticAt(heap))
        /\ UNCHANGED failed
    BY <1>3, Zenon DEF beginClass
  <2>3. Made(heap, heap', Top, T, NoClass, registry)
    <3>1. Top \in 1..Len(heap)
      BY <1>2 DEF IsSpace
    <3> QED
      BY <1>2, <2>2, <3>1, BaseMade
  <2>4. base' = [base EXCEPT ![T] = NoClass]
    <3>1. base = [C \in Classes |-> base[C]] /\ base[T] = NoClass
      BY <2>1, BasesKnown DEF Good
    <3>2. [base EXCEPT ![T] = NoClass] = base
      BY ONLY <3>1, T \in Classes
    <3> QED
      BY <1>1, <3>2
  <2> QED
    BY <1>1, <2>1, <2>2, <2>3, <2>4, RegisterSound
<1>4. CASE rawgetfield(heap, Top, T) # nil
  <2>1. PICK t : t = Field(heap, Top, T)
    OBVIOUS
  <2>2. IsReg(registry, T) /\ t = At(registry, T) + 5
    BY <1>2, <1>4, <2>1 DEF IsSpace, Field, Table
  <2>3. ~HasTable(heap, t, "__class")
    <3>1. rawgetfield(heap, t, "__class") = nil
      BY <2>2, Zenon DEF Good, HeapInv, Wired
    <3> QED
      BY <3>1, Values DEF HasTable
  <2>4. failed' = TRUE /\ UNCHANGED <<heap, registry, stack, size, open, cls>>
    BY <1>4, <2>1, <2>3, Zenon DEF beginClass
  <2>5. T \in Registered
    BY <2>2 DEF Registered, IsReg
  <2>6. NoAssertionFails'
    <3>1. T \in Registered' /\ rawgetfield(heap', Top', T) # nil /\ open' = "namespace"
      BY <1>1, <1>4, <2>4, <2>5 DEF Registered, Top
    <3> QED
      BY <3>1 DEF NoAssertionFails
  <2> QED
    BY <1>1, <2>4, <2>6 DEF Sound, Good
<1> QED
  BY <1>3, <1>4

LEMMA DeriveClassSound ==
    ASSUME NEW spaces, NEW anc, Good(spaces, anc), NEW T \in Classes, NEW U \in Classes, deriveClass(T, U)
    PROVE  Sound'
<1>1. /\ open = "namespace" /\ Top # NotATable /\ ~failed /\ ~IsReg(registry, T) /\ IsReg(registry, U)
      /\ heap' = SetParents(CreateTables(heap, Top, T), ConstAt(heap), ClassAt(heap), StaticAt(heap),
                            registry[U])
      /\ registry' = [registry EXCEPT ![T] = [static |-> StaticAt(heap), class |-> ClassAt(heap),
                                              const |-> ConstAt(heap)]]
      /\ base' = [base EXCEPT ![T] = U]
      /\ OpenClass(T, ConstAt(heap), ClassAt(heap), StaticAt(heap))
      /\ UNCHANGED <<failed, log>>
  BY DEF deriveClass, InNamespace, IsReg
<1>2. IsSpace(heap, registry, spaces, Top) /\ IsHeap(heap) /\ Len(heap) \in Nat
  BY <1>1, TopIsSpace
<1>3. IsRegistry(Len(heap), registry)
  BY DEF Good, HeapInv
<1>4. registry[U].const \in 1..Len(heap) /\ registry[U].class \in 1..Len(heap) /\ registry[U].static \in 1..Len(heap)
  <2>1. PICK c : c = At(registry, U)
    OBVIOUS
  <2>2. /\ c \in Nat /\ c >= 2 /\ c + 8 <= Len(heap)
        /\ registry[U].const = c /\ registry[U].class = c + 2 /\ registry[U].static = c + 6
    BY <1>1, <1>2, <1>3, <2>1, BlockInHeap
  <2> QED
    BY ONLY <1>2, <2>2
<1>5. Made(heap, heap', Top, T, U, registry)
  <2>1. Top \in 1..Len(heap)
    BY <1>2 DEF IsSpace
  <2>2. heap' = SetParents(CreateTables(heap, Top, T), Len(heap) + 1, Len(heap) + 3, Len(heap) + 7, registry[U])
    BY <1>1 DEF ConstAt, ClassAt, StaticAt
  <2>3. U # NoClass
    BY NamesApart
  <2> QED
    BY <1>2, <1>4, <2>1, <2>2, <2>3, DerivedMade
<1> QED
  BY <1>1, <1>5, RegisterSound

LEMMA SoundNext ==
    ASSUME Sound, [Next]_vars
    PROVE  Sound'
<1>1. PICK spaces, anc : Good(spaces, anc)
  BY DEF Sound
<1>1a. CASE AssertTable
  BY <1>1, <1>1a, AssertTableSound
<1>2. CASE getGlobalNamespace
  BY <1>1, <1>2, GetGlobalSound
<1>3. CASE \E name \in Spaces : beginNamespace(name)
  BY <1>1, <1>3, BeginNamespaceSound
<1>4. CASE endNamespace
  BY <1>1, <1>4, EndNamespaceSound
<1>5. CASE Destroy
  BY <1>1, <1>5, DestroySound
<1>6. CASE \E T \in Classes : beginClass(T)
  BY <1>1, <1>6, BeginClassSound
<1>7. CASE \E T, U \in Classes : deriveClass(T, U)
  BY <1>1, <1>7, DeriveClassSound
<1>8. CASE endClass
  BY <1>1, <1>8, EndClassSound
<1>9. CASE \E name \in Members, access \in {"rw", "ro"} : addStaticData(name, access)
  BY <1>1, <1>9, StaticDataSound
<1>10. CASE \E name \in Members, access \in {"rw", "ro"} : addData(name, access)
  BY <1>1, <1>10, DataSound
<1>11. CASE \E name \in Members, access \in {"rw", "ro"} : addVariable(name, access)
  BY <1>1, <1>11, VariableSound
<1>12. CASE \E name \in Members, access \in {"const", "mutable"} : addFunction(name, access)
  BY <1>1, <1>12, FunctionSound
<1>13. CASE \E name \in Members : addStaticFunction(name)
  BY <1>1, <1>13, StaticFunctionSound
<1>14. CASE \E name \in Members : addFreeFunction(name)
  BY <1>1, <1>14, FreeFunctionSound
<1>15. CASE addConstructor
  BY <1>1, <1>15, ConstructorSound
<1>16. CASE UNCHANGED vars
  <2>1. UNCHANGED <<heap, registry, stack, size, open, cls, failed, base, log>>
    BY <1>16 DEF vars
  <2> QED
    BY <1>1, <2>1 DEF Sound, Good, NoAssertionFails, Registered, Top
<1> QED
  BY <1>1a, <1>2, <1>3, <1>4, <1>5, <1>6, <1>7, <1>8, <1>9, <1>10, <1>11, <1>12, <1>13, <1>14, <1>15, <1>16
     DEF Next, Add

LEMMA AlwaysSound == Spec => []Sound
<1>1. Init => Sound
  BY SoundInit
<1>2. Sound /\ [Next]_vars => Sound'
  BY SoundNext
<1> QED
  BY <1>1, <1>2, PTL DEF Spec

-----------------------------------------------------------------------------
(* Registration *)

(* The registry holds the ids of tables. *)
LEMMA RegistryTyped ==
    ASSUME NEW n \in Nat, NEW reg, IsRegistry(n, reg), NEW C \in Classes
    PROVE  {reg[C][k] : k \in DOMAIN reg[C]} \subseteq 0..n
<1>1. CASE reg[C] = [static |-> 0, class |-> 0, const |-> 0]
  BY <1>1
<1>2. CASE reg[C] # [static |-> 0, class |-> 0, const |-> 0]
  <2>1. PICK c : c = At(reg, C)
    OBVIOUS
  <2>2. c \in 2..(n - 8) /\ reg[C] = [static |-> c + 6, class |-> c + 2, const |-> c]
    BY <1>2, <2>1 DEF IsRegistry
  <2>3. c \in 0..n /\ c + 2 \in 0..n /\ c + 6 \in 0..n
    BY <2>2
  <2> QED
    BY ONLY <2>2, <2>3
<1> QED
  BY <1>1, <1>2

LEMMA SoundRegistration ==
    ASSUME Sound
    PROVE  RegistrationSound
<1>1. PICK spaces, anc : Good(spaces, anc)
  BY DEF Sound
<1>2. NoAssertionFails
  BY DEF Sound
<1>3. /\ IsHeap(heap) /\ IsRegistry(Len(heap), registry) /\ StackInv(registry, stack, size, open, cls, spaces)
  BY <1>1 DEF Good, HeapInv
<1>4. DOMAIN heap = 1..Len(heap) /\ Len(heap) \in Nat
  BY <1>3 DEF IsHeap
<1>5. (\E S : stack \in Seq(S)) /\ size = Len(stack)
  BY <1>3 DEF StackInv
<1>6. TypeOK
  <2>1. \A t \in DOMAIN heap : \A f \in DOMAIN heap[t].f :
            heap[t].f[f].k = "table" => heap[t].f[f].id \in DOMAIN heap
    BY <1>3, <1>4 DEF IsHeap, IsTable, IsRef
  <2>2. \A T \in Classes : {registry[T][k] : k \in DOMAIN registry[T]} \subseteq 0..Len(heap)
    BY <1>3, <1>4, RegistryTyped
  <2>3. size \in Nat
    BY <1>5, LenProperties
  <2>4. open \in {"none", "namespace", "class"} /\ cls \in (IF open = "class" THEN Classes ELSE {NoClass})
    BY <1>3 DEF StackInv
  <2> QED
    BY <2>1, <2>2, <2>3, <2>4 DEF TypeOK
<1>7. StackBalanced
  BY <1>3 DEF StackInv, StackBalanced
<1>8. StackShape
  <2>1. SUFFICES ASSUME open = "class" PROVE StackShape
    BY DEF StackShape
  <2>2. PICK c : c = At(registry, cls)
    OBVIOUS
  <2>3. /\ cls \in Classes /\ IsReg(registry, cls) /\ Len(stack) >= 4
        /\ stack[Len(stack) - 2] = c /\ stack[Len(stack) - 1] = c + 2 /\ stack[Len(stack)] = c + 6
    BY <1>3, <2>1, <2>2 DEF StackInv
  <2>4. registry[cls].const = c /\ registry[cls].class = c + 2 /\ registry[cls].static = c + 6
    BY <1>3, <1>4, <2>2, <2>3, BlockInHeap
  <2> QED
    BY <2>3, <2>4 DEF StackShape, StaticTable, ClassTable, ConstTable, Top
<1> QED
  BY <1>2, <1>6, <1>7, <1>8 DEF RegistrationSound

(* In every order of registrations (Namespace.h) nothing is thrown, and no assertion fails
   but two: that what is opened as a namespace is a table, and that a class that is opened
   again has the tables it was given.  Every reference is to a table that exists, and the
   object alive owns exactly what is on the Lua stack: for a class its const, class and
   static tables above those of the namespaces that are open. *)
THEOREM RegistrationAlwaysSound == Spec => []RegistrationSound
<1>1. Sound => RegistrationSound
  BY SoundRegistration
<1>2. Spec => []Sound
  BY AlwaysSound
<1> QED
  BY <1>1, <1>2, PTL

-----------------------------------------------------------------------------
(* The chain of metatables *)

(* Tables o of C and of its bases. *)
Line(reg, anc, C, o) == [i \in 1..Len(anc[C]) |-> At(reg, anc[C][i]) + o]

(* The bases of C are C and those of its base. *)
Descends(reg, bas, anc, C) ==
    /\ anc[C] \in Seq(Classes) /\ Len(anc[C]) \in Nat /\ Len(anc[C]) >= 1 /\ anc[C][1] = C
    /\ bas[C] = NoClass => anc[C] = <<C>>
    /\ bas[C] # NoClass => /\ bas[C] \in Classes /\ IsReg(reg, C) /\ IsReg(reg, bas[C])
                           /\ anc[C] = <<C>> \o anc[bas[C]]
                           /\ Len(anc[C]) = Len(anc[bas[C]]) + 1 /\ Len(anc[bas[C]]) \in Nat

LEMMA LineageFacts ==
    ASSUME NEW reg, NEW bas, NEW anc, Family(reg, bas, anc), NEW C \in Classes
    PROVE  Descends(reg, bas, anc, C)
<1>1. /\ Lineage(reg, bas, anc, C)
      /\ \A D \in Classes : anc[D] \in Seq(Classes)
  BY DEF Family, Lineage
<1>2. /\ anc[C] \in Seq(Classes) /\ Len(anc[C]) >= 1 /\ anc[C][1] = C
      /\ bas[C] = NoClass \/ (bas[C] \in Classes /\ IsReg(reg, C) /\ IsReg(reg, bas[C]))
      /\ anc[C] = IF bas[C] = NoClass THEN <<C>> ELSE <<C>> \o anc[bas[C]]
  BY <1>1 DEF Lineage
<1>3. Len(anc[C]) \in Nat
  BY <1>2, LenProperties
<1>4. ASSUME bas[C] # NoClass
      PROVE  Len(anc[C]) = Len(anc[bas[C]]) + 1 /\ Len(anc[bas[C]]) \in Nat
  <2>1. PICK q : q = anc[bas[C]]
    OBVIOUS
  <2>2. q \in Seq(Classes) /\ anc[C] = <<C>> \o q
    BY <1>1, <1>2, <1>4, <2>1
  <2>3. Len(<<C>> \o q) = Len(q) + 1 /\ Len(q) \in Nat
    BY ONLY <2>2, C \in Classes, ConsFacts
  <2> QED
    BY ONLY <2>1, <2>2, <2>3
<1> QED
  BY <1>2, <1>3, <1>4, Zenon DEF Descends

IsLine(reg, anc, C, o, l) ==
    /\ l \in Seq({At(reg, E) + o : E \in Classes}) /\ Len(l) = Len(anc[C])
    /\ \A i \in 1..Len(anc[C]) : l[i] = At(reg, anc[C][i]) + o

LEMMA LineIsSeq ==
    ASSUME NEW reg, NEW bas, NEW anc, Family(reg, bas, anc), NEW C \in Classes, NEW o,
           NEW m, m = Line(reg, anc, C, o)
    PROVE  IsLine(reg, anc, C, o, m)
<1>0. PICK S : S = {At(reg, E) + o : E \in Classes}
  OBVIOUS
<1>1. anc[C] \in Seq(Classes) /\ Len(anc[C]) \in Nat
  BY LineageFacts DEF Descends
<1>2. \A i \in 1..Len(anc[C]) : anc[C][i] \in Classes
  BY <1>1, ElementOfSeq
<1>3. PICK n, l : n = Len(anc[C]) /\ l = [i \in 1..n |-> At(reg, anc[C][i]) + o]
  OBVIOUS
<1>4. l \in [1..n -> S]
  BY <1>0, <1>2, <1>3
<1>5. n \in Nat
  BY <1>1, <1>3
<1>6. l \in Seq(S) /\ Len(l) = n
  BY ONLY <1>4, <1>5
<1> QED
  BY <1>0, <1>3, <1>6 DEF Line, IsLine

LEMMA LineCons ==
    ASSUME NEW reg, NEW bas, NEW anc, Family(reg, bas, anc), NEW C \in Classes, NEW o
    PROVE  Line(reg, anc, C, o) = IF bas[C] = NoClass THEN <<At(reg, C) + o>>
                                  ELSE <<At(reg, C) + o>> \o Line(reg, anc, bas[C], o)
<1>1. PICK S : S = {At(reg, E) + o : E \in Classes}
  OBVIOUS
<1>2. PICK l, a : l = Line(reg, anc, C, o) /\ a = At(reg, C) + o
  OBVIOUS
<1>3. l \in Seq(S) /\ Len(l) = Len(anc[C]) /\ \A i \in 1..Len(anc[C]) : l[i] = At(reg, anc[C][i]) + o
  <2>1. IsLine(reg, anc, C, o, l)
    BY <1>2, LineIsSeq
  <2> QED
    BY ONLY <1>1, <2>1 DEF IsLine
<1>3a. Descends(reg, bas, anc, C)
  BY LineageFacts
<1>4. a \in S
  BY <1>1, <1>2
<1>5. CASE bas[C] = NoClass
  <2>1. anc[C] = <<C>>
    BY <1>3a, <1>5 DEF Descends
  <2>2. Len(l) = 1 /\ l[1] = a
    BY <1>2, <1>3, <2>1
  <2>3. l = <<a>>
    BY ONLY <1>3, <1>4, <2>2, SeqEqual
  <2> QED
    BY <1>2, <1>5, <2>3
<1>6. CASE bas[C] # NoClass
  <2>1. PICK D, q, r : D = bas[C] /\ q = anc[bas[C]] /\ r = Line(reg, anc, bas[C], o)
    OBVIOUS
  <2>2. D \in Classes /\ anc[C] = <<C>> \o q /\ Len(anc[C]) = Len(q) + 1 /\ Len(q) \in Nat
    BY <1>3a, <1>6, <2>1 DEF Descends
  <2>3. q \in Seq(Classes)
    <3>1. Descends(reg, bas, anc, D)
      BY <2>2, LineageFacts
    <3> QED
      BY <2>1, <3>1 DEF Descends
  <2>4. r \in Seq(S) /\ Len(r) = Len(q) /\ \A i \in 1..Len(q) : r[i] = At(reg, q[i]) + o
    <3>1. IsLine(reg, anc, D, o, r)
      BY <2>1, <2>2, LineIsSeq
    <3> QED
      BY ONLY <1>1, <2>1, <3>1 DEF IsLine
  <2>5. (<<C>> \o q)[1] = C /\ \A i \in 1..Len(q) : (<<C>> \o q)[i + 1] = q[i]
    BY ONLY <2>3, C \in Classes, ConsFacts
  <2>6. PICK m : m = <<a>> \o r
    OBVIOUS
  <2>7. m \in Seq(S) /\ Len(m) = Len(r) + 1 /\ m[1] = a /\ \A i \in 1..Len(r) : m[i + 1] = r[i]
    BY ONLY <1>4, <2>4, <2>6, ConsFacts
  <2>8. ASSUME NEW i \in 1..Len(l) PROVE l[i] = m[i]
    <3>1. l[i] = At(reg, anc[C][i]) + o
      BY <1>3
    <3>2. CASE i = 1
      BY <1>2, <2>2, <2>5, <2>7, <3>1, <3>2
    <3>3. CASE i # 1
      <4>1. PICK j : j = i - 1
        OBVIOUS
      <4>2. j \in 1..Len(q) /\ i = j + 1
        BY <1>3, <2>2, <3>3, <4>1
      <4>3. anc[C][i] = q[j] /\ m[i] = r[j]
        BY <2>2, <2>4, <2>5, <2>7, <4>2
      <4> QED
        BY <2>4, <3>1, <4>2, <4>3
    <3> QED
      BY <3>2, <3>3
  <2>9. l = m
    <3>1. Len(l) = Len(m)
      BY <1>3, <2>2, <2>4, <2>7
    <3> QED
      BY ONLY <1>3, <2>7, <2>8, <3>1, SeqEqual
  <2> QED
    BY <1>2, <1>6, <2>1, <2>6, <2>9
<1> QED
  BY <1>5, <1>6

Structured(h, reg, bas, anc) ==
    /\ IsHeap(h) /\ IsRegistry(Len(h), reg) /\ Family(reg, bas, anc) /\ ParentsKnown(h, reg, bas)
    /\ \A C \in Classes : IsReg(reg, C) => Wired(h, reg, bas, C)

LEMMA TablesApart ==
    ASSUME NEW n \in Nat, NEW reg, IsRegistry(n, reg), NEW C \in Classes, NEW D \in Classes,
           IsReg(reg, C), IsReg(reg, D), NEW o \in 0..8, NEW p \in 0..8,
           At(reg, C) + o = At(reg, D) + p
    PROVE  C = D /\ o = p
<1>1. PICK c, d : c = At(reg, C) /\ d = At(reg, D)
  OBVIOUS
<1>2. c \in Nat /\ d \in Nat
  BY <1>1, BlockInHeap
<1>3. C # D => c + 8 < d \/ d + 8 < c
  BY <1>1 DEF IsRegistry
<1>4. C = D
  BY ONLY <1>1, <1>2, <1>3, At(reg, C) + o = At(reg, D) + p, o \in 0..8, p \in 0..8
<1>5. c + o = c + p
  BY <1>1, <1>4
<1> QED
  BY ONLY <1>2, <1>4, <1>5, o \in 0..8, p \in 0..8

(* Tables 0, 2 and 6 of a class have tables 0, 2 and 6 of its base as their parents. *)
ParentIs(h, reg, bas, C, o, t) ==
    /\ t \in 1..Len(h)
    /\ bas[C] = NoClass => ~HasTable(h, t, "__parent")
    /\ bas[C] # NoClass => HasTable(h, t, "__parent") /\ Field(h, t, "__parent") = At(reg, bas[C]) + o

LEMMA Parents ==
    ASSUME NEW h, NEW reg, NEW bas, NEW anc, Structured(h, reg, bas, anc),
           NEW C \in Classes, IsReg(reg, C), NEW o \in {0, 2, 6}, NEW t, t = At(reg, C) + o
    PROVE  ParentIs(h, reg, bas, C, o, t)
<1>1. IsHeap(h) /\ IsRegistry(Len(h), reg) /\ Wired(h, reg, bas, C) /\ Family(reg, bas, anc)
  BY DEF Structured
<1>2. Len(h) \in Nat
  BY <1>1 DEF IsHeap
<1>3. PICK c : c = At(reg, C)
  OBVIOUS
<1>4. c \in Nat /\ c >= 2 /\ c + 8 <= Len(h)
  BY <1>1, <1>2, <1>3, BlockInHeap
<1>5. t = c + o /\ t \in 1..Len(h) /\ c + 0 = c
  BY ONLY <1>2, <1>3, <1>4, t = At(reg, C) + o, o \in {0, 2, 6}
<1>6. CASE bas[C] = NoClass
  <2>1. /\ rawgetfield(h, c, "__parent") = nil
        /\ rawgetfield(h, c + 2, "__parent") = nil
        /\ rawgetfield(h, c + 6, "__parent") = nil
    BY <1>1, <1>3, <1>6, Zenon DEF Wired
  <2>2. rawgetfield(h, t, "__parent") = nil
    BY ONLY <1>5, <2>1, o \in {0, 2, 6}
  <2>3. ~HasTable(h, t, "__parent")
    BY <2>2, Values DEF HasTable
  <2> QED
    BY <1>5, <1>6, <2>3 DEF ParentIs
<1>7. CASE bas[C] # NoClass
  <2>1. PICK d : d = At(reg, bas[C])
    OBVIOUS
  <2>2. /\ rawgetfield(h, c, "__parent") = Table(d)
        /\ rawgetfield(h, c + 2, "__parent") = Table(d + 2)
        /\ rawgetfield(h, c + 6, "__parent") = Table(d + 6)
    BY <1>1, <1>3, <1>7, <2>1, Zenon DEF Wired
  <2>3. d \in Nat
    <3>1. Descends(reg, bas, anc, C)
      BY <1>1, LineageFacts
    <3>2. bas[C] \in Classes /\ IsReg(reg, bas[C])
      BY <1>7, <3>1 DEF Descends
    <3> QED
      BY <1>1, <1>2, <2>1, <3>2, BlockInHeap
  <2>4. rawgetfield(h, t, "__parent") = Table(d + o)
    <3>1. d + 0 = d
      BY <2>3
    <3> QED
      BY ONLY <1>5, <2>2, <3>1, o \in {0, 2, 6}
  <2>5. HasTable(h, t, "__parent") /\ Field(h, t, "__parent") = d + o
    BY <2>4 DEF HasTable, Field, Table
  <2> QED
    BY <1>5, <1>7, <2>1, <2>5 DEF ParentIs
<1> QED
  BY <1>6, <1>7

(* The chain of t, if t is table 0, 2 or 6 of a class. *)
Owned(reg, t) == {p \in Classes \X {0, 2, 6} : IsReg(reg, p[1]) /\ t = At(reg, p[1]) + p[2]}

ChainOf(reg, anc, t) ==
    IF Owned(reg, t) = {} THEN <<t>>
    ELSE Line(reg, anc, (CHOOSE p \in Owned(reg, t) : TRUE)[1], (CHOOSE p \in Owned(reg, t) : TRUE)[2])

LEMMA ChainOfTable ==
    ASSUME NEW n \in Nat, NEW reg, IsRegistry(n, reg), NEW anc,
           NEW C \in Classes, IsReg(reg, C), NEW o \in {0, 2, 6}, NEW t, t = At(reg, C) + o
    PROVE  ChainOf(reg, anc, t) = Line(reg, anc, C, o)
<1>1. PICK q : q = <<C, o>>
  OBVIOUS
<1>2. q \in Owned(reg, t) /\ q[1] = C /\ q[2] = o
  BY <1>1 DEF Owned
<1>3. ASSUME NEW p \in Owned(reg, t) PROVE p = q
  <2>1. p \in Classes \X {0, 2, 6} /\ IsReg(reg, p[1]) /\ t = At(reg, p[1]) + p[2]
    BY <1>3 DEF Owned
  <2>2. PICK D \in Classes, e \in {0, 2, 6} : p = <<D, e>>
    BY <2>1
  <2>3. IsReg(reg, D) /\ At(reg, C) + o = At(reg, D) + e
    BY <2>1, <2>2
  <2>4. o \in 0..8 /\ e \in 0..8
    OBVIOUS
  <2>5. C = D /\ o = e
    BY ONLY <2>3, <2>4, IsRegistry(n, reg), n \in Nat, IsReg(reg, C), C \in Classes, D \in Classes, TablesApart
  <2> QED
    BY <1>1, <2>2, <2>5
<1>4. PICK r : r = CHOOSE p \in Owned(reg, t) : TRUE
  OBVIOUS
<1>5. r \in Owned(reg, t)
  BY <1>2, <1>4
<1>6. r = q
  BY <1>3, <1>5
<1>7. Owned(reg, t) # {}
  BY <1>2
<1>8. ChainOf(reg, anc, t) = Line(reg, anc, r[1], r[2])
  BY ONLY <1>4, <1>7 DEF ChainOf
<1> QED
  BY <1>2, <1>6, <1>8

(* ChainOf solves the equation of the search's recursion. *)
LEMMA ChainOfStep ==
    ASSUME NEW h, NEW reg, NEW bas, NEW anc, Structured(h, reg, bas, anc), NEW t \in 1..Len(h)
    PROVE  /\ HasTable(h, t, "__parent") => Field(h, t, "__parent") \in 1..Len(h)
           /\ ChainOf(reg, anc, t) = IF HasTable(h, t, "__parent")
                                     THEN <<t>> \o ChainOf(reg, anc, Field(h, t, "__parent")) ELSE <<t>>
<1>1. /\ IsHeap(h) /\ IsRegistry(Len(h), reg) /\ Family(reg, bas, anc) /\ ParentsKnown(h, reg, bas)
  BY DEF Structured
<1>2. Len(h) \in Nat
  BY <1>1 DEF IsHeap
<1>3. CASE Owned(reg, t) = {}
  <2>1. ~HasTable(h, t, "__parent")
    <3>1. SUFFICES ASSUME HasTable(h, t, "__parent") PROVE FALSE
      OBVIOUS
    <3>2. PICK C \in Classes, o \in {0, 2, 6} : IsReg(reg, C) /\ bas[C] # NoClass /\ t = At(reg, C) + o
      BY <1>1, <3>1 DEF ParentsKnown
    <3>3. PICK q : q = <<C, o>>
      OBVIOUS
    <3>4. q \in Owned(reg, t)
      BY <3>2, <3>3 DEF Owned
    <3> QED
      BY <1>3, <3>4
  <2> QED
    BY <1>3, <2>1 DEF ChainOf
<1>4. CASE Owned(reg, t) # {}
  <2>1. PICK p \in Owned(reg, t) : TRUE
    BY <1>4
  <2>2. PICK C \in Classes, o \in {0, 2, 6} : IsReg(reg, C) /\ t = At(reg, C) + o
    BY DEF Owned
  <2>3. ParentIs(h, reg, bas, C, o, t)
    BY <2>2, Parents
  <2>4. ChainOf(reg, anc, t) = Line(reg, anc, C, o)
    BY <1>1, <1>2, <2>2, ChainOfTable
  <2>5. Line(reg, anc, C, o) = IF bas[C] = NoClass THEN <<t>> ELSE <<t>> \o Line(reg, anc, bas[C], o)
    BY <1>1, <2>2, LineCons
  <2>6. CASE bas[C] = NoClass
    BY <2>3, <2>4, <2>5, <2>6 DEF ParentIs
  <2>7. CASE bas[C] # NoClass
    <3>1. PICK u : u = At(reg, bas[C]) + o
      OBVIOUS
    <3>2. HasTable(h, t, "__parent") /\ Field(h, t, "__parent") = u
      BY <2>3, <2>7, <3>1 DEF ParentIs
    <3>3. Descends(reg, bas, anc, C)
      BY <1>1, LineageFacts
    <3>4. bas[C] \in Classes /\ IsReg(reg, bas[C])
      BY <2>7, <3>3 DEF Descends
    <3>5. ChainOf(reg, anc, u) = Line(reg, anc, bas[C], o)
      BY <1>1, <1>2, <3>1, <3>4, ChainOfTable
    <3>6. u \in 1..Len(h)
      <4>1. ParentIs(h, reg, bas, bas[C], o, u)
        BY <3>1, <3>4, Parents
      <4> QED
        BY <4>1 DEF ParentIs
    <3> QED
      BY <2>4, <2>5, <2>7, <3>2, <3>5, <3>6
  <2> QED
    BY <2>6, <2>7
<1> QED
  BY <1>3, <1>4

(* A search from table o of C goes through tables o of C and of its bases, nearest first. *)
LEMMA ChainIs ==
    ASSUME NEW anc, Structured(heap, registry, base, anc),
           NEW C \in Classes, IsReg(registry, C), NEW o \in {0, 2, 6}
    PROVE  Chain(At(registry, C) + o) = Line(registry, anc, C, o)
<1>1. IsHeap(heap) /\ IsRegistry(Len(heap), registry) /\ Family(registry, base, anc)
  BY DEF Structured
<1>2. Len(heap) \in Nat
  BY <1>1 DEF IsHeap
<1>3. PICK w : w = [t \in 1..Len(heap) |-> ChainOf(registry, anc, t)]
  OBVIOUS
<1>4. ASSUME NEW t \in 1..Len(heap)
      PROVE  w[t] = IF HasTable(heap, t, "__parent") THEN <<t>> \o w[Field(heap, t, "__parent")] ELSE <<t>>
  <2>1. /\ HasTable(heap, t, "__parent") => Field(heap, t, "__parent") \in 1..Len(heap)
        /\ ChainOf(registry, anc, t) = IF HasTable(heap, t, "__parent")
                                       THEN <<t>> \o ChainOf(registry, anc, Field(heap, t, "__parent"))
                                       ELSE <<t>>
    BY ChainOfStep
  <2> QED
    BY <1>3, <2>1
<1>5. w = [t \in 1..Len(heap) |->
            IF HasTable(heap, t, "__parent") THEN <<t>> \o w[Field(heap, t, "__parent")] ELSE <<t>>]
  BY <1>3, <1>4
<1>6. PICK mt : mt = At(registry, C) + o
  OBVIOUS
<1>7. PICK up : /\ up = [t \in 1..Len(heap) |->
                      IF HasTable(heap, t, "__parent") THEN <<t>> \o up[Field(heap, t, "__parent")] ELSE <<t>>]
                /\ Chain(mt) = up[mt]
  BY <1>5, Zenon DEF Chain
<1>8. \A t \in 1..Len(heap) :
        up[t] = IF HasTable(heap, t, "__parent") THEN <<t>> \o up[Field(heap, t, "__parent")] ELSE <<t>>
  BY <1>7
<1> DEFINE Bad == {D \in Classes : IsReg(registry, D) /\ up[At(registry, D) + o] # Line(registry, anc, D, o)}
<1>9. ASSUME Bad # {} PROVE FALSE
  <2> DEFINE S == {Len(anc[D]) : D \in Bad}
  <2>1. S \subseteq Nat /\ S # {}
    <3>1. \A D \in Bad : Descends(registry, base, anc, D)
      BY <1>1, LineageFacts
    <3>2. \A D \in Bad : Len(anc[D]) \in Nat
      BY <3>1 DEF Descends
    <3> QED
      BY <1>9, <3>2
  <2>2. PICK k \in S : \A l \in S : k <= l
    BY <2>1, HasFirst
  <2>3. PICK D \in Bad : k = Len(anc[D])
    OBVIOUS
  <2>4. \A E \in Bad : Len(anc[D]) <= Len(anc[E])
    BY <2>2, <2>3
  <2>5. PICK t : t = At(registry, D) + o
    OBVIOUS
  <2>6. D \in Classes /\ IsReg(registry, D) /\ up[t] # Line(registry, anc, D, o)
    BY <2>5
  <2>7. ParentIs(heap, registry, base, D, o, t)
    BY <2>5, <2>6, Parents
  <2>8. Line(registry, anc, D, o) = IF base[D] = NoClass THEN <<t>> ELSE <<t>> \o Line(registry, anc, base[D], o)
    BY <1>1, <2>5, <2>6, LineCons
  <2>9. up[t] = IF HasTable(heap, t, "__parent") THEN <<t>> \o up[Field(heap, t, "__parent")] ELSE <<t>>
    BY <1>8, <2>7 DEF ParentIs
  <2>10. CASE base[D] = NoClass
    BY <2>6, <2>7, <2>8, <2>9, <2>10 DEF ParentIs
  <2>11. CASE base[D] # NoClass
    <3>1. Descends(registry, base, anc, D)
      BY <1>1, <2>6, LineageFacts
    <3>2. base[D] \in Classes /\ IsReg(registry, base[D]) /\ ~(Len(anc[D]) <= Len(anc[base[D]]))
      <4>1. /\ base[D] \in Classes /\ IsReg(registry, base[D])
            /\ Len(anc[D]) = Len(anc[base[D]]) + 1 /\ Len(anc[base[D]]) \in Nat
        BY <2>11, <3>1 DEF Descends
      <4> QED
        BY ONLY <4>1
    <3>3. base[D] \notin Bad
      BY <2>4, <3>2
    <3>4. up[At(registry, base[D]) + o] = Line(registry, anc, base[D], o)
      BY <3>2, <3>3
    <3> QED
      BY <2>6, <2>7, <2>8, <2>9, <2>11, <3>4 DEF ParentIs
  <2> QED
    BY <2>10, <2>11
<1>10. C \notin Bad
  BY <1>9
<1> QED
  BY <1>6, <1>7, <1>10

-----------------------------------------------------------------------------
(* The bases of a class *)

(* The first k of q, one class after the other. *)
LEMMA FirstOf ==
    ASSUME NEW q \in Seq(Classes), NEW k \in Nat, k < Len(q)
    PROVE  /\ SubSeq(q, 1, k) \in Seq(Classes) /\ Len(SubSeq(q, 1, k)) = k
           /\ k > 0 => SubSeq(q, 1, k)[k] = q[k]
           /\ SubSeq(q, 1, k + 1) = Append(SubSeq(q, 1, k), q[k + 1])
<1>1. Len(q) \in Nat
  BY LenProperties
<1>2. k + 1 \in 1..Len(q) /\ k \in 0..Len(q)
  BY <1>1
<1>3. PICK s : s = SubSeq(q, 1, k)
  OBVIOUS
<1>4. s \in Seq(Classes) /\ Len(s) = k /\ \A i \in 1..k : s[i] = q[i]
  <2>1. \A i \in 1..k : q[i] \in Classes
    <3>1. \A i \in 1..Len(q) : q[i] \in Classes
      BY ElementOfSeq
    <3> QED
      BY <1>1, <3>1
  <2> QED
    BY <1>3, <2>1
<1>5. PICK u : u = SubSeq(q, 1, k + 1)
  OBVIOUS
<1>6. u \in Seq(Classes) /\ Len(u) = k + 1 /\ \A i \in 1..(k + 1) : u[i] = q[i]
  <2>1. \A i \in 1..(k + 1) : q[i] \in Classes
    <3>1. \A i \in 1..Len(q) : q[i] \in Classes
      BY ElementOfSeq
    <3> QED
      BY <1>1, <3>1
  <2> QED
    BY <1>5, <2>1
<1>7. q[k + 1] \in Classes
  BY <1>2, ElementOfSeq
<1>8. PICK v : v = Append(s, q[k + 1])
  OBVIOUS
<1>9. v \in Seq(Classes) /\ Len(v) = k + 1 /\ v[k + 1] = q[k + 1] /\ \A i \in 1..k : v[i] = s[i]
  BY ONLY <1>4, <1>7, <1>8, AppendProperties
<1>10. \A i \in 1..(k + 1) : u[i] = v[i]
  <2>1. \A i \in 1..(k + 1) : i \in 1..k \/ i = k + 1
    OBVIOUS
  <2> QED
    BY <1>4, <1>6, <1>9, <2>1
<1>11. u = v
  BY ONLY <1>6, <1>9, <1>10, SeqEqual
<1> QED
  BY <1>3, <1>4, <1>5, <1>8, <1>11

(* A class has no more bases than there are classes. *)
LEMMA FewBases ==
    ASSUME NEW q \in Seq(Classes), \A i, j \in 1..Len(q) : i # j => q[i] # q[j]
    PROVE  Len(q) <= Cardinality(Classes) /\ Cardinality(Classes) \in Nat
<1>1. Len(q) \in Nat /\ IsFiniteSet(Classes)
  BY LenProperties, NamesAssumption
<1>2. Cardinality(Classes) \in Nat
  BY <1>1, FS_CardinalityType
<1>3. IsFiniteSet(1..Len(q)) /\ Cardinality(1..Len(q)) = Len(q)
  <2>1. PICK n : n = Len(q)
    OBVIOUS
  <2>2. IsFiniteSet(1..n) /\ Cardinality(1..n) = IF 1 > n THEN 0 ELSE n - 1 + 1
    <3>1. 1 \in Int /\ n \in Int
      BY <1>1, <2>1
    <3> QED
      BY ONLY <3>1, FS_Interval
  <2> QED
    BY <1>1, <2>1, <2>2
<1>4. q \in [1..Len(q) -> Classes]
  BY <1>1, LenProperties, ElementOfSeq
<1>5. ASSUME Len(q) > Cardinality(Classes) PROVE FALSE
  <2>1. Cardinality(Classes) < Cardinality(1..Len(q))
    BY <1>1, <1>2, <1>3, <1>5
  <2>2. \E x, y \in 1..Len(q) : x # y /\ q[x] = q[y]
    BY ONLY <1>1, <1>3, <1>4, <2>1, FS_PigeonHole
  <2> QED
    BY <2>2
<1> QED
  BY <1>1, <1>2, <1>5

(* The model's Ancestors is the history of derivations. *)
LEMMA AncestorsAre ==
    ASSUME NEW reg, NEW anc, Family(reg, base, anc), NEW T \in Classes
    PROVE  Ancestors(T) = anc[T]
<1>1. PICK q, l : q = anc[T] /\ l = Len(anc[T])
  OBVIOUS
<1>2. /\ q \in Seq(Classes) /\ l = Len(q) /\ l >= 1 /\ q[1] = T
      /\ \A i \in 1..(l - 1) : base[q[i]] = q[i + 1]
      /\ base[q[l]] = NoClass
      /\ \A i, j \in 1..Len(q) : i # j => q[i] # q[j]
  <2>1. Lineage(reg, base, anc, T)
    BY DEF Family
  <2> QED
    BY ONLY <1>1, <2>1 DEF Lineage
<1>3. l \in Nat /\ \A i \in 1..l : q[i] \in Classes
  BY <1>2, LenProperties, ElementOfSeq
<1>4. PICK w : w = [n \in Nat |-> SubSeq(q, 1, IF n < l THEN n + 1 ELSE l)]
  OBVIOUS
<1>5. ASSUME NEW n \in Nat
      PROVE  w[n] = IF n = 0 THEN <<T>>
                    ELSE LET a == w[n - 1]
                         IN  IF base[a[Len(a)]] = NoClass THEN a ELSE Append(a, base[a[Len(a)]])
  <2>1. CASE n = 0
    <3>1. w[0] = SubSeq(q, 1, 1)
      <4>1. (IF 0 < l THEN 0 + 1 ELSE l) = 1
        BY <1>2, <1>3
      <4> QED
        BY <1>4, <4>1
    <3>2. SubSeq(q, 1, 1) = <<q[1]>>
      <4>1. PICK s : s = SubSeq(q, 1, 1)
        OBVIOUS
      <4>2. 1 \in 1..l /\ q[1] \in Classes
        BY <1>2, <1>3
      <4>3. s \in Seq(Classes) /\ Len(s) = 1 /\ s[1] = q[1]
        BY ONLY <4>1, <4>2
      <4>4. s = <<q[1]>>
        BY ONLY <4>2, <4>3, SeqEqual
      <4> QED
        BY <4>1, <4>4
    <3> QED
      BY <1>2, <2>1, <3>1, <3>2
  <2>2. CASE n # 0 /\ n < l
    <3>1. PICK a : a = w[n - 1]
      OBVIOUS
    <3>2. w[n] = SubSeq(q, 1, n + 1) /\ a = SubSeq(q, 1, n)
      <4>1. n - 1 \in Nat /\ n - 1 < l /\ n - 1 + 1 = n
        BY <1>3, <2>2
      <4> QED
        BY <1>4, <2>2, <3>1, <4>1
    <3>3. Len(a) = n /\ a[n] = q[n] /\ w[n] = Append(a, q[n + 1])
      BY <1>2, <2>2, <3>2, FirstOf
    <3>4. n \in 1..(l - 1) /\ n + 1 \in 1..l
      BY <1>3, <2>2
    <3>5. base[a[Len(a)]] = q[n + 1] /\ q[n + 1] # NoClass
      BY <1>2, <1>3, <3>3, <3>4, NamesApart
    <3> QED
      BY <2>2, <3>1, <3>3, <3>5
  <2>3. CASE n # 0 /\ n >= l
    <3>1. PICK a : a = w[n - 1]
      OBVIOUS
    <3>2. w[n] = SubSeq(q, 1, l) /\ a = SubSeq(q, 1, l)
      <4>1. n - 1 \in Nat /\ (n - 1 < l => n - 1 + 1 = l) /\ ~(n < l)
        BY <1>3, <2>3
      <4> QED
        BY <1>4, <2>3, <3>1, <4>1
    <3>3. a = q
      BY <1>2, <3>2, SubSeqFull
    <3>4. base[a[Len(a)]] = NoClass
      BY <1>2, <3>3
    <3> QED
      BY <2>3, <3>1, <3>2, <3>4
  <2> QED
    BY <1>3, <2>1, <2>2, <2>3
<1>6. w = [n \in Nat |-> IF n = 0 THEN <<T>>
                         ELSE LET a == w[n - 1]
                              IN  IF base[a[Len(a)]] = NoClass THEN a ELSE Append(a, base[a[Len(a)]])]
  BY <1>4, <1>5
<1>7. PICK up : /\ up = [n \in Nat |-> IF n = 0 THEN <<T>>
                                       ELSE LET a == up[n - 1]
                                            IN  IF base[a[Len(a)]] = NoClass THEN a
                                                ELSE Append(a, base[a[Len(a)]])]
                /\ Ancestors(T) = up[Cardinality(Classes)]
  BY <1>6, Zenon DEF Ancestors
<1>8. ASSUME NEW k \in Nat, up[k] # w[k] PROVE FALSE
  <2> DEFINE S == {n \in Nat : up[n] # w[n]}
  <2>1. PICK n \in S : \A m \in S : n <= m
    <3>1. S \subseteq Nat /\ k \in S
      BY <1>8
    <3> QED
      BY <3>1, HasFirst
  <2>2. n \in Nat /\ up[n] # w[n]
    OBVIOUS
  <2>3. /\ up[n] = IF n = 0 THEN <<T>>
                   ELSE LET a == up[n - 1]
                        IN  IF base[a[Len(a)]] = NoClass THEN a ELSE Append(a, base[a[Len(a)]])
        /\ w[n] = IF n = 0 THEN <<T>>
                  ELSE LET a == w[n - 1]
                       IN  IF base[a[Len(a)]] = NoClass THEN a ELSE Append(a, base[a[Len(a)]])
    BY <1>5, <1>7, <2>2
  <2>4. CASE n = 0
    BY <2>2, <2>3, <2>4
  <2>5. CASE n # 0
    <3>1. n - 1 \in Nat /\ ~(n <= n - 1)
      BY <2>2, <2>5
    <3>2. up[n - 1] = w[n - 1]
      BY <2>1, <3>1
    <3> QED
      BY <2>2, <2>3, <3>2
  <2> QED
    BY <2>4, <2>5
<1>9. PICK N : N = Cardinality(Classes)
  OBVIOUS
<1>10. N \in Nat /\ l <= N
  BY <1>2, <1>9, FewBases
<1>11. Ancestors(T) = w[N]
  BY <1>7, <1>8, <1>9, <1>10
<1>12. w[N] = SubSeq(q, 1, l)
  BY <1>3, <1>4, <1>10
<1>13. SubSeq(q, 1, l) = q
  BY <1>2, SubSeqFull
<1> QED
  BY <1>1, <1>11, <1>12, <1>13

-----------------------------------------------------------------------------
(* The class of an object *)

(* What the invariant says of a class T: where its tables are, which chains start at them and
   which classes are its bases. *)
Placed(anc, T, c) ==
    /\ c = At(registry, T) /\ c \in Nat /\ c \in 1..Len(heap) /\ c + 2 \in 1..Len(heap)
    /\ registry[T].const = c /\ registry[T].class = c + 2 /\ registry[T].static = c + 6
    /\ Wired(heap, registry, base, T)
    /\ Ancestors(T) = anc[T]
    /\ anc[T] \in Seq(Classes) /\ Len(anc[T]) \in Nat
    /\ \A i \in 1..Len(anc[T]) : anc[T][i] \in Classes /\ IsReg(registry, anc[T][i])
    /\ \A o \in {0, 2, 6} : Chain(c + o) = Line(registry, anc, T, o)

LEMMA PlacedAt ==
    ASSUME NEW spaces, NEW anc, Good(spaces, anc), NEW T \in Registered, NEW c, c = At(registry, T)
    PROVE  Placed(anc, T, c)
<1>1. /\ IsHeap(heap) /\ IsRegistry(Len(heap), registry) /\ Family(registry, base, anc)
      /\ Structured(heap, registry, base, anc)
  BY DEF Good, HeapInv, Structured
<1>2. Len(heap) \in Nat /\ T \in Classes /\ IsReg(registry, T)
  BY <1>1 DEF IsHeap, Registered, IsReg
<1>3. /\ c \in Nat /\ c >= 2 /\ c + 8 <= Len(heap)
      /\ registry[T].const = c /\ registry[T].class = c + 2 /\ registry[T].static = c + 6
  BY <1>1, <1>2, BlockInHeap
<1>3a. c \in 1..Len(heap) /\ c + 2 \in 1..Len(heap)
  BY ONLY <1>2, <1>3
<1>4. Wired(heap, registry, base, T)
  BY <1>1, <1>2 DEF Structured
<1>5. Ancestors(T) = anc[T]
  BY <1>1, <1>2, AncestorsAre
<1>6. Lineage(registry, base, anc, T)
  BY <1>1, <1>2 DEF Family
<1>7. anc[T] \in Seq(Classes) /\ Len(anc[T]) \in Nat
      /\ \A i \in 1..Len(anc[T]) : anc[T][i] \in Classes /\ IsReg(registry, anc[T][i])
  <2>1. anc[T] \in Seq(Classes) /\ \A i \in 1..Len(anc[T]) : IsReg(registry, anc[T][i])
    BY <1>2, <1>6 DEF Lineage
  <2> QED
    BY <2>1, LenProperties, ElementOfSeq
<1>8. \A o \in {0, 2, 6} : Chain(c + o) = Line(registry, anc, T, o)
  BY <1>1, <1>2, ChainIs
<1> QED
  BY <1>3, <1>3a, <1>4, <1>5, <1>7, <1>8 DEF Placed

(* Table o of U is on the chain of T exactly if U is T or one of its bases. *)
LEMMA OnChain ==
    ASSUME NEW spaces, NEW anc, Good(spaces, anc), NEW T \in Registered, NEW U \in Registered,
           NEW o \in {0, 2, 6}
    PROVE  (\E i \in DOMAIN Chain(At(registry, T) + o) : Chain(At(registry, T) + o)[i] = At(registry, U) + o)
               <=> (\E i \in DOMAIN Ancestors(T) : Ancestors(T)[i] = U)
<1>1. Placed(anc, T, At(registry, T))
  BY PlacedAt
<1>2. PICK l, q : l = Chain(At(registry, T) + o) /\ q = Ancestors(T)
  OBVIOUS
<1>3. l = Line(registry, anc, T, o) /\ q = anc[T] /\ q \in Seq(Classes) /\ Len(q) \in Nat
      /\ \A i \in 1..Len(q) : q[i] \in Classes /\ IsReg(registry, q[i])
  BY <1>1, <1>2 DEF Placed
<1>4. DOMAIN l = 1..Len(q) /\ \A i \in 1..Len(q) : l[i] = At(registry, q[i]) + o
  BY <1>3 DEF Line
<1>5. DOMAIN q = 1..Len(q)
  BY <1>3
<1>6. IsRegistry(Len(heap), registry) /\ Len(heap) \in Nat
  BY DEF Good, HeapInv, IsHeap
<1>7. U \in Classes /\ IsReg(registry, U)
  BY DEF Registered, IsReg
<1>8. ASSUME NEW i \in 1..Len(q) PROVE l[i] = At(registry, U) + o <=> q[i] = U
  <2>1. q[i] \in Classes /\ IsReg(registry, q[i]) /\ l[i] = At(registry, q[i]) + o /\ o \in 0..8
    BY <1>3, <1>4
  <2>2. CASE l[i] = At(registry, U) + o
    <3>1. At(registry, q[i]) + o = At(registry, U) + o
      BY <2>1, <2>2
    <3>2. q[i] = U
      BY ONLY <1>6, <1>7, <2>1, <3>1, TablesApart
    <3> QED
      BY <2>2, <3>2
  <2>3. CASE l[i] # At(registry, U) + o
    BY <2>1, <2>3
  <2> QED
    BY <2>2, <2>3
<1> QED
  BY <1>2, <1>4, <1>5, <1>8

LEMMA SoundClassCheck ==
    ASSUME Sound
    PROVE  ClassCheckIsExact
<1>1. PICK spaces, anc : Good(spaces, anc)
  BY DEF Sound
<1>2. SUFFICES ASSUME NEW T \in Registered, NEW U \in Registered
               PROVE  LET derived == \E i \in DOMAIN Ancestors(T) : Ancestors(T)[i] = U
                      IN  /\ \A can \in BOOLEAN :
                            /\ Userdata_getClass(registry[T].class, U, can) <=> derived
                            /\ Userdata_getClass(registry[T].const, U, can) <=> (derived /\ can)
                          /\ \A mt \in {registry[T].class, registry[T].const} :
                                Userdata_getExactClass(mt, U) <=> T = U
  BY Zenon DEF ClassCheckIsExact
<1>3. PICK c, d : c = At(registry, T) /\ d = At(registry, U)
  OBVIOUS
<1>4. Placed(anc, T, c) /\ Placed(anc, U, d)
  BY <1>1, <1>3, PlacedAt
<1>5. /\ c \in Nat /\ registry[T].const = c /\ registry[T].class = c + 2
      /\ d \in Nat /\ registry[U].const = d /\ registry[U].class = d + 2
  BY <1>4 DEF Placed
<1>6. /\ rawgetfield(heap, c, "identity") # nil /\ rawgetfield(heap, c, "__const") = nil
      /\ rawgetfield(heap, c + 2, "identity") # nil /\ rawgetfield(heap, c + 2, "__const") = Table(c)
      /\ rawgetfield(heap, d + 2, "__const") = Table(d)
  BY <1>3, <1>4 DEF Placed, Wired
<1>7. IsConst(c) /\ ~IsConst(c + 2) /\ Field(heap, d + 2, "__const") = d
  <2>1. Table(c) # nil
    BY <1>4, References DEF Placed
  <2> QED
    BY <1>6, <2>1 DEF IsConst, Field, Table
<1>8. PICK derived \in BOOLEAN : derived <=> \E i \in DOMAIN Ancestors(T) : Ancestors(T)[i] = U
  OBVIOUS
<1>9. (\E i \in DOMAIN Chain(c + 2) : Chain(c + 2)[i] = d + 2) <=> derived
  BY <1>1, <1>3, <1>8, OnChain
<1>10. (\E i \in DOMAIN Chain(c) : Chain(c)[i] = d) <=> derived
  <2>1. PICK z : z = 0
    OBVIOUS
  <2>2. z \in {0, 2, 6}
    BY ONLY <2>1
  <2>3. (\E i \in DOMAIN Chain(c + z) : Chain(c + z)[i] = d + z) <=> derived
    BY <1>1, <1>3, <1>8, <2>2, OnChain
  <2>4. c + z = c /\ d + z = d
    BY ONLY <1>5, <2>1
  <2> QED
    BY <2>3, <2>4
<1>11. ASSUME NEW can \in BOOLEAN
       PROVE  /\ Userdata_getClass(registry[T].class, U, can) <=> derived
              /\ Userdata_getClass(registry[T].const, U, can) <=> (derived /\ can)
  <2>1. Userdata_getClass(c + 2, U, can) <=> derived
    BY ONLY <1>5, <1>6, <1>7, <1>9, Zenon DEF Userdata_getClass
  <2>2. Userdata_getClass(c, U, can) <=> (derived /\ can)
    BY ONLY <1>5, <1>6, <1>7, <1>10, Zenon DEF Userdata_getClass
  <2> QED
    BY <1>5, <2>1, <2>2
<1>12. ASSUME NEW mt \in {registry[T].class, registry[T].const}
       PROVE  Userdata_getExactClass(mt, U) <=> T = U
  <2>1. mt \in {c + 2, c}
    BY <1>5
  <2>2. rawgetfield(heap, mt, "identity") # nil
    BY ONLY <1>6, <2>1
  <2>3. Userdata_getExactClass(mt, U) <=> mt \in {d + 2, d}
    BY ONLY <1>5, <1>7, <2>2 DEF Userdata_getExactClass
  <2>4. T = U => c = d
    BY <1>3
  <2>5. T # U => c + 8 < d \/ d + 8 < c
    <3>1. T \in Classes /\ U \in Classes /\ IsReg(registry, T) /\ IsReg(registry, U)
      BY DEF Registered, IsReg
    <3>2. IsRegistry(Len(heap), registry)
      BY <1>1 DEF Good, HeapInv
    <3> QED
      BY <1>3, <3>1, <3>2 DEF IsRegistry
  <2>6. mt \in {d + 2, d} <=> T = U
    BY ONLY <1>5, <2>1, <2>4, <2>5
  <2> QED
    BY <2>3, <2>6
<1> QED
  BY <1>8, <1>11, <1>12

(* getClass (Userdata.h) accepts exactly the objects of a class and of the classes derived
   from it, however long the chain of bases, const ones only where they may be const, and
   __gc exactly the class's own, after any registrations. *)
THEOREM ClassChecksAlwaysExact == Spec => []ClassCheckIsExact
<1>1. Sound => ClassCheckIsExact
  BY SoundClassCheck
<1>2. Spec => []Sound
  BY AlwaysSound
<1> QED
  BY <1>1, <1>2, PTL

-----------------------------------------------------------------------------
(* What was registered *)

IsEntry(e) ==
    /\ e.kind = "function" => e.access \in {"const", "mutable"}
    /\ e.kind \in {"data", "static"} => e.access \in {"rw", "ro"}
    /\ e.kind = "staticfunction" => e.access = "const"

LogTyped == IsLog(log) /\ \A n \in DOMAIN log : IsEntry(log[n])

LEMMA LogGrows ==
    ASSUME LogTyped, NEW kind, NEW name, NEW access, NEW h, Adds(kind, name, access, h),
           NEW e, e = [cls |-> cls, kind |-> kind, name |-> name, access |-> access], IsEntry(e)
    PROVE  LogTyped'
<1>1. log' = Append(log, e)
  BY DEF Adds
<1>2. IsLog(log) /\ \A n \in DOMAIN log : IsEntry(log[n])
  BY DEF LogTyped
<1>3. PICK new : new = Append(log, e)
  OBVIOUS
<1>4. /\ Len(log) \in Nat /\ DOMAIN log = 1..Len(log)
      /\ IsLog(new) /\ DOMAIN new = 1..(Len(log) + 1)
      /\ new[Len(log) + 1] = e /\ \A n \in 1..Len(log) : new[n] = log[n]
  BY <1>2, <1>3, LogFacts
<1>5. \A n \in DOMAIN new : n \in 1..Len(log) \/ n = Len(log) + 1
  BY <1>4
<1>6. IsLog(new) /\ \A n \in DOMAIN new : IsEntry(new[n])
  BY <1>2, <1>4, <1>5
<1>7. log' = new
  BY <1>1, <1>3
<1> QED
  BY <1>6, <1>7 DEF LogTyped

LEMMA EntryTyped ==
    ASSUME NEW c, NEW kind, NEW name, NEW access,
           \/ kind = "function" /\ access \in {"const", "mutable"}
           \/ kind \in {"data", "static"} /\ access \in {"rw", "ro"}
           \/ kind = "staticfunction" /\ access = "const"
           \/ kind \in {"variable", "freefunction", "constructor"}
    PROVE  IsEntry([cls |-> c, kind |-> kind, name |-> name, access |-> access])
BY DEF IsEntry

LEMMA LogTypedNext ==
    ASSUME LogTyped, [Next]_vars
    PROVE  LogTyped'
<1>1. CASE UNCHANGED log
  BY <1>1 DEF LogTyped
<1>2. ASSUME NEW name \in Members, NEW access \in {"rw", "ro"},
             addStaticData(name, access) \/ addData(name, access) \/ addVariable(name, access)
      PROVE  LogTyped'
  <2>1. PICK kind \in {"static", "data", "variable"} : \E h : Adds(kind, name, access, h)
    BY <1>2, Zenon DEF addStaticData, addData, addVariable
  <2>2. IsEntry([cls |-> cls, kind |-> kind, name |-> name, access |-> access])
    BY EntryTyped
  <2>3. PICK h : Adds(kind, name, access, h)
    BY <2>1
  <2> QED
    BY <2>2, <2>3, LogGrows
<1>3. ASSUME NEW name \in Members, NEW access \in {"const", "mutable"}, addFunction(name, access)
      PROVE  LogTyped'
  <2>1. PICK h : Adds("function", name, access, h)
    BY <1>3, Zenon DEF addFunction
  <2>2. IsEntry([cls |-> cls, kind |-> "function", name |-> name, access |-> access])
    BY EntryTyped
  <2> QED
    BY <2>1, <2>2, LogGrows
<1>4. ASSUME NEW name \in Members, addStaticFunction(name) \/ addFreeFunction(name)
      PROVE  LogTyped'
  <2>1. PICK kind \in {"staticfunction", "freefunction"} : \E h : Adds(kind, name, "const", h)
    BY <1>4, Zenon DEF addStaticFunction, addFreeFunction
  <2>2. IsEntry([cls |-> cls, kind |-> kind, name |-> name, access |-> "const"])
    BY EntryTyped
  <2>3. PICK h : Adds(kind, name, "const", h)
    BY <2>1
  <2> QED
    BY <2>2, <2>3, LogGrows
<1>5. ASSUME addConstructor PROVE LogTyped'
  <2>1. PICK h : Adds("constructor", "__call", "const", h)
    BY <1>5, Zenon DEF addConstructor
  <2>2. IsEntry([cls |-> cls, kind |-> "constructor", name |-> "__call", access |-> "const"])
    BY EntryTyped
  <2> QED
    BY <2>1, <2>2, LogGrows
<1>6. CASE \E name \in Spaces : beginNamespace(name)
  BY <1>1, <1>6, Zenon DEF beginNamespace
<1>7. CASE \E T \in Classes : beginClass(T) \/ \E U \in Classes : deriveClass(T, U)
  BY <1>1, <1>7, Zenon DEF beginClass, deriveClass
<1>8. CASE getGlobalNamespace \/ endNamespace \/ AssertTable \/ Destroy \/ endClass
  BY <1>1, <1>8, Zenon DEF getGlobalNamespace, endNamespace, AssertTable, Destroy, endClass
<1>9. CASE UNCHANGED vars
  BY <1>1, <1>9 DEF vars
<1> QED
  BY <1>2, <1>3, <1>4, <1>5, <1>6, <1>7, <1>8, <1>9 DEF Next, Add

LEMMA AlwaysTyped == Spec => []LogTyped
<1>1. Init => LogTyped
  <2>1. SUFFICES ASSUME Init PROVE LogTyped
    OBVIOUS
  <2>2. log = <<>>
    BY <2>1 DEF Init
  <2>3. IsLog(log) /\ DOMAIN log = {}
    BY <2>2 DEF IsLog
  <2> QED
    BY <2>3 DEF LogTyped
<1>2. LogTyped /\ [Next]_vars => LogTyped'
  BY LogTypedNext
<1> QED
  BY <1>1, <1>2, PTL DEF Spec

-----------------------------------------------------------------------------
(* Searches *)

(* r is the first of the n values that is not nil, or otherwise. *)
IsFirst(n, val, otherwise, r) ==
    \/ r = otherwise /\ \A i \in 1..n : val[i] = nil
    \/ \E i \in 1..n : val[i] # nil /\ r = val[i] /\ \A j \in 1..n : j < i => val[j] = nil

LEMMA FirstIs ==
    ASSUME NEW n \in Nat, NEW val, NEW otherwise, NEW hits, hits = {i \in 1..n : val[i] # nil},
           NEW r, r = IF hits = {} THEN otherwise ELSE val[CHOOSE i \in hits : \A j \in hits : i <= j]
    PROVE  IsFirst(n, val, otherwise, r)
<1>1. CASE hits = {}
  BY <1>1 DEF IsFirst
<1>2. CASE hits # {}
  <2>1. hits \subseteq Nat
    OBVIOUS
  <2>2. PICK k : k = CHOOSE i \in hits : \A j \in hits : i <= j
    OBVIOUS
  <2>3. \E i \in hits : \A j \in hits : i <= j
    BY <1>2, <2>1, HasFirst
  <2>4. k \in hits /\ \A j \in hits : k <= j
    BY ONLY <2>2, <2>3
  <2>5. r = val[k] /\ k \in 1..n /\ val[k] # nil
    BY <1>2, <2>2, <2>4
  <2>6. ASSUME NEW j \in 1..n, j < k PROVE val[j] = nil
    <3>1. ~(k <= j)
      BY <2>5, <2>6
    <3>2. j \notin hits
      BY <2>4, <3>1
    <3> QED
      BY <3>2
  <2> QED
    BY <2>5, <2>6 DEF IsFirst
<1> QED
  BY <1>1, <1>2

LEMMA IndexSearch ==
    ASSUME NEW mt, NEW key, NEW n \in Nat, NEW l, Chain(mt) = l, DOMAIN l = 1..n,
           NEW val, \A i \in 1..n : FunctionOrGetter(l[i], key) = val[i]
    PROVE  IsFirst(n, val, nil, indexMetaMethod(mt, key))
<1>1. PICK hits : hits = {i \in DOMAIN l : FunctionOrGetter(l[i], key) # nil}
  OBVIOUS
<1>2. PICK r : r = indexMetaMethod(mt, key)
  OBVIOUS
<1>3. r = IF hits = {} THEN nil ELSE FunctionOrGetter(l[CHOOSE i \in hits : \A j \in hits : i <= j], key)
  BY ONLY <1>1, <1>2, Chain(mt) = l DEF indexMetaMethod, FirstHit
<1>4. hits = {i \in 1..n : val[i] # nil}
  BY <1>1
<1>5. PICK k : k = CHOOSE i \in hits : \A j \in hits : i <= j
  OBVIOUS
<1>6. hits # {} => k \in hits
  <2>0. hits \subseteq Nat
    BY ONLY <1>4, n \in Nat
  <2>1. hits # {} => \E i \in hits : \A j \in hits : i <= j
    BY ONLY <2>0, HasFirst
  <2> QED
    BY ONLY <1>5, <2>1
<1>7. r = IF hits = {} THEN nil ELSE val[CHOOSE i \in hits : \A j \in hits : i <= j]
  <2>1. r = IF hits = {} THEN nil ELSE FunctionOrGetter(l[k], key)
    BY ONLY <1>3, <1>5
  <2>2. hits # {} => FunctionOrGetter(l[k], key) = val[k]
    BY <1>4, <1>6
  <2> QED
    BY ONLY <1>5, <2>1, <2>2
<1> QED
  BY ONLY <1>2, <1>4, <1>7, n \in Nat, FirstIs

LEMMA NewIndexSearch ==
    ASSUME NEW mt, NEW key, NEW n \in Nat, NEW l, Chain(mt) = l, DOMAIN l = 1..n,
           NEW val, \A i \in 1..n : Setter(l[i], key) = val[i]
    PROVE  IsFirst(n, val, Error, newindexMetaMethod(mt, key))
<1>1. PICK hits : hits = {i \in DOMAIN l : Setter(l[i], key) # nil}
  OBVIOUS
<1>2. PICK r : r = newindexMetaMethod(mt, key)
  OBVIOUS
<1>3. r = IF hits = {} THEN Error ELSE Setter(l[CHOOSE i \in hits : \A j \in hits : i <= j], key)
  BY ONLY <1>1, <1>2, Chain(mt) = l DEF newindexMetaMethod, FirstHit
<1>4. hits = {i \in 1..n : val[i] # nil}
  BY <1>1
<1>5. PICK k : k = CHOOSE i \in hits : \A j \in hits : i <= j
  OBVIOUS
<1>6. hits # {} => k \in hits
  <2>0. hits \subseteq Nat
    BY ONLY <1>4, n \in Nat
  <2>1. hits # {} => \E i \in hits : \A j \in hits : i <= j
    BY ONLY <2>0, HasFirst
  <2> QED
    BY ONLY <1>5, <2>1
<1>7. r = IF hits = {} THEN Error ELSE val[CHOOSE i \in hits : \A j \in hits : i <= j]
  <2>1. r = IF hits = {} THEN Error ELSE Setter(l[k], key)
    BY ONLY <1>3, <1>5
  <2>2. hits # {} => Setter(l[k], key) = val[k]
    BY <1>4, <1>6
  <2> QED
    BY ONLY <1>5, <2>1, <2>2
<1> QED
  BY ONLY <1>2, <1>4, <1>7, n \in Nat, FirstIs

(* The table that scripts see is searched by its metatable. *)
LEMMA StaticSearch ==
    ASSUME NEW t, NEW key
    PROVE  /\ staticIndex(t, key) = indexMetaMethod(heap[t].mt, key)
           /\ staticNewIndex(t, key) =
                LET set == newindexMetaMethod(heap[t].mt, key)
                IN  IF set # Error /\ set.op = "readOnlyError" THEN Error ELSE set
BY Zenon DEF staticIndex, staticNewIndex, indexMetaMethod, newindexMetaMethod, FirstHit

(* What a search finds in table o of C: a function, else the getter. *)
IndexOf(C, o, x) ==
    IF Want(log, C, o, x) # nil THEN Want(log, C, o, x) ELSE Want(log, C, o + 1, x)

SetterOf(C, o, x) ==
    CASE o = 0 -> nil [] o = 2 -> Want(log, C, 4, x) [] o = 6 -> Want(log, C, 8, x)

LEMMA FoundInTable ==
    ASSUME NEW spaces, NEW anc, Good(spaces, anc), NEW C \in Classes, IsReg(registry, C),
           NEW o \in {0, 2, 6}, NEW t, t = At(registry, C) + o, NEW x \in Members
    PROVE  FunctionOrGetter(t, x) = IndexOf(C, o, x) /\ Setter(t, x) = SetterOf(C, o, x)
<1>1. /\ Wired(heap, registry, base, C) /\ Stocked(heap, registry, log, C)
      /\ IsHeap(heap) /\ IsRegistry(Len(heap), registry)
  BY DEF Good, HeapInv
<1>2. PICK c : c = At(registry, C)
  OBVIOUS
<1>3. c \in Nat
  <2>1. Len(heap) \in Nat
    BY <1>1 DEF IsHeap
  <2> QED
    BY <1>1, <1>2, <2>1, BlockInHeap
<1>4. \A p \in Slots : rawgetfield(heap, c + p, x) = Want(log, C, p, x)
  BY <1>1, <1>2 DEF Stocked
<1>5. /\ rawgetfield(heap, c, "__propget") = Table(c + 1) /\ rawgetfield(heap, c, "__propset") = nil
      /\ rawgetfield(heap, c + 2, "__propget") = Table(c + 3)
      /\ rawgetfield(heap, c + 2, "__propset") = Table(c + 4)
      /\ rawgetfield(heap, c + 6, "__propget") = Table(c + 7)
      /\ rawgetfield(heap, c + 6, "__propset") = Table(c + 8)
  BY <1>1, <1>2, Zenon DEF Wired
<1>6. /\ rawgetfield(heap, c, x) = Want(log, C, 0, x) /\ rawgetfield(heap, c + 1, x) = Want(log, C, 1, x)
      /\ rawgetfield(heap, c + 2, x) = Want(log, C, 2, x) /\ rawgetfield(heap, c + 3, x) = Want(log, C, 3, x)
      /\ rawgetfield(heap, c + 4, x) = Want(log, C, 4, x)
      /\ rawgetfield(heap, c + 6, x) = Want(log, C, 6, x) /\ rawgetfield(heap, c + 7, x) = Want(log, C, 7, x)
      /\ rawgetfield(heap, c + 8, x) = Want(log, C, 8, x)
  <2>1. c + 0 = c /\ 0 \in Slots /\ 1 \in Slots /\ 2 \in Slots /\ 3 \in Slots /\ 4 \in Slots /\ 6 \in Slots
        /\ 7 \in Slots /\ 8 \in Slots
    BY <1>3 DEF Slots
  <2> QED
    BY ONLY <1>4, <2>1
<1>7. \A i : Table(i).k = "table" /\ Table(i).id = i
  BY DEF Table
<1>8. nil.k # "table"
  BY Values
<1>9. CASE o = 0
  <2>1. t = c
    BY <1>2, <1>3, <1>9
  <2>2. Field(heap, t, "__propget") = c + 1 /\ ~HasTable(heap, t, "__propset")
    BY <1>5, <1>7, <1>8, <2>1 DEF Field, HasTable
  <2>3. FunctionOrGetter(t, x) = IF Want(log, C, 0, x) # nil THEN Want(log, C, 0, x) ELSE Want(log, C, 1, x)
    BY ONLY <1>6, <2>1, <2>2 DEF FunctionOrGetter
  <2>4. Setter(t, x) = nil
    BY <2>2 DEF Setter
  <2>5. IndexOf(C, o, x) = IF Want(log, C, 0, x) # nil THEN Want(log, C, 0, x) ELSE Want(log, C, 1, x)
    BY ONLY <1>9 DEF IndexOf
  <2>6. SetterOf(C, o, x) = nil
    BY ONLY <1>9 DEF SetterOf
  <2> QED
    BY ONLY <2>3, <2>4, <2>5, <2>6
<1>10. CASE o = 2
  <2>1. t = c + 2
    BY <1>2, <1>10
  <2>2. Field(heap, t, "__propget") = c + 3 /\ HasTable(heap, t, "__propset") /\ Field(heap, t, "__propset") = c + 4
    BY <1>5, <1>7, <2>1 DEF Field, HasTable
  <2>3. FunctionOrGetter(t, x) = IF Want(log, C, 2, x) # nil THEN Want(log, C, 2, x) ELSE Want(log, C, 3, x)
    BY ONLY <1>6, <2>1, <2>2 DEF FunctionOrGetter
  <2>4. Setter(t, x) = Want(log, C, 4, x)
    BY ONLY <1>6, <2>2 DEF Setter
  <2>5. IndexOf(C, o, x) = IF Want(log, C, 2, x) # nil THEN Want(log, C, 2, x) ELSE Want(log, C, 3, x)
    BY ONLY <1>10 DEF IndexOf
  <2>6. SetterOf(C, o, x) = Want(log, C, 4, x)
    BY ONLY <1>10 DEF SetterOf
  <2> QED
    BY ONLY <2>3, <2>4, <2>5, <2>6
<1>11. CASE o = 6
  <2>1. t = c + 6
    BY <1>2, <1>11
  <2>2. Field(heap, t, "__propget") = c + 7 /\ HasTable(heap, t, "__propset") /\ Field(heap, t, "__propset") = c + 8
    BY <1>5, <1>7, <2>1 DEF Field, HasTable
  <2>3. FunctionOrGetter(t, x) = IF Want(log, C, 6, x) # nil THEN Want(log, C, 6, x) ELSE Want(log, C, 7, x)
    BY ONLY <1>6, <2>1, <2>2 DEF FunctionOrGetter
  <2>4. Setter(t, x) = Want(log, C, 8, x)
    BY ONLY <1>6, <2>2 DEF Setter
  <2>5. IndexOf(C, o, x) = IF Want(log, C, 6, x) # nil THEN Want(log, C, 6, x) ELSE Want(log, C, 7, x)
    BY ONLY <1>11 DEF IndexOf
  <2>6. SetterOf(C, o, x) = Want(log, C, 8, x)
    BY ONLY <1>11 DEF SetterOf
  <2> QED
    BY ONLY <2>3, <2>4, <2>5, <2>6
<1> QED
  BY <1>9, <1>10, <1>11

(* What the metamethods of table o of T find: the first of what T and its bases hold. *)
Finds(T, o, x, q, r, set) ==
    /\ IsFirst(Len(q), [i \in 1..Len(q) |-> IndexOf(q[i], o, x)], nil, r)
    /\ IsFirst(Len(q), [i \in 1..Len(q) |-> SetterOf(q[i], o, x)], Error, set)

LEMMA Found ==
    ASSUME NEW spaces, NEW anc, Good(spaces, anc), NEW T \in Registered, NEW o \in {0, 2, 6},
           NEW t, t = At(registry, T) + o, NEW x \in Members
    PROVE  Finds(T, o, x, Ancestors(T), indexMetaMethod(t, x), newindexMetaMethod(t, x))
<1>1. Placed(anc, T, At(registry, T))
  BY PlacedAt
<1>2. PICK q, l, n : q = Ancestors(T) /\ l = Chain(t) /\ n = Len(q)
  OBVIOUS
<1>3. /\ q = anc[T] /\ n \in Nat /\ l = Line(registry, anc, T, o)
      /\ \A i \in 1..n : q[i] \in Classes /\ IsReg(registry, q[i])
  BY <1>1, <1>2 DEF Placed
<1>4. DOMAIN l = 1..n /\ \A i \in 1..n : l[i] = At(registry, q[i]) + o
  BY <1>2, <1>3 DEF Line
<1>5. PICK val, set : val = [i \in 1..n |-> IndexOf(q[i], o, x)] /\ set = [i \in 1..n |-> SetterOf(q[i], o, x)]
  OBVIOUS
<1>6. ASSUME NEW i \in 1..n PROVE FunctionOrGetter(l[i], x) = val[i] /\ Setter(l[i], x) = set[i]
  <2>1. q[i] \in Classes /\ IsReg(registry, q[i]) /\ l[i] = At(registry, q[i]) + o
    BY <1>3, <1>4
  <2>2. FunctionOrGetter(l[i], x) = IndexOf(q[i], o, x) /\ Setter(l[i], x) = SetterOf(q[i], o, x)
    BY <2>1, FoundInTable
  <2> QED
    BY <1>5, <2>2
<1>7. IsFirst(n, val, nil, indexMetaMethod(t, x))
  BY <1>2, <1>3, <1>4, <1>6, IndexSearch
<1>8. IsFirst(n, set, Error, newindexMetaMethod(t, x))
  BY <1>2, <1>3, <1>4, <1>6, NewIndexSearch
<1> QED
  BY <1>2, <1>5, <1>7, <1>8 DEF Finds

IsWant(lg, C, o, x, v, H) ==
    /\ H \subseteq 1..Len(lg) /\ (v = nil <=> H = {}) /\ v # Error
    /\ H # {} => /\ LastOf(H) \in H /\ LastOf(H) \in Nat /\ LastOf(H) # 0
                 /\ v = [k |-> "fn", op |-> OpIn(lg[LastOf(H)], o), cls |-> C, n |-> LastOf(H)]

LEMMA WantIs ==
    ASSUME NEW lg, IsLog(lg), NEW C, NEW o, NEW x, NEW v, v = Want(lg, C, o, x),
           NEW H, H = Holders(lg, C, x, o)
    PROVE  IsWant(lg, C, o, x, v, H)
<1>1. Len(lg) \in Nat /\ DOMAIN lg = 1..Len(lg)
  BY LogFacts
<1>2. H \subseteq 1..Len(lg)
  BY <1>1 DEF Holders
<1>3. nil # Error
  BY DEF nil, Error
<1>4. CASE H = {}
  BY <1>2, <1>3, <1>4 DEF Want, IsWant
<1>5. CASE H # {}
  <2>1. PICK l \in H : \A m \in H : m <= l
    BY <1>1, <1>2, <1>5, HasLast
  <2>2. LastOf(H) = l
    <3>1. H \subseteq Nat
      BY <1>1, <1>2
    <3> QED
      BY ONLY <2>1, <3>1, LastIs
  <2>3. l \in Nat /\ l # 0
    BY <1>1, <1>2
  <2>4. v = [k |-> "fn", op |-> OpIn(lg[LastOf(H)], o), cls |-> C, n |-> LastOf(H)]
    BY <1>5 DEF Want
  <2>5. v # nil /\ v # Error
    BY <2>4 DEF nil, Error
  <2> QED
    BY <1>2, <1>5, <2>2, <2>3, <2>4, <2>5 DEF IsWant
<1> QED
  BY <1>4, <1>5

(* What is found is a function that some class in question registered. *)
LEMMA WantOfClass ==
    ASSUME NEW lg, IsLog(lg), NEW C, NEW o, NEW x, NEW v, v = Want(lg, C, o, x), v # nil
    PROVE  v.cls = C /\ v # Error /\ (o \in {0, 1} => v.op = "reads")
<1>1. PICK H : H = Holders(lg, C, x, o)
  OBVIOUS
<1>2. IsWant(lg, C, o, x, v, H)
  BY <1>1, WantIs
<1>3. /\ v # Error
      /\ v = [k |-> "fn", op |-> OpIn(lg[LastOf(H)], o), cls |-> C, n |-> LastOf(H)]
  BY <1>2 DEF IsWant
<1>4. v.cls = C /\ v.op = OpIn(lg[LastOf(H)], o)
  BY ONLY <1>3
<1>5. o \in {0, 1} => v.op = "reads"
  BY ONLY <1>4 DEF OpIn
<1> QED
  BY <1>3, <1>4, <1>5

LEMMA SoundApply ==
    ASSUME Sound, LogTyped
    PROVE  FoundMembersApply
<1>1. PICK spaces, anc : Good(spaces, anc)
  BY DEF Sound
<1>2. SUFFICES ASSUME NEW T \in Registered, NEW x \in Members,
                      NEW mt \in {registry[T].class, registry[T].const}
               PROVE  /\ indexMetaMethod(mt, x) # nil => Accepts(indexMetaMethod(mt, x), mt)
                      /\ newindexMetaMethod(mt, x) # Error => Accepts(newindexMetaMethod(mt, x), mt)
  BY Zenon DEF FoundMembersApply
<1>3. IsLog(log)
  BY DEF LogTyped
<1>4. PICK c : c = At(registry, T)
  OBVIOUS
<1>5. /\ c \in Nat /\ registry[T].const = c /\ registry[T].class = c + 2
      /\ Ancestors(T) = anc[T] /\ Ancestors(T) \in Seq(Classes)
      /\ \A i \in 1..Len(Ancestors(T)) : Ancestors(T)[i] \in Classes /\ IsReg(registry, Ancestors(T)[i])
  <2>1. Placed(anc, T, c)
    BY <1>1, <1>4, PlacedAt
  <2> QED
    BY <2>1 DEF Placed
<1>6. PICK o \in {0, 2} : mt = c + o
  BY <1>5
<1>7. PICK q, r, set : q = Ancestors(T) /\ r = indexMetaMethod(mt, x) /\ set = newindexMetaMethod(mt, x)
  OBVIOUS
<1>8. Finds(T, o, x, q, r, set)
  <2>1. o \in {0, 2, 6}
    OBVIOUS
  <2> QED
    BY <1>1, <1>4, <1>6, <1>7, <2>1, Found
(* A function of a base accepts the object, if only one that reads was found on a const one. *)
<1>9. ASSUME NEW i \in 1..Len(q), NEW v, v.cls = q[i], o = 0 => v.op = "reads"
      PROVE  Accepts(v, mt)
  <2>1. PICK U : U = q[i]
    OBVIOUS
  <2>2. U \in Registered
    BY <1>5, <1>7, <2>1 DEF Registered, IsReg
  <2>3. \E j \in DOMAIN Ancestors(T) : Ancestors(T)[j] = U
    <3>1. DOMAIN q = 1..Len(q)
      BY <1>5, <1>7
    <3> QED
      BY <1>7, <2>1, <3>1
  <2>4. PICK can \in BOOLEAN : can <=> v.op = "reads"
    OBVIOUS
  <2>5. /\ Userdata_getClass(registry[T].class, U, can)
        /\ can => Userdata_getClass(registry[T].const, U, can)
    <3>1. ClassCheckIsExact
      BY SoundClassCheck
    <3>2. PICK derived \in BOOLEAN : derived <=> \E j \in DOMAIN Ancestors(T) : Ancestors(T)[j] = U
      OBVIOUS
    <3>3. /\ Userdata_getClass(registry[T].class, U, can) <=> derived
          /\ Userdata_getClass(registry[T].const, U, can) <=> (derived /\ can)
      BY ONLY <2>2, <3>1, <3>2, T \in Registered, can \in BOOLEAN DEF ClassCheckIsExact
    <3> QED
      BY <2>3, <3>2, <3>3
  <2>6. Userdata_getClass(mt, U, can)
    <3>1. CASE o = 0
      <4>1. mt = registry[T].const /\ can
        BY <1>5, <1>6, <1>9, <2>4, <3>1
      <4> QED
        BY <2>5, <4>1
    <3>2. CASE o = 2
      <4>1. mt = registry[T].class
        BY <1>5, <1>6, <3>2
      <4> QED
        BY <2>5, <4>1
    <3> QED
      BY <3>1, <3>2
  <2>7. PICK y : y = (v.op = "reads")
    OBVIOUS
  <2>8. y = can
    BY <2>4, <2>7
  <2> QED
    BY <1>9, <2>1, <2>6, <2>7, <2>8 DEF Accepts
<1>10. ASSUME r # nil PROVE Accepts(r, mt)
  <2>1. PICK i \in 1..Len(q) : r = IndexOf(q[i], o, x)
    BY <1>8, <1>10 DEF Finds, IsFirst
  <2>2. PICK p \in {o, o + 1} : r = Want(log, q[i], p, x)
    BY <2>1 DEF IndexOf
  <2>3. r.cls = q[i] /\ (p \in {0, 1} => r.op = "reads")
    BY <1>3, <1>10, <2>2, WantOfClass
  <2>4. o = 0 => r.op = "reads"
    BY <2>3
  <2> QED
    BY <1>9, <2>3, <2>4
<1>11. ASSUME set # Error PROVE Accepts(set, mt)
  <2>1. PICK i \in 1..Len(q) : set = SetterOf(q[i], o, x) /\ set # nil
    BY <1>8, <1>11 DEF Finds, IsFirst
  <2>2. o = 2 /\ set = Want(log, q[i], 4, x)
    BY <2>1 DEF SetterOf
  <2>3. set.cls = q[i]
    BY <1>3, <2>1, <2>2, WantOfClass
  <2> QED
    BY <1>9, <2>2, <2>3
<1> QED
  BY <1>7, <1>10, <1>11

-----------------------------------------------------------------------------
(* What a search should find *)

(* e is the last of F, else of D, of the first class of q that has one. *)
IsNearest(q, F, D, e) ==
    \/ e = 0 /\ \A i \in 1..Len(q) : F[q[i]] = {} /\ D[q[i]] = {}
    \/ \E i \in 1..Len(q) :
        /\ F[q[i]] # {} \/ D[q[i]] # {}
        /\ e = IF F[q[i]] # {} THEN LastOf(F[q[i]]) ELSE LastOf(D[q[i]])
        /\ \A j \in 1..Len(q) : j < i => F[q[j]] = {} /\ D[q[j]] = {}

LEMMA ExpectedIs ==
    ASSUME NEW T, NEW q \in Seq(Classes), q = Ancestors(T), NEW x, NEW funs, NEW data, NEW acc,
           NEW F, F = [C \in Classes |-> Entries(C, x, funs, acc)],
           NEW D, D = [C \in Classes |-> Entries(C, x, data, acc)],
           NEW e, e = Expected(T, x, funs, data, acc)
    PROVE  IsNearest(q, F, D, e)
<1>1. Len(q) \in Nat /\ DOMAIN q = 1..Len(q) /\ \A i \in 1..Len(q) : q[i] \in Classes
  BY LenProperties, ElementOfSeq
<1>2. PICK holders : holders = {i \in DOMAIN q : Entries(q[i], x, funs \cup data, acc) # {}}
  OBVIOUS
<1>3. PICK k : k = CHOOSE i \in holders : \A j \in holders : i <= j
  OBVIOUS
<1>4. e = IF holders = {} THEN 0
          ELSE IF Entries(q[k], x, funs, acc) # {} THEN LastOf(Entries(q[k], x, funs, acc))
               ELSE LastOf(Entries(q[k], x, data, acc))
  BY ONLY <1>2, <1>3, q = Ancestors(T), e = Expected(T, x, funs, data, acc) DEF Expected
<1>5. \A C : Entries(C, x, funs \cup data, acc) # {} <=> Entries(C, x, funs, acc) # {} \/ Entries(C, x, data, acc) # {}
  BY ONLY TRUE DEF Entries
<1>6. \A i \in 1..Len(q) : i \in holders <=> F[q[i]] # {} \/ D[q[i]] # {}
  <2>1. \A i \in 1..Len(q) : F[q[i]] = Entries(q[i], x, funs, acc) /\ D[q[i]] = Entries(q[i], x, data, acc)
    BY <1>1
  <2> QED
    BY ONLY <1>1, <1>2, <1>5, <2>1
<1>7. CASE holders = {}
  BY <1>4, <1>6, <1>7 DEF IsNearest
<1>8. CASE holders # {}
  <2>1. holders \subseteq Nat
    BY <1>1, <1>2
  <2>2. \E i \in holders : \A j \in holders : i <= j
    BY <1>8, <2>1, HasFirst
  <2>3. k \in holders /\ \A j \in holders : k <= j
    BY ONLY <1>3, <2>2
  <2>4. k \in 1..Len(q)
    BY <1>1, <1>2, <2>3
  <2>5. e = IF F[q[k]] # {} THEN LastOf(F[q[k]]) ELSE LastOf(D[q[k]])
    BY <1>1, <1>4, <1>8, <2>4
  <2>6. ASSUME NEW j \in 1..Len(q), j < k PROVE F[q[j]] = {} /\ D[q[j]] = {}
    <3>1. ~(k <= j)
      BY <1>1, <2>4, <2>6
    <3>2. j \notin holders
      BY <2>3, <3>1
    <3> QED
      BY <1>6, <3>2
  <2>7. F[q[k]] # {} \/ D[q[k]] # {}
    BY <1>6, <2>3, <2>4
  <2> QED
    BY <2>4, <2>5, <2>6, <2>7 DEF IsNearest
<1> QED
  BY <1>7, <1>8

(* The first of the values is the one expected, if each shows which class has an entry. *)
IsNearestValue(q, F, D, val, e, r, otherwise) ==
    \/ e = 0 /\ r = otherwise
    \/ /\ e # 0
       /\ \E i \in 1..Len(q) : val[i] # nil /\ r = val[i]
                               /\ e = IF F[q[i]] # {} THEN LastOf(F[q[i]]) ELSE LastOf(D[q[i]])

LEMMA FirstIsNearest ==
    ASSUME NEW q, Len(q) \in Nat, NEW F, NEW D, NEW val, NEW e, NEW r, NEW otherwise,
           \A i \in 1..Len(q) : val[i] = nil <=> F[q[i]] = {} /\ D[q[i]] = {},
           \A i \in 1..Len(q) : val[i] # nil => LastOf(F[q[i]]) # 0 \/ F[q[i]] = {},
           \A i \in 1..Len(q) : val[i] # nil => LastOf(D[q[i]]) # 0 \/ D[q[i]] = {},
           IsNearest(q, F, D, e), IsFirst(Len(q), val, otherwise, r)
    PROVE  IsNearestValue(q, F, D, val, e, r, otherwise)
<1>1. CASE \A i \in 1..Len(q) : val[i] = nil
  <2>1. \A i \in 1..Len(q) : F[q[i]] = {} /\ D[q[i]] = {}
    BY <1>1
  <2>2. e = 0 /\ r = otherwise
    BY ONLY <1>1, <2>1, IsNearest(q, F, D, e), IsFirst(Len(q), val, otherwise, r) DEF IsNearest, IsFirst
  <2> QED
    BY <2>2 DEF IsNearestValue
<1>2. CASE ~\A i \in 1..Len(q) : val[i] = nil
  <2>1. PICK i \in 1..Len(q) : val[i] # nil /\ r = val[i] /\ \A j \in 1..Len(q) : j < i => val[j] = nil
    BY <1>2 DEF IsFirst
  <2>2. F[q[i]] # {} \/ D[q[i]] # {}
    BY <2>1
  <2>3. PICK k \in 1..Len(q) :
        /\ F[q[k]] # {} \/ D[q[k]] # {}
        /\ e = IF F[q[k]] # {} THEN LastOf(F[q[k]]) ELSE LastOf(D[q[k]])
        /\ \A j \in 1..Len(q) : j < k => F[q[j]] = {} /\ D[q[j]] = {}
    BY ONLY <2>2, i \in 1..Len(q), IsNearest(q, F, D, e) DEF IsNearest
  <2>4. ~(k < i)
    BY <2>1, <2>3
  <2>5. ~(i < k)
    BY <2>2, <2>3
  <2>6. i = k
    BY ONLY <2>4, <2>5, i \in 1..Len(q), k \in 1..Len(q), Len(q) \in Nat
  <2>7. e # 0
    BY <2>1, <2>2, <2>3, <2>6
  <2> QED
    BY <2>1, <2>3, <2>6, <2>7 DEF IsNearestValue
<1> QED
  BY <1>1, <1>2

(* A search that should find registration e, or nothing, answers r. *)
Answers(e, r) == IF e = 0 THEN r = nil ELSE r # nil /\ r.n = e

(* Each class of q holds its registrations of x in the tables o and o + 1. *)
HeldIn(q, F, D, o, x) ==
    /\ Len(q) \in Nat /\ \A i \in 1..Len(q) : q[i] \in Classes
    /\ \A C \in Classes : F[C] = Holders(log, C, x, o) /\ D[C] = Holders(log, C, x, o + 1)

(* The tables of a class hold the last of the registrations that are visible there. *)
LEMMA SearchIsNearest ==
    ASSUME NEW q, IsLog(log), NEW o, NEW x, NEW F, NEW D, NEW e, NEW r, HeldIn(q, F, D, o, x),
           NEW val, val = [i \in 1..Len(q) |-> IndexOf(q[i], o, x)],
           IsNearest(q, F, D, e), IsFirst(Len(q), val, nil, r)
    PROVE  Answers(e, r)
<1>1. /\ Len(q) \in Nat /\ \A i \in 1..Len(q) : q[i] \in Classes
      /\ \A C \in Classes : F[C] = Holders(log, C, x, o) /\ D[C] = Holders(log, C, x, o + 1)
  BY DEF HeldIn
<1>2. ASSUME NEW i \in 1..Len(q)
      PROVE  /\ val[i] = nil <=> F[q[i]] = {} /\ D[q[i]] = {}
             /\ LastOf(F[q[i]]) # 0 \/ F[q[i]] = {}
             /\ LastOf(D[q[i]]) # 0 \/ D[q[i]] = {}
             /\ val[i] # nil => val[i].n = IF F[q[i]] # {} THEN LastOf(F[q[i]]) ELSE LastOf(D[q[i]])
  <2>1. PICK C \in Classes : C = q[i]
    BY <1>1
  <2>2. PICK v, w, H, G : /\ v = Want(log, C, o, x) /\ w = Want(log, C, o + 1, x)
                          /\ H = Holders(log, C, x, o) /\ G = Holders(log, C, x, o + 1)
    OBVIOUS
  <2>3. IsWant(log, C, o, x, v, H)
    BY <2>2, WantIs
  <2>4. IsWant(log, C, o + 1, x, w, G)
    BY <2>2, WantIs
  <2>5. F[q[i]] = H /\ D[q[i]] = G /\ val[i] = IF v # nil THEN v ELSE w
    BY <1>1, <2>1, <2>2 DEF IndexOf
  <2>6. (v = nil <=> H = {}) /\ (H # {} => LastOf(H) # 0 /\ v.n = LastOf(H))
    BY ONLY <2>3 DEF IsWant
  <2>7. (w = nil <=> G = {}) /\ (G # {} => LastOf(G) # 0 /\ w.n = LastOf(G))
    BY ONLY <2>4 DEF IsWant
  <2> QED
    BY ONLY <2>5, <2>6, <2>7
<1>3. \/ e = 0 /\ r = nil
      \/ /\ e # 0
         /\ \E i \in 1..Len(q) : val[i] # nil /\ r = val[i]
                                 /\ e = IF F[q[i]] # {} THEN LastOf(F[q[i]]) ELSE LastOf(D[q[i]])
  <2>1. IsFirst(Len(q), val, nil, r)
    OBVIOUS
  <2>2. /\ \A i \in 1..Len(q) : val[i] = nil <=> F[q[i]] = {} /\ D[q[i]] = {}
        /\ \A i \in 1..Len(q) : val[i] # nil => LastOf(F[q[i]]) # 0 \/ F[q[i]] = {}
        /\ \A i \in 1..Len(q) : val[i] # nil => LastOf(D[q[i]]) # 0 \/ D[q[i]] = {}
    BY ONLY <1>2
  <2>3. IsNearestValue(q, F, D, val, e, r, nil)
    BY ONLY <1>1, <2>1, <2>2, IsNearest(q, F, D, e), FirstIsNearest
  <2> QED
    BY <2>3 DEF IsNearestValue
<1> QED
  BY <1>2, <1>3 DEF Answers

(* The registrations that a search should see are those in the tables it goes through. *)
LEMMA EntriesHeld ==
    ASSUME LogTyped, NEW C, NEW x
    PROVE  /\ Entries(C, x, {"function"}, {"rw", "ro", "const", "mutable"}) = Holders(log, C, x, 2)
           /\ Entries(C, x, {"data"}, {"rw", "ro", "const", "mutable"}) = Holders(log, C, x, 3)
           /\ Entries(C, x, {"function"}, {"rw", "ro", "const"}) = Holders(log, C, x, 0)
           /\ Entries(C, x, {"data"}, {"rw", "ro", "const"}) = Holders(log, C, x, 1)
           /\ Entries(C, x, {"staticfunction"}, {"rw", "ro", "const"}) = Holders(log, C, x, 6)
           /\ Entries(C, x, {"static"}, {"rw", "ro", "const"}) = Holders(log, C, x, 7)
           /\ Entries(C, x, {}, {"rw", "ro"}) = {}
           /\ Entries(C, x, {"static"}, {"rw", "ro"}) = Holders(log, C, x, 8)
<1>1. ASSUME NEW n \in DOMAIN log, NEW e, e = log[n]
      PROVE  /\ (e.kind \in {"function"} /\ e.access \in {"rw", "ro", "const", "mutable"}) <=> Suits(e, 2)
             /\ (e.kind \in {"data"} /\ e.access \in {"rw", "ro", "const", "mutable"}) <=> Suits(e, 3)
             /\ (e.kind \in {"function"} /\ e.access \in {"rw", "ro", "const"}) <=> Suits(e, 0)
             /\ (e.kind \in {"data"} /\ e.access \in {"rw", "ro", "const"}) <=> Suits(e, 1)
             /\ (e.kind \in {"staticfunction"} /\ e.access \in {"rw", "ro", "const"}) <=> Suits(e, 6)
             /\ (e.kind \in {"static"} /\ e.access \in {"rw", "ro", "const"}) <=> Suits(e, 7)
             /\ (e.kind \in {"static"} /\ e.access \in {"rw", "ro"}) <=> Suits(e, 8)
  <2>1. IsEntry(e)
    BY <1>1 DEF LogTyped
  <2> QED
    BY <2>1 DEF IsEntry, Suits
<1>2. \A n \in DOMAIN log :
        /\ (log[n].kind \in {"function"} /\ log[n].access \in {"rw", "ro", "const", "mutable"}) <=> Suits(log[n], 2)
        /\ (log[n].kind \in {"data"} /\ log[n].access \in {"rw", "ro", "const", "mutable"}) <=> Suits(log[n], 3)
        /\ (log[n].kind \in {"function"} /\ log[n].access \in {"rw", "ro", "const"}) <=> Suits(log[n], 0)
        /\ (log[n].kind \in {"data"} /\ log[n].access \in {"rw", "ro", "const"}) <=> Suits(log[n], 1)
        /\ (log[n].kind \in {"staticfunction"} /\ log[n].access \in {"rw", "ro", "const"}) <=> Suits(log[n], 6)
        /\ (log[n].kind \in {"static"} /\ log[n].access \in {"rw", "ro", "const"}) <=> Suits(log[n], 7)
        /\ (log[n].kind \in {"static"} /\ log[n].access \in {"rw", "ro"}) <=> Suits(log[n], 8)
  BY <1>1
<1>3. Entries(C, x, {"function"}, {"rw", "ro", "const", "mutable"}) = Holders(log, C, x, 2)
  BY ONLY <1>2 DEF Entries, Holders
<1>4. Entries(C, x, {"data"}, {"rw", "ro", "const", "mutable"}) = Holders(log, C, x, 3)
  BY ONLY <1>2 DEF Entries, Holders
<1>5. Entries(C, x, {"function"}, {"rw", "ro", "const"}) = Holders(log, C, x, 0)
  BY ONLY <1>2 DEF Entries, Holders
<1>6. Entries(C, x, {"data"}, {"rw", "ro", "const"}) = Holders(log, C, x, 1)
  BY ONLY <1>2 DEF Entries, Holders
<1>7. Entries(C, x, {"staticfunction"}, {"rw", "ro", "const"}) = Holders(log, C, x, 6)
  BY ONLY <1>2 DEF Entries, Holders
<1>8. Entries(C, x, {"static"}, {"rw", "ro", "const"}) = Holders(log, C, x, 7)
  BY ONLY <1>2 DEF Entries, Holders
<1>9. Entries(C, x, {}, {"rw", "ro"}) = {}
  BY ONLY TRUE DEF Entries
<1>10. Entries(C, x, {"static"}, {"rw", "ro"}) = Holders(log, C, x, 8)
  BY ONLY <1>2 DEF Entries, Holders
<1> QED
  BY <1>3, <1>4, <1>5, <1>6, <1>7, <1>8, <1>9, <1>10

(* A search in table o of T for one of the kinds of members that the tables o hold. *)
LEMMA LookupIs ==
    ASSUME NEW spaces, NEW anc, Good(spaces, anc), LogTyped, NEW T \in Registered, NEW x \in Members,
           NEW o \in {0, 2, 6}, NEW t, t = At(registry, T) + o, NEW funs, NEW data, NEW acc,
           \A C \in Classes : /\ Entries(C, x, funs, acc) = Holders(log, C, x, o)
                              /\ Entries(C, x, data, acc) = Holders(log, C, x, o + 1),
           NEW e, e = Expected(T, x, funs, data, acc)
    PROVE  Answers(e, indexMetaMethod(t, x))
<1>1. PICK q, r, set : q = Ancestors(T) /\ r = indexMetaMethod(t, x) /\ set = newindexMetaMethod(t, x)
  OBVIOUS
<1>2. q \in Seq(Classes) /\ Len(q) \in Nat
  <2>1. Placed(anc, T, At(registry, T))
    BY PlacedAt
  <2> QED
    BY <1>1, <2>1 DEF Placed
<1>3. Finds(T, o, x, q, r, set)
  BY <1>1, Found
<1>4. PICK F, D : /\ F = [C \in Classes |-> Entries(C, x, funs, acc)]
                  /\ D = [C \in Classes |-> Entries(C, x, data, acc)]
  OBVIOUS
<1>5. IsNearest(q, F, D, e)
  BY <1>1, <1>2, <1>4, ExpectedIs
<1>6. \A C \in Classes : F[C] = Holders(log, C, x, o) /\ D[C] = Holders(log, C, x, o + 1)
  BY <1>4
<1>7. PICK val : val = [i \in 1..Len(q) |-> IndexOf(q[i], o, x)]
  OBVIOUS
<1>11. IsFirst(Len(q), val, nil, r)
  BY <1>3, <1>7 DEF Finds
<1>8. \A i \in 1..Len(q) : q[i] \in Classes
  BY <1>2, ElementOfSeq
<1>9. IsLog(log)
  BY DEF LogTyped
<1>10. HeldIn(q, F, D, o, x)
  BY ONLY <1>2, <1>6, <1>8 DEF HeldIn
<1>12. Answers(e, r)
  BY ONLY <1>5, <1>7, <1>9, <1>10, <1>11, SearchIsNearest
<1> QED
  BY ONLY <1>1, <1>12

(* The table scripts see has the static table as its metatable. *)
LEMMA StaticMeta ==
    ASSUME NEW spaces, NEW anc, Good(spaces, anc), NEW T \in Registered
    PROVE  heap[registry[T].static - 1].mt = At(registry, T) + 6
<1>1. PICK c : c = At(registry, T)
  OBVIOUS
<1>2. Placed(anc, T, c)
  BY <1>1, PlacedAt
<1>3. c \in Nat /\ registry[T].static = c + 6 /\ heap[c + 5].mt = c + 6
  BY <1>1, <1>2 DEF Placed, Wired
<1>4. registry[T].static - 1 = c + 5
  BY ONLY <1>3
<1> QED
  BY <1>1, <1>3, <1>4

LEMMA SoundLookup ==
    ASSUME Sound, LogTyped
    PROVE  LookupIsNearest
<1>1. PICK spaces, anc : Good(spaces, anc)
  BY DEF Sound
<1>2. SUFFICES ASSUME NEW T \in Registered, NEW x \in Members
               PROVE  LET IsFound(fn, n) == IF n = 0 THEN fn = nil ELSE fn # nil /\ fn.n = n
                      IN  /\ IsFound(indexMetaMethod(registry[T].class, x),
                                   Expected(T, x, {"function"}, {"data"}, {"rw", "ro", "const", "mutable"}))
                          /\ IsFound(indexMetaMethod(registry[T].const, x),
                                   Expected(T, x, {"function"}, {"data"}, {"rw", "ro", "const"}))
                          /\ IsFound(staticIndex(registry[T].static - 1, x),
                                   Expected(T, x, {"staticfunction"}, {"static"}, {"rw", "ro", "const"}))
  BY Zenon DEF LookupIsNearest
<1>3. PICK c : c = At(registry, T)
  OBVIOUS
<1>4. c \in Nat /\ registry[T].const = c /\ registry[T].class = c + 2
  <2>1. Placed(anc, T, c)
    BY <1>1, <1>3, PlacedAt
  <2> QED
    BY <2>1 DEF Placed
<1>5. PICK two, zero, six : two = 2 /\ zero = 0 /\ six = 6
  OBVIOUS
<1>6. \A C \in Classes :
        /\ Entries(C, x, {"function"}, {"rw", "ro", "const", "mutable"}) = Holders(log, C, x, two)
        /\ Entries(C, x, {"data"}, {"rw", "ro", "const", "mutable"}) = Holders(log, C, x, two + 1)
        /\ Entries(C, x, {"function"}, {"rw", "ro", "const"}) = Holders(log, C, x, zero)
        /\ Entries(C, x, {"data"}, {"rw", "ro", "const"}) = Holders(log, C, x, zero + 1)
        /\ Entries(C, x, {"staticfunction"}, {"rw", "ro", "const"}) = Holders(log, C, x, six)
        /\ Entries(C, x, {"static"}, {"rw", "ro", "const"}) = Holders(log, C, x, six + 1)
  <2>1. two + 1 = 3 /\ zero + 1 = 1 /\ six + 1 = 7
    BY <1>5
  <2> QED
    BY ONLY <1>5, <2>1, LogTyped, EntriesHeld
<1>7. PICK e2, e0, e6 : /\ e2 = Expected(T, x, {"function"}, {"data"}, {"rw", "ro", "const", "mutable"})
                        /\ e0 = Expected(T, x, {"function"}, {"data"}, {"rw", "ro", "const"})
                        /\ e6 = Expected(T, x, {"staticfunction"}, {"static"}, {"rw", "ro", "const"})
  OBVIOUS
<1>8. Answers(e2, indexMetaMethod(c + two, x))
  <2>1. two \in {0, 2, 6}
    BY <1>5
  <2> QED
    BY ONLY <1>1, <1>3, <1>6, <1>7, <2>1, LogTyped, T \in Registered, x \in Members, LookupIs
<1>9. Answers(e0, indexMetaMethod(c + zero, x))
  <2>1. zero \in {0, 2, 6}
    BY <1>5
  <2> QED
    BY ONLY <1>1, <1>3, <1>6, <1>7, <2>1, LogTyped, T \in Registered, x \in Members, LookupIs
<1>10. Answers(e6, indexMetaMethod(c + six, x))
  <2>1. six \in {0, 2, 6}
    BY <1>5
  <2> QED
    BY ONLY <1>1, <1>3, <1>6, <1>7, <2>1, LogTyped, T \in Registered, x \in Members, LookupIs
<1>11. c + two = registry[T].class /\ c + zero = registry[T].const
  BY ONLY <1>4, <1>5
<1>12. staticIndex(registry[T].static - 1, x) = indexMetaMethod(c + six, x)
  <2>1. heap[registry[T].static - 1].mt = c + six
    BY <1>1, <1>3, <1>5, StaticMeta
  <2> QED
    BY <2>1, StaticSearch
<1> QED
  BY ONLY <1>7, <1>8, <1>9, <1>10, <1>11, <1>12 DEF Answers

LEMMA SoundAccess ==
    ASSUME Sound, LogTyped
    PROVE  StaticAccess
<1>1. PICK spaces, anc : Good(spaces, anc)
  BY DEF Sound
<1>2. SUFFICES ASSUME NEW T \in Registered, NEW x \in Members, NEW n,
                      n = Expected(T, x, {}, {"static"}, {"rw", "ro"}), n # 0
               PROVE  (staticNewIndex(registry[T].static - 1, x) # Error) <=> log[n].access = "rw"
  BY Zenon DEF StaticAccess
<1>3. PICK c, t : c = At(registry, T) /\ t = c + 6
  OBVIOUS
<1>4. PICK q, r, set : q = Ancestors(T) /\ r = indexMetaMethod(t, x) /\ set = newindexMetaMethod(t, x)
  OBVIOUS
<1>5. q \in Seq(Classes) /\ Len(q) \in Nat
  <2>1. Placed(anc, T, c)
    BY <1>1, <1>3, PlacedAt
  <2> QED
    BY <1>4, <2>1 DEF Placed
<1>6. \A i \in 1..Len(q) : q[i] \in Classes
  BY <1>5, ElementOfSeq
<1>7. IsLog(log)
  BY DEF LogTyped
<1>8. PICK six : six = 6
  OBVIOUS
<1>9. PICK val : val = [i \in 1..Len(q) |-> SetterOf(q[i], six, x)]
  OBVIOUS
<1>10. IsFirst(Len(q), val, Error, set)
  <2>1. six \in {0, 2, 6} /\ t = At(registry, T) + six
    BY <1>3, <1>8
  <2>2. Finds(T, six, x, q, r, set)
    BY <1>1, <1>4, <2>1, Found
  <2> QED
    BY <1>9, <2>2 DEF Finds
<1>11. PICK F, D : /\ F = [C \in Classes |-> Entries(C, x, {}, {"rw", "ro"})]
                   /\ D = [C \in Classes |-> Entries(C, x, {"static"}, {"rw", "ro"})]
  OBVIOUS
<1>12. IsNearest(q, F, D, n)
  <2>1. PICK funs, data, acc : funs = {} /\ data = {"static"} /\ acc = {"rw", "ro"}
    OBVIOUS
  <2>2. n = Expected(T, x, funs, data, acc)
    BY ONLY <1>2, <2>1
  <2>3. F = [C \in Classes |-> Entries(C, x, funs, acc)] /\ D = [C \in Classes |-> Entries(C, x, data, acc)]
    BY ONLY <1>11, <2>1
  <2>4. q \in Seq(Classes) /\ q = Ancestors(T)
    BY ONLY <1>4, <1>5
  <2> QED
    BY ONLY <2>2, <2>3, <2>4, ExpectedIs
<1>13. \A C \in Classes : F[C] = {} /\ D[C] = Holders(log, C, x, 8)
  BY <1>11, EntriesHeld
<1>14. ASSUME NEW i \in 1..Len(q)
       PROVE  /\ val[i] = nil <=> D[q[i]] = {}
              /\ LastOf(D[q[i]]) # 0 \/ D[q[i]] = {}
              /\ val[i] # nil => /\ val[i] # Error /\ LastOf(D[q[i]]) \in DOMAIN log
                                 /\ val[i].op = OpIn(log[LastOf(D[q[i]])], 8)
  <2>1. PICK C \in Classes : C = q[i]
    BY <1>6
  <2>2. PICK v, H : v = Want(log, C, 8, x) /\ H = Holders(log, C, x, 8)
    OBVIOUS
  <2>3. IsWant(log, C, 8, x, v, H)
    BY <1>7, <2>2, WantIs
  <2>4. D[q[i]] = H /\ val[i] = v
    BY <1>8, <1>9, <1>13, <2>1, <2>2 DEF SetterOf
  <2>5. (v = nil <=> H = {}) /\ (H # {} => LastOf(H) # 0 /\ v.op = OpIn(log[LastOf(H)], 8) /\ LastOf(H) \in H)
        /\ H \subseteq 1..Len(log) /\ v # Error
    BY ONLY <2>3 DEF IsWant
  <2>6. DOMAIN log = 1..Len(log)
    BY <1>7, LogFacts
  <2> QED
    BY ONLY <2>4, <2>5, <2>6
<1>15. IsNearestValue(q, F, D, val, n, set, Error)
  <2>1. /\ \A i \in 1..Len(q) : val[i] = nil <=> F[q[i]] = {} /\ D[q[i]] = {}
        /\ \A i \in 1..Len(q) : val[i] # nil => LastOf(F[q[i]]) # 0 \/ F[q[i]] = {}
        /\ \A i \in 1..Len(q) : val[i] # nil => LastOf(D[q[i]]) # 0 \/ D[q[i]] = {}
    BY <1>6, <1>13, <1>14
  <2> QED
    BY ONLY <1>5, <1>10, <1>12, <2>1, FirstIsNearest
<1>16. PICK i \in 1..Len(q) : val[i] # nil /\ set = val[i] /\ n = LastOf(D[q[i]])
  BY <1>2, <1>6, <1>13, <1>15 DEF IsNearestValue
<1>17. set # Error /\ set.op = OpIn(log[n], 8)
  BY <1>14, <1>16
<1>18. set.op = "readOnlyError" <=> log[n].access # "rw"
  <2>1. OpIn(log[n], 8) = IF log[n].access = "rw" THEN "call" ELSE "readOnlyError"
    BY DEF OpIn
  <2> QED
    BY ONLY <1>17, <2>1
<1>19. staticNewIndex(registry[T].static - 1, x) = IF set # Error /\ set.op = "readOnlyError" THEN Error ELSE set
  <2>1. heap[registry[T].static - 1].mt = t
    BY <1>1, <1>3, StaticMeta
  <2> QED
    BY <1>4, <2>1, StaticSearch
<1> QED
  BY ONLY <1>17, <1>18, <1>19

(* The metamethods of Namespace.h and CFunctions.h find a member in the nearest class, up
   any number of bases, that registered it, the last registration first; what they find
   accepts the object it was found on, so that an inherited member takes objects of
   derived classes and a const object reaches nothing that could change it; and a static
   member can be assigned exactly when its registration says so. *)
THEOREM LookupsAlwaysSound == Spec => []LookupsSound
<1>1. Sound /\ LogTyped => LookupsSound
  BY SoundApply, SoundLookup, SoundAccess DEF LookupsSound
<1>2. Spec => []Sound
  BY AlwaysSound
<1>3. Spec => []LogTyped
  BY AlwaysTyped
<1> QED
  BY <1>1, <1>2, <1>3, PTL
=============================================================================
