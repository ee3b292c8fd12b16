---------------------------- MODULE LuaRefsProofs ----------------------------
(***************************************************************************)
(* Proofs about references from C++ to Lua values, for any number of       *)
(* variables, any tables and values and a registry of any size that is     *)
(* large enough for them.                                                  *)
(***************************************************************************)
EXTENDS LuaRefs, FiniteSetTheorems, WellFoundedInduction, TLAPS

-----------------------------------------------------------------------------
(* Values. *)

(* The kinds of values differ, and only a number converts to an index. *)
LEMMA ValueFacts ==
    /\ nil.k = "nil" /\ ToInteger(nil) = 0 /\ ~IsTab(nil)
    /\ \A n : Num(n) # nil /\ Num(n).k = "num" /\ Num(n).n = n /\ ToInteger(Num(n)) = n
    /\ \A v : IsTab(v) => v # nil
BY DEF nil, Num, ToInteger, IsTab

-----------------------------------------------------------------------------
(* The registry.  U are the slots that are owned. *)

IsRegistry(f) == f = [i \in 0..MaxSlots |-> f[i]]

Link(L, j) == IF j > 0 THEN Num(L[j]) ELSE nil

(* n slots were ever taken.  Those that are not owned are L[1], ..., L[k]: the list starts
   at L[k], and every slot of it has the one before. *)
FreeList(f, U, L, k, n) ==
    /\ n \in 0..MaxSlots /\ k \in Nat
    /\ \A j \in 1..k : L[j] \in (1..n) \ U
    /\ \A i, j \in 1..k : L[i] = L[j] => i = j
    /\ U \subseteq 1..n
    /\ \A i \in (1..n) \ U : \E j \in 1..k : L[j] = i
    /\ \A i \in U : f[i] # nil
    /\ \A i \in (n + 1)..MaxSlots : f[i] = nil
    /\ f[0] = Link(L, k)
    /\ \A j \in 1..k : f[L[j]] = Link(L, j - 1)

RegistrySound(f, U) == IsRegistry(f) /\ \E L, k, n : FreeList(f, U, L, k, n)

LEMMA LinkFacts ==
    ASSUME NEW L, NEW k \in Nat
    PROVE  /\ k > 0 => Link(L, k) = Num(L[k]) /\ ToInteger(Link(L, k)) = L[k]
           /\ k = 0 => Link(L, k) = nil /\ ToInteger(Link(L, k)) = 0
BY ValueFacts DEF Link

(* The list is no longer than the registry. *)
LEMMA ListIsShort ==
    ASSUME NEW f, NEW U, NEW L, NEW k, NEW n, FreeList(f, U, L, k, n)
    PROVE  k <= n
<1>1. n \in Nat /\ k \in Nat
  BY RefsAssumption DEF FreeList
<1>2. PICK g : g = [j \in 1..k |-> L[j]]
  OBVIOUS
<1>3. g \in Injection(1..k, 1..n)
  <2>1. \A j \in 1..k : L[j] \in 1..n
    BY DEF FreeList
  <2>2. \A i, j \in 1..k : L[i] = L[j] => i = j
    BY DEF FreeList
  <2>3. g \in [1..k -> 1..n]
    BY ONLY <1>2, <2>1
  <2>4. \A i, j \in DOMAIN g : g[i] = g[j] => i = j
    BY ONLY <1>2, <2>2
  <2> QED
    BY <2>3, <2>4 DEF Injection, IsInjective
<1>4. /\ IsFiniteSet(1..k) /\ Cardinality(1..k) = k
      /\ IsFiniteSet(1..n) /\ Cardinality(1..n) = n
  BY <1>1, FS_Interval
<1>5. Cardinality(1..k) <= Cardinality(1..n)
  BY <1>3, <1>4, FS_Injection
<1> QED
  BY <1>4, <1>5

(* An empty list: the slots that were taken are owned, and there is one border. *)
LEMMA OneBorderWhenEmpty ==
    ASSUME NEW f, NEW U, NEW L, NEW n, IsRegistry(f), FreeList(f, U, L, 0, n)
    PROVE  U = 1..n /\ Borders(f) = {n}
<1>1. n \in 0..MaxSlots /\ MaxSlots \in Nat /\ DOMAIN f = 0..MaxSlots
  BY RefsAssumption DEF FreeList, IsRegistry
<1>2. U = 1..n
  <2>1. U \subseteq 1..n /\ \A i \in (1..n) \ U : \E j \in 1..0 : L[j] = i
    BY DEF FreeList
  <2>2. \A j : ~(j \in 1..0)
    OBVIOUS
  <2> QED
    BY <2>1, <2>2
<1>3. \A i \in 1..n : f[i] # nil
  BY <1>2 DEF FreeList
<1>4. \A i \in (n + 1)..MaxSlots : f[i] = nil
  BY DEF FreeList
<1>5. n \in Borders(f)
  BY <1>1, <1>3, <1>4 DEF Borders
<1>6. ASSUME NEW b \in Borders(f) PROVE b = n
  <2>1. /\ b \in 0..MaxSlots /\ (b = 0 \/ f[b] # nil)
        /\ (b + 1) \in 0..MaxSlots => f[b + 1] = nil
    BY <1>1 DEF Borders
  <2>2. ~(b > n)
    BY <1>1, <1>4, <2>1
  <2>3. ~(b < n)
    BY <1>1, <1>3, <2>1
  <2> QED
    BY <1>1, <2>1, <2>2, <2>3
<1> QED
  BY <1>2, <1>5, <1>6

(* luaL_ref takes a slot that has no owner, and no other owner notices. *)
LEMMA Takes ==
    ASSUME NEW f, NEW U, RegistrySound(f, U), Cardinality(U) < MaxSlots, NEW v, v # nil,
           NEW r, r = RefIndex(f), NEW e, e = luaL_ref(f, v)
    PROVE  /\ r \in (1..MaxSlots) \ U
           /\ RegistrySound(e, U \cup {r})
           /\ e[r] = v /\ \A i \in U : e[i] = f[i]
<1>1. PICK L, k, n : FreeList(f, U, L, k, n)
  BY DEF RegistrySound
<1>2. n \in 0..MaxSlots /\ k \in Nat /\ MaxSlots \in Nat
  BY <1>1, RefsAssumption DEF FreeList
<1>3. IsRegistry(f)
  BY DEF RegistrySound
<1>4. U \subseteq 1..n /\ f[0] = Link(L, k)
  BY <1>1 DEF FreeList
<1>5. CASE k > 0
  <2>1. L[k] \in (1..n) \ U
    BY <1>1, <1>2, <1>5 DEF FreeList
  <2>2. ToInteger(f[0]) = L[k] /\ L[k] # 0
    BY <1>2, <1>4, <1>5, <2>1, LinkFacts
  <2>3. r = L[k]
    BY <2>2 DEF RefIndex
  <2>4. e = [f EXCEPT ![0] = f[r], ![r] = v]
    BY <2>2, <2>3 DEF luaL_ref, RefIndex
  <2>5. /\ IsRegistry(e) /\ e[0] = f[r] /\ e[r] = v
        /\ \A i \in 1..MaxSlots : i # r => e[i] = f[i]
    <3>1. 0 \in 0..MaxSlots /\ r \in 0..MaxSlots /\ r # 0 /\ DOMAIN f = 0..MaxSlots
      BY <1>2, <1>3, <2>1, <2>3 DEF IsRegistry
    <3>2. e = [i \in 0..MaxSlots |-> IF i = r THEN v ELSE IF i = 0 THEN f[r] ELSE f[i]]
      BY ONLY <2>4, <3>1
    <3>3. IsRegistry(e)
      BY ONLY <3>2 DEF IsRegistry
    <3> QED
      BY <3>1, <3>2, <3>3
  <2>6. FreeList(e, U \cup {r}, L, k - 1, n)
    <3>1. k - 1 \in Nat
      BY <1>2, <1>5
    <3>2. \A j \in 1..(k - 1) : L[j] \in (1..n) \ (U \cup {r})
      BY <1>1, <1>2, <1>5, <2>3 DEF FreeList
    <3>3. \A i, j \in 1..(k - 1) : L[i] = L[j] => i = j
      BY <1>1, <1>2 DEF FreeList
    <3>4. \A i \in (1..n) \ (U \cup {r}) : \E j \in 1..(k - 1) : L[j] = i
      BY <1>1, <1>2, <1>5, <2>3 DEF FreeList
    <3>5. \A i \in U \cup {r} : e[i] # nil
      BY <1>1, <1>2, <1>4, <2>5 DEF FreeList
    <3>6. \A i \in (n + 1)..MaxSlots : e[i] = nil
      BY <1>1, <1>2, <2>1, <2>3, <2>5 DEF FreeList
    <3>7. e[0] = Link(L, k - 1)
      BY <1>1, <1>2, <1>5, <2>3, <2>5 DEF FreeList
    <3>8. ASSUME NEW j \in 1..(k - 1) PROVE e[L[j]] = Link(L, j - 1)
      BY <1>1, <1>2, <2>3, <2>5, <3>2 DEF FreeList
    <3>9. U \cup {r} \subseteq 1..n
      BY <1>4, <2>1, <2>3
    <3> QED
      BY <1>2, <3>1, <3>2, <3>3, <3>4, <3>5, <3>6, <3>7, <3>8, <3>9 DEF FreeList
  <2> QED
    BY <1>2, <1>4, <2>1, <2>3, <2>5, <2>6 DEF RegistrySound
<1>6. CASE k = 0
  <2>1. ToInteger(f[0]) = 0
    BY <1>4, <1>6, LinkFacts
  <2>2. U = 1..n /\ Borders(f) = {n}
    BY <1>1, <1>3, <1>6, OneBorderWhenEmpty
  <2>3. r = n + 1
    BY <2>1, <2>2 DEF RefIndex
  <2>4. n < MaxSlots
    <3>1. Cardinality(1..n) = n
      BY <1>2, FS_Interval
    <3> QED
      BY <1>2, <2>2, <3>1
  <2>5. e = [f EXCEPT ![r] = v]
    BY <2>1, <2>3 DEF luaL_ref, RefIndex
  <2>6. /\ IsRegistry(e) /\ e[r] = v
        /\ \A i \in 0..MaxSlots : i # r => e[i] = f[i]
    <3>1. r \in 0..MaxSlots /\ DOMAIN f = 0..MaxSlots
      BY <1>2, <1>3, <2>3, <2>4 DEF IsRegistry
    <3>2. e = [i \in 0..MaxSlots |-> IF i = r THEN v ELSE f[i]]
      BY ONLY <2>5, <3>1
    <3>3. IsRegistry(e)
      BY ONLY <3>2 DEF IsRegistry
    <3> QED
      BY <3>1, <3>2, <3>3
  <2>7. FreeList(e, U \cup {r}, L, 0, n + 1)
    <3>1. \A i \in U \cup {r} : e[i] # nil
      BY <1>1, <1>2, <2>2, <2>3, <2>6 DEF FreeList
    <3>2. \A i \in (n + 2)..MaxSlots : e[i] = nil
      BY <1>1, <1>2, <2>3, <2>6 DEF FreeList
    <3>3. e[0] = Link(L, 0)
      BY <1>2, <1>4, <1>6, <2>3, <2>6
    <3>4. U \cup {r} = 1..(n + 1)
      BY <1>2, <2>2, <2>3
    <3> QED
      BY <1>2, <2>4, <3>1, <3>2, <3>3, <3>4 DEF FreeList
  <2> QED
    BY <1>2, <2>2, <2>3, <2>4, <2>6, <2>7 DEF RegistrySound
<1> QED
  BY <1>2, <1>5, <1>6

(* luaL_unref puts the slot of an owner on the list, and no other owner notices. *)
LEMMA Gives ==
    ASSUME NEW f, NEW U, RegistrySound(f, U), NEW r \in U, NEW e, e = luaL_unref(f, r)
    PROVE  RegistrySound(e, U \ {r}) /\ \A i \in U \ {r} : e[i] = f[i]
<1>1. PICK L, k, n : FreeList(f, U, L, k, n)
  BY DEF RegistrySound
<1>2. n \in 0..MaxSlots /\ k \in Nat /\ MaxSlots \in Nat
  BY <1>1, RefsAssumption DEF FreeList
<1>3. f = [i \in 0..MaxSlots |-> f[i]]
  BY DEF RegistrySound, IsRegistry
<1>4. U \subseteq 1..n /\ f[0] = Link(L, k)
  BY <1>1 DEF FreeList
<1>5. e = [f EXCEPT ![r] = f[0], ![0] = Num(r)]
  BY <1>2, <1>4 DEF luaL_unref
<1>6. /\ IsRegistry(e) /\ e[0] = Num(r) /\ e[r] = f[0]
      /\ \A i \in 1..MaxSlots : i # r => e[i] = f[i]
  <2>1. r \in 1..MaxSlots /\ r # 0 /\ 0 \in 0..MaxSlots /\ r \in 0..MaxSlots
    BY <1>2, <1>4
  <2>2. \A i \in 1..MaxSlots : i # 0 /\ i \in 0..MaxSlots
    BY <1>2
  <2>3. DOMAIN f = 0..MaxSlots
    BY ONLY <1>3
  <2>4. PICK v : v = Num(r)
    OBVIOUS
  <2>5. e = [f EXCEPT ![r] = f[0], ![0] = v]
    BY <1>5, <2>4
  <2>6. e = [i \in 0..MaxSlots |-> IF i = 0 THEN v ELSE IF i = r THEN f[0] ELSE f[i]]
    BY ONLY <2>3, <2>5, Zenon
  <2>7. /\ e[0] = v /\ e[r] = f[0]
        /\ \A i \in 1..MaxSlots : i # r => e[i] = f[i]
    BY ONLY <2>1, <2>2, <2>6
  <2>8. IsRegistry(e)
    BY ONLY <2>6 DEF IsRegistry
  <2> QED
    BY <2>4, <2>7, <2>8
<1>7. PICK M : M = [j \in 1..(k + 1) |-> IF j = k + 1 THEN r ELSE L[j]]
  OBVIOUS
<1>8. M[k + 1] = r /\ \A j \in 1..k : M[j] = L[j]
  BY <1>2, <1>7
<1>9. \A j \in 1..k : L[j] \in (1..n) \ U
  BY <1>1 DEF FreeList
<1>10. FreeList(e, U \ {r}, M, k + 1, n)
  <2>1. \A j \in 1..(k + 1) : M[j] \in (1..n) \ (U \ {r})
    BY <1>2, <1>4, <1>8, <1>9
  <2>2. \A i, j \in 1..(k + 1) : M[i] = M[j] => i = j
    <3>1. \A i, j \in 1..k : L[i] = L[j] => i = j
      BY <1>1 DEF FreeList
    <3>2. \A j \in 1..k : L[j] # r
      BY <1>9
    <3> QED
      BY <1>2, <1>8, <3>1, <3>2
  <2>3. \A i \in (1..n) \ (U \ {r}) : \E j \in 1..(k + 1) : M[j] = i
    BY <1>1, <1>2, <1>8 DEF FreeList
  <2>4. \A i \in U \ {r} : e[i] # nil
    BY <1>1, <1>2, <1>4, <1>6 DEF FreeList
  <2>5. \A i \in (n + 1)..MaxSlots : e[i] = nil
    BY <1>1, <1>2, <1>4, <1>6 DEF FreeList
  <2>6. e[0] = Link(M, k + 1)
    BY <1>2, <1>6, <1>8 DEF Link
  <2>7. ASSUME NEW j \in 1..(k + 1) PROVE e[M[j]] = Link(M, j - 1)
    <3>1. CASE j = k + 1
      BY <1>2, <1>4, <1>6, <1>8, <3>1 DEF Link
    <3>2. CASE j \in 1..k
      <4>1. e[L[j]] = f[L[j]]
        BY <1>2, <1>4, <1>6, <1>9, <3>2
      <4>2. f[L[j]] = Link(L, j - 1)
        BY <1>1, <3>2 DEF FreeList
      <4> QED
        BY <1>2, <1>8, <3>2, <4>1, <4>2 DEF Link
    <3> QED
      BY <1>2, <3>1, <3>2
  <2> QED
    BY <1>2, <1>4, <2>1, <2>2, <2>3, <2>4, <2>5, <2>6, <2>7 DEF FreeList
<1> QED
  BY <1>2, <1>4, <1>6, <1>10 DEF RegistrySound

-----------------------------------------------------------------------------
(* The free list as a reader of the registry sees it. *)

LEMMA LessIsWellFounded == IsWellFoundedOn({ss \in Nat \X Nat : ss[1] < ss[2]}, Nat)
BY NatLessThanWellFounded DEF OpToRel

(* A set of numbers has a first one. *)
LEMMA HasFirst ==
    ASSUME NEW S, S \subseteq Nat, S # {}
    PROVE  \E i \in S : \A j \in S : i <= j
<1> DEFINE R == {ss \in Nat \X Nat : ss[1] < ss[2]}
<1>1. IsWellFoundedOn(R, Nat)
  BY LessIsWellFounded
<1>2. PICK i0 \in S : TRUE
  OBVIOUS
<1> HIDE DEF R
<1>3. PICK x \in S : \A y \in S : ~(<<y, x>> \in R)
  BY <1>1, <1>2, WFMin
<1>4. \A y \in S : ~(y < x)
  BY <1>3 DEF R
<1> QED
  BY <1>3, <1>4

(* Following the list from its head meets L backwards, and then 0 for ever. *)
LEMMA FreeSlotsAre ==
    ASSUME NEW U, NEW L, NEW k, NEW n, FreeList(m.reg, U, L, k, n)
    PROVE  FreeSlots = [j \in 0..(MaxSlots + 1) |-> IF j < k THEN L[k - j] ELSE 0]
<1>1. k \in Nat /\ n \in 0..MaxSlots /\ MaxSlots \in Nat
  BY RefsAssumption DEF FreeList
<1>2. /\ ToInteger(m.reg[0]) = IF k > 0 THEN L[k] ELSE 0
      /\ \A j \in 1..k : L[j] # 0 /\ ToInteger(m.reg[L[j]]) = IF j > 1 THEN L[j - 1] ELSE 0
  <2>1. ToInteger(m.reg[0]) = IF k > 0 THEN L[k] ELSE 0
    BY <1>1, LinkFacts DEF FreeList
  <2>2. ASSUME NEW j \in 1..k PROVE L[j] # 0 /\ ToInteger(m.reg[L[j]]) = IF j > 1 THEN L[j - 1] ELSE 0
    <3>1. L[j] \in 1..n /\ m.reg[L[j]] = Link(L, j - 1) /\ j - 1 \in Nat
      BY <1>1 DEF FreeList
    <3> QED
      BY <1>1, <3>1, LinkFacts
  <2> QED
    BY <2>1, <2>2
<1>3. PICK w : w = [j \in 0..(MaxSlots + 1) |-> IF j < k THEN L[k - j] ELSE 0]
  OBVIOUS
<1>4. ASSUME NEW j \in 0..(MaxSlots + 1)
      PROVE  w[j] = IF j = 0 THEN ToInteger(m.reg[0])
                    ELSE IF w[j - 1] = 0 THEN 0 ELSE ToInteger(m.reg[w[j - 1]])
  <2>1. CASE j = 0
    BY <1>1, <1>2, <1>3, <2>1
  <2>2. CASE j > 0 /\ j - 1 < k
    <3>1. j - 1 \in 0..(MaxSlots + 1) /\ k - (j - 1) \in 1..k
      BY <1>1, <2>2
    <3>2. w[j - 1] = L[k - (j - 1)]
      BY <1>3, <2>2, <3>1
    <3>3. w[j - 1] # 0 /\ ToInteger(m.reg[w[j - 1]]) = IF k - (j - 1) > 1 THEN L[k - (j - 1) - 1] ELSE 0
      BY <1>2, <3>1, <3>2
    <3>4. k - (j - 1) - 1 = k - j /\ (k - (j - 1) > 1 <=> j < k)
      BY <1>1
    <3>5. w[j] = IF j < k THEN L[k - j] ELSE 0
      BY <1>3
    <3> QED
      BY <2>2, <3>3, <3>4, <3>5
  <2>3. CASE j > 0 /\ ~(j - 1 < k)
    BY <1>1, <1>3, <2>3
  <2> QED
    BY <2>1, <2>2, <2>3
<1>5. w = [j \in 0..(MaxSlots + 1) |->
            IF j = 0 THEN ToInteger(m.reg[0])
            ELSE IF w[j - 1] = 0 THEN 0 ELSE ToInteger(m.reg[w[j - 1]])]
  BY <1>3, <1>4
<1>6. PICK at : /\ at = [j \in 0..(MaxSlots + 1) |->
                          IF j = 0 THEN ToInteger(m.reg[0])
                          ELSE IF at[j - 1] = 0 THEN 0 ELSE ToInteger(m.reg[at[j - 1]])]
                /\ FreeSlots = [j \in 0..(MaxSlots + 1) |-> at[j]]
  BY <1>5, Zenon DEF FreeSlots
<1>7. ASSUME NEW j \in 0..(MaxSlots + 1), at[j] # w[j] PROVE FALSE
  <2> DEFINE S == {i \in 0..(MaxSlots + 1) : at[i] # w[i]}
  <2>1. PICK i \in S : \A l \in S : i <= l
    <3>1. S \subseteq Nat /\ j \in S
      BY <1>1, <1>7
    <3> QED
      BY <3>1, HasFirst
  <2>2. i \in 0..(MaxSlots + 1) /\ at[i] # w[i]
    OBVIOUS
  <2>3. /\ at[i] = IF i = 0 THEN ToInteger(m.reg[0])
                   ELSE IF at[i - 1] = 0 THEN 0 ELSE ToInteger(m.reg[at[i - 1]])
        /\ w[i] = IF i = 0 THEN ToInteger(m.reg[0])
                  ELSE IF w[i - 1] = 0 THEN 0 ELSE ToInteger(m.reg[w[i - 1]])
    BY <1>4, <1>6, <2>2
  <2>4. CASE i = 0
    BY <2>2, <2>3, <2>4
  <2>5. CASE i > 0
    <3>1. i - 1 \in 0..(MaxSlots + 1) /\ ~(i <= i - 1)
      BY <1>1, <2>2, <2>5
    <3>2. at[i - 1] = w[i - 1]
      BY <2>1, <3>1
    <3> QED
      BY <2>2, <2>3, <3>2
  <2> QED
    BY <1>1, <2>2, <2>4, <2>5
<1>8. \A j \in 0..(MaxSlots + 1) : at[j] = IF j < k THEN L[k - j] ELSE 0
  BY <1>3, <1>7
<1> QED
  BY <1>6, <1>8

(* A sound registry is what FreeListSound and OneBorder say of it. *)
LEMMA RegistryReads ==
    ASSUME NEW U, RegistrySound(m.reg, U)
    PROVE  LET free == {FreeSlots[j] : j \in DOMAIN FreeSlots} \ {0}
           IN  /\ FreeSlots[MaxSlots + 1] = 0
               /\ free \cap U = {}
               /\ \A i \in 1..MaxSlots : m.reg[i] # nil => i \in free \cup U
               /\ OneBorder
<1> DEFINE free == {FreeSlots[j] : j \in DOMAIN FreeSlots} \ {0}
<1>1. PICK L, k, n : FreeList(m.reg, U, L, k, n)
  BY DEF RegistrySound
<1>2. k \in Nat /\ n \in 0..MaxSlots /\ MaxSlots \in Nat /\ k <= n
  <2>1. k <= n
    BY <1>1, ListIsShort, Zenon
  <2> QED
    BY <1>1, <2>1, RefsAssumption DEF FreeList
<1>3. FreeSlots = [j \in 0..(MaxSlots + 1) |-> IF j < k THEN L[k - j] ELSE 0]
  BY <1>1, FreeSlotsAre
<1>4. FreeSlots[MaxSlots + 1] = 0
  BY <1>2, <1>3
<1>5. free \cap U = {}
  <2>1. ASSUME NEW i \in free PROVE i \notin U
    <3>1. PICK j \in 0..(MaxSlots + 1) : i = (IF j < k THEN L[k - j] ELSE 0) /\ i # 0
      BY <1>3
    <3>2. i = L[k - j] /\ k - j \in 1..k
      BY <1>2, <3>1
    <3> QED
      BY <1>1, <3>2 DEF FreeList
  <2> QED
    BY <2>1
<1>6. ASSUME NEW i \in 1..MaxSlots, m.reg[i] # nil PROVE i \in free \cup U
  <2>1. i \in 1..n
    BY <1>1, <1>2, <1>6 DEF FreeList
  <2>2. CASE i \notin U
    <3>1. PICK j \in 1..k : L[j] = i
      BY <1>1, <2>1, <2>2 DEF FreeList
    <3>2. k - j \in 0..(MaxSlots + 1) /\ k - j < k /\ k - (k - j) = j
      BY <1>2
    <3>3. FreeSlots[k - j] = i /\ k - j \in DOMAIN FreeSlots /\ i # 0
      BY <1>3, <2>1, <3>1, <3>2
    <3> QED
      BY <3>3
  <2> QED
    BY <2>2
<1>7. OneBorder
  <2>1. SUFFICES ASSUME ToInteger(m.reg[0]) = 0 PROVE Cardinality(Borders(m.reg)) = 1
    BY DEF OneBorder
  <2>2. k = 0
    <3>1. CASE k > 0
      <4>1. ToInteger(m.reg[0]) = L[k] /\ L[k] \in 1..n
        BY <1>1, <1>2, <3>1, LinkFacts DEF FreeList
      <4> QED
        BY <1>2, <2>1, <4>1
    <3> QED
      BY <1>2, <3>1
  <2>3. Borders(m.reg) = {n}
    BY <1>1, <2>2, OneBorderWhenEmpty DEF RegistrySound
  <2> QED
    BY <2>3, FS_Singleton
<1> QED
  BY <1>4, <1>5, <1>6, <1>7

-----------------------------------------------------------------------------
(* States within a statement.  The references of D are about to be replaced, and X are
   slots of temporaries: at most one, the key of a proxy. *)

IsHeap(heap) ==
    /\ heap = [t \in Tables |-> heap[t]]
    /\ \A t \in Tables : heap[t] = [i \in Keys |-> heap[t][i]]

IsHeld(held) == held = [h \in Refs |-> held[h]]

IsState(s) ==
    /\ s = [reg |-> s.reg, heap |-> s.heap, ref |-> s.ref, held |-> s.held,
            stack |-> s.stack, fault |-> FALSE]
    /\ IsHeap(s.heap) /\ IsHeld(s.held)
    /\ s.ref \in [Refs -> {Dead, LUA_REFNIL} \cup 1..MaxSlots]

Owns(ref, D) == {ref[h] : h \in Refs \ D} \ {Dead, LUA_REFNIL}

(* Every reference refers to what the program gave it, and shares its slot with no other. *)
HoldersSound(reg, ref, held, D) ==
    /\ \A h \in Refs \ D : /\ ref[h] = LUA_REFNIL => held[h] = nil
                           /\ ref[h] > 0 => held[h] # nil /\ reg[ref[h]] = held[h]
    /\ \A g, h \in Refs \ D : g # h /\ ref[g] = ref[h] => ref[h] < 0

Sound(s, X, D) ==
    /\ IsState(s)
    /\ HoldersSound(s.reg, s.ref, s.held, D)
    /\ X \cap Owns(s.ref, D) = {}
    /\ X = {} \/ \E x : X = {x}
    /\ RegistrySound(s.reg, Owns(s.ref, D) \cup X)

(* A registry with one temporary has a free slot. *)
LEMMA Room ==
    ASSUME NEW ref \in [Refs -> {Dead, LUA_REFNIL} \cup 1..MaxSlots], NEW D,
           NEW X, X = {} \/ \E x : X = {x}
    PROVE  Cardinality(Owns(ref, D) \cup X) < MaxSlots
<1>1. /\ IsFiniteSet(Refs) /\ Cardinality(Refs) \in Nat /\ Cardinality(Vars) \in Nat
      /\ Cardinality(Refs) <= Cardinality(Vars) + 3
  <2>1. IsFiniteSet(Vars) /\ Cardinality(Vars) \in Nat
    BY RefsAssumption, FS_CardinalityType
  <2>2. IsFiniteSet({"table"}) /\ Cardinality({"table"}) = 1
    BY FS_Singleton
  <2>3. IsFiniteSet({"table"} \cup {"key"}) /\ Cardinality({"table"} \cup {"key"}) = 2
    BY <2>2, FS_AddElement
  <2>4. /\ IsFiniteSet({"table"} \cup {"key"} \cup {"value"})
        /\ Cardinality({"table"} \cup {"key"} \cup {"value"}) = 3
    BY <2>3, FS_AddElement
  <2>5. IteratorRefs = {"table"} \cup {"key"} \cup {"value"}
    BY DEF IteratorRefs
  <2>6. IsFiniteSet(IteratorRefs) /\ Cardinality(IteratorRefs) = 3
    BY <2>4, <2>5
  <2>7. Vars \cap IteratorRefs = {} /\ IsFiniteSet({}) /\ Cardinality({}) = 0
    BY RefsAssumption, FS_EmptySet
  <2>8. /\ IsFiniteSet(Vars \cup IteratorRefs)
        /\ Cardinality(Vars \cup IteratorRefs)
             = Cardinality(Vars) + Cardinality(IteratorRefs) - Cardinality(Vars \cap IteratorRefs)
    BY <2>1, <2>6, FS_Union
  <2>9. Cardinality(Vars \cap IteratorRefs) = 0
    BY <2>7
  <2> QED
    BY <2>1, <2>6, <2>8, <2>9 DEF Refs
<1>2. PICK S : S = {ref[h] : h \in Refs}
  OBVIOUS
<1>3. IsFiniteSet(S) /\ Cardinality(S) <= Cardinality(Refs) /\ Cardinality(S) \in Nat
  <2>1. ref \in Surjection(Refs, S)
    BY <1>2 DEF Surjection
  <2> QED
    BY <1>1, <2>1, FS_Surjection, FS_CardinalityType
<1>4. IsFiniteSet(X) /\ Cardinality(X) \in Nat /\ Cardinality(X) <= 1
  <2>1. CASE X = {}
    BY <2>1, FS_EmptySet
  <2>2. ASSUME NEW x, X = {x} PROVE IsFiniteSet(X) /\ Cardinality(X) \in Nat /\ Cardinality(X) <= 1
    <3>1. IsFiniteSet({x}) /\ Cardinality({x}) = 1
      BY FS_Singleton
    <3> QED
      BY <2>2, <3>1
  <2> QED
    BY <2>1, <2>2
<1>5. /\ IsFiniteSet(S \cup X) /\ Cardinality(S \cup X) \in Nat
      /\ Cardinality(S \cup X) <= Cardinality(S) + Cardinality(X)
  <2>1. /\ IsFiniteSet(S \cup X)
        /\ Cardinality(S \cup X) = Cardinality(S) + Cardinality(X) - Cardinality(S \cap X)
    BY <1>3, <1>4, FS_Union
  <2>2. Cardinality(S \cap X) \in Nat
    BY <1>3, FS_Intersection, FS_CardinalityType
  <2>3. Cardinality(S \cup X) \in Nat
    BY <2>1, FS_CardinalityType
  <2> QED
    BY <1>3, <1>4, <2>1, <2>2, <2>3
<1>6. Owns(ref, D) \cup X \subseteq S \cup X
  BY <1>2 DEF Owns
<1>7. Cardinality(Owns(ref, D) \cup X) <= Cardinality(S \cup X) /\ Cardinality(Owns(ref, D) \cup X) \in Nat
  BY <1>5, <1>6, FS_Subset, FS_CardinalityType
<1> QED
  BY <1>1, <1>3, <1>4, <1>5, <1>7, RefsAssumption

(* References that are not replaced own slots. *)
LEMMA OwnsFacts ==
    ASSUME NEW ref \in [Refs -> {Dead, LUA_REFNIL} \cup 1..MaxSlots], NEW D
    PROVE  /\ \A h \in Refs \ D : ref[h] > 0 <=> ref[h] \in Owns(ref, D)
           /\ \A h \in Refs : ref[h] \in Int
           /\ \A h \in Refs : ref[h] > 0 \/ ref[h] \in {Dead, LUA_REFNIL}
           /\ Owns(ref, D) \subseteq 1..MaxSlots
BY RefsAssumption DEF Owns, Dead, LUA_REFNIL

(* A state with another registry. *)
LEMMA RegistryChanges ==
    ASSUME NEW s, IsState(s), NEW e, NEW r, r = [s EXCEPT !.reg = e]
    PROVE  /\ IsState(r) /\ r.reg = e
           /\ r.heap = s.heap /\ r.ref = s.ref /\ r.held = s.held /\ r.stack = s.stack
<1>1. PICK reg, heap, ref, held, stack :
        s = [reg |-> reg, heap |-> heap, ref |-> ref, held |-> held, stack |-> stack, fault |-> FALSE]
  BY DEF IsState
<1>2. r = [reg |-> e, heap |-> heap, ref |-> ref, held |-> held, stack |-> stack, fault |-> FALSE]
  BY ONLY <1>1, r = [s EXCEPT !.reg = e]
<1>3. /\ s.heap = heap /\ s.ref = ref /\ s.held = held /\ s.stack = stack
      /\ r.reg = e /\ r.heap = heap /\ r.ref = ref /\ r.held = held /\ r.stack = stack
  BY ONLY <1>1, <1>2
<1>4. r = [reg |-> r.reg, heap |-> r.heap, ref |-> r.ref, held |-> r.held,
           stack |-> r.stack, fault |-> FALSE]
  BY ONLY <1>2
<1> QED
  BY <1>3, <1>4 DEF IsState

(* WithKey, and what else stores a value that no LuaRef owns yet. *)
LEMMA StoresTemporary ==
    ASSUME NEW s, NEW D, Sound(s, {}, D), NEW v, v # nil,
           NEW x, x = NewRef(s, v), NEW r, r = Store(s, v)
    PROVE  /\ Sound(r, {x}, D) /\ x \in 1..MaxSlots /\ r.reg[x] = v
           /\ r.heap = s.heap /\ r.ref = s.ref /\ r.held = s.held /\ r.stack = s.stack
<1>1. IsState(s) /\ HoldersSound(s.reg, s.ref, s.held, D)
  BY DEF Sound
<1>2. PICK U : U = Owns(s.ref, D)
  OBVIOUS
<1>3. RegistrySound(s.reg, U)
  <2>1. U \cup {} = U
    OBVIOUS
  <2> QED
    BY <1>2, <2>1 DEF Sound
<1>4. s.ref \in [Refs -> {Dead, LUA_REFNIL} \cup 1..MaxSlots]
  BY <1>1 DEF IsState
<1>5. Cardinality(U) < MaxSlots
  <2>1. U \cup {} = U
    OBVIOUS
  <2>2. Cardinality(Owns(s.ref, D) \cup {}) < MaxSlots
    BY <1>4, Room
  <2> QED
    BY <1>2, <2>1, <2>2
<1>6. PICK e : e = luaL_ref(s.reg, v)
  OBVIOUS
<1>7. x = RefIndex(s.reg) /\ r = [s EXCEPT !.reg = e]
  BY <1>6 DEF NewRef, Store
<1>8. /\ x \in (1..MaxSlots) \ U
      /\ RegistrySound(e, U \cup {x})
      /\ e[x] = v /\ \A i \in U : e[i] = s.reg[i]
  BY <1>3, <1>5, <1>6, <1>7, Takes
<1>9. /\ IsState(r) /\ r.reg = e
      /\ r.heap = s.heap /\ r.ref = s.ref /\ r.held = s.held /\ r.stack = s.stack
  BY <1>1, <1>7, RegistryChanges
<1>10. HoldersSound(r.reg, r.ref, r.held, D)
  BY <1>1, <1>2, <1>4, <1>8, <1>9, OwnsFacts DEF HoldersSound
<1>11. {x} \cap Owns(r.ref, D) = {}
  BY <1>2, <1>8, <1>9
<1>12. RegistrySound(r.reg, Owns(r.ref, D) \cup {x})
  BY <1>2, <1>8, <1>9
<1> QED
  BY <1>8, <1>9, <1>10, <1>11, <1>12 DEF Sound

(* The temporary goes. *)
LEMMA FreesTemporary ==
    ASSUME NEW s, NEW D, NEW x, Sound(s, {x}, D), x \in 1..MaxSlots, NEW r, r = Free(s, x)
    PROVE  /\ Sound(r, {}, D)
           /\ r.heap = s.heap /\ r.ref = s.ref /\ r.held = s.held /\ r.stack = s.stack
<1>1. IsState(s) /\ HoldersSound(s.reg, s.ref, s.held, D)
  BY DEF Sound
<1>2. PICK U : U = Owns(s.ref, D)
  OBVIOUS
<1>3. RegistrySound(s.reg, U \cup {x}) /\ x \notin U
  BY <1>2 DEF Sound
<1>4. s.ref \in [Refs -> {Dead, LUA_REFNIL} \cup 1..MaxSlots]
  BY <1>1 DEF IsState
<1>5. PICK e : e = luaL_unref(s.reg, x)
  OBVIOUS
<1>6. r = [s EXCEPT !.reg = e]
  BY <1>5 DEF Free
<1>7. RegistrySound(e, U) /\ \A i \in U : e[i] = s.reg[i]
  <2>1. (U \cup {x}) \ {x} = U /\ x \in U \cup {x}
    BY <1>3
  <2>2. /\ RegistrySound(e, (U \cup {x}) \ {x})
        /\ \A i \in (U \cup {x}) \ {x} : e[i] = s.reg[i]
    BY <1>3, <1>5, <2>1, Gives
  <2> QED
    BY <2>1, <2>2
<1>8. /\ IsState(r) /\ r.reg = e
      /\ r.heap = s.heap /\ r.ref = s.ref /\ r.held = s.held /\ r.stack = s.stack
  BY <1>1, <1>6, RegistryChanges
<1>9. HoldersSound(r.reg, r.ref, r.held, D)
  BY <1>1, <1>2, <1>4, <1>7, <1>8, OwnsFacts DEF HoldersSound
<1>10. {} \cap Owns(r.ref, D) = {} /\ U \cup {} = U
  OBVIOUS
<1>11. RegistrySound(r.reg, Owns(r.ref, D) \cup {})
  BY <1>2, <1>7, <1>8, <1>10
<1> QED
  BY <1>8, <1>9, <1>10, <1>11 DEF Sound

(* The reference of h goes, because h is destroyed or gets another one. *)
LEMMA FreesHolder ==
    ASSUME NEW s, NEW X, Sound(s, X, {}), NEW h \in Refs, NEW r, r = Free(s, s.ref[h])
    PROVE  /\ Sound(r, X, {h}) /\ \A x \in X : r.reg[x] = s.reg[x]
           /\ r.heap = s.heap /\ r.ref = s.ref /\ r.held = s.held /\ r.stack = s.stack
<1>1. IsState(s) /\ HoldersSound(s.reg, s.ref, s.held, {})
  BY DEF Sound
<1>2. s.ref \in [Refs -> {Dead, LUA_REFNIL} \cup 1..MaxSlots]
  BY <1>1 DEF IsState
<1>3. PICK U : U = Owns(s.ref, {})
  OBVIOUS
<1>4. RegistrySound(s.reg, U \cup X) /\ X \cap U = {} /\ (X = {} \/ \E x : X = {x})
  BY <1>3 DEF Sound
<1>5. \A i \in U \cup X : i > 0
  <2>1. PICK L, k, n : FreeList(s.reg, U \cup X, L, k, n)
    BY <1>4 DEF RegistrySound
  <2>2. U \cup X \subseteq 1..n /\ n \in Nat
    BY <2>1, RefsAssumption DEF FreeList
  <2> QED
    BY <2>2
<1>6. PICK o : o = s.ref[h] /\ o \in Int
  BY <1>2, OwnsFacts
<1>7. CASE o > 0
  <2>1. o \in U
    BY <1>2, <1>3, <1>6, <1>7, OwnsFacts
  <2>2. Owns(s.ref, {h}) = U \ {o}
    <3>1. \A g \in Refs : g # h => s.ref[g] # o
      <4>1. ASSUME NEW g \in Refs, g # h, s.ref[g] = s.ref[h] PROVE s.ref[h] < 0
        BY <1>1, <4>1 DEF HoldersSound
      <4> QED
        BY <1>6, <1>7, <4>1
    <3> QED
      BY <1>3, <1>6, <3>1 DEF Owns
  <2>3. PICK e : e = luaL_unref(s.reg, o)
    OBVIOUS
  <2>4. r = [s EXCEPT !.reg = e]
    BY <1>6, <2>3 DEF Free
  <2>5. /\ RegistrySound(e, (U \cup X) \ {o})
        /\ \A i \in (U \cup X) \ {o} : e[i] = s.reg[i]
    BY <1>4, <2>1, <2>3, Gives
  <2>6. (U \cup X) \ {o} = (U \ {o}) \cup X
    BY <1>4, <2>1
  <2>7. /\ IsState(r) /\ r.reg = e
        /\ r.heap = s.heap /\ r.ref = s.ref /\ r.held = s.held /\ r.stack = s.stack
    BY <1>1, <2>4, RegistryChanges
  <2>8. \A x \in X : r.reg[x] = s.reg[x]
    BY <2>5, <2>6, <2>7
  <2>9. HoldersSound(r.reg, r.ref, r.held, {h})
    <3>1. \A i \in U \ {o} : e[i] = s.reg[i]
      BY <2>5, <2>6
    <3>2. \A g \in Refs \ {h} : s.ref[g] > 0 => s.ref[g] \in U \ {o}
      BY <1>2, <2>2, OwnsFacts
    <3> QED
      BY <1>1, <2>7, <3>1, <3>2 DEF HoldersSound
  <2>10. X \cap Owns(r.ref, {h}) = {}
    BY <1>4, <2>2, <2>7
  <2>11. RegistrySound(r.reg, Owns(r.ref, {h}) \cup X)
    BY <2>2, <2>5, <2>6, <2>7
  <2> QED
    BY <1>4, <2>7, <2>8, <2>9, <2>10, <2>11 DEF Sound
<1>8. CASE o \in {Dead, LUA_REFNIL}
  <2>1. r = s
    <3>1. ~(o >= 0)
      BY <1>8 DEF Dead, LUA_REFNIL
    <3>2. r = [s EXCEPT !.reg = s.reg]
      BY <1>6, <3>1 DEF Free, luaL_unref
    <3>3. PICK reg, heap, ref, held, stack :
            s = [reg |-> reg, heap |-> heap, ref |-> ref, held |-> held, stack |-> stack, fault |-> FALSE]
      BY <1>1 DEF IsState
    <3>4. s.reg = reg
      BY ONLY <3>3
    <3> QED
      BY ONLY <3>2, <3>3, <3>4
  <2>2. Owns(s.ref, {h}) = U
    BY <1>3, <1>6, <1>8 DEF Owns
  <2>3. HoldersSound(s.reg, s.ref, s.held, {h})
    BY <1>1 DEF HoldersSound
  <2> QED
    BY <1>1, <1>4, <2>1, <2>2, <2>3 DEF Sound
<1> QED
  BY <1>2, <1>6, <1>7, <1>8, OwnsFacts

(* h gets another reference, x to v, in a state whose registry is e. *)
Changed(s, e, h, x, v) == [[s EXCEPT !.reg = e] EXCEPT !.ref[h] = x, !.held[h] = v]

LEMMA HolderChanges ==
    ASSUME NEW s, IsState(s), NEW e, NEW h \in Refs,
           NEW x, x \in {Dead, LUA_REFNIL} \cup 1..MaxSlots, NEW v,
           NEW r, r = Changed(s, e, h, x, v)
    PROVE  /\ IsState(r) /\ r.reg = e /\ r.heap = s.heap /\ r.stack = s.stack
           /\ r.ref[h] = x /\ r.held[h] = v
           /\ \A g \in Refs : g # h => r.ref[g] = s.ref[g] /\ r.held[g] = s.held[g]
<1>1. PICK reg, heap, ref, held, stack :
        s = [reg |-> reg, heap |-> heap, ref |-> ref, held |-> held, stack |-> stack, fault |-> FALSE]
  BY DEF IsState
<1>2. PICK q : q = [s EXCEPT !.reg = e]
  OBVIOUS
<1>3. q = [reg |-> e, heap |-> heap, ref |-> ref, held |-> held, stack |-> stack, fault |-> FALSE]
  BY ONLY <1>1, <1>2
<1>4. r = [q EXCEPT !.ref[h] = x, !.held[h] = v]
  BY <1>2 DEF Changed
<1>5. PICK ref2 : ref2 = [ref EXCEPT ![h] = x]
  OBVIOUS
<1>6. PICK held2 : held2 = [held EXCEPT ![h] = v]
  OBVIOUS
<1>7. r = [reg |-> e, heap |-> heap, ref |-> ref2, held |-> held2, stack |-> stack, fault |-> FALSE]
  BY ONLY <1>3, <1>4, <1>5, <1>6
<1>8. s.heap = heap /\ s.ref = ref /\ s.held = held /\ s.stack = stack
  BY ONLY <1>1
<1>9. /\ r.reg = e /\ r.heap = heap /\ r.ref = ref2 /\ r.held = held2 /\ r.stack = stack
      /\ r = [reg |-> r.reg, heap |-> r.heap, ref |-> r.ref, held |-> r.held,
              stack |-> r.stack, fault |-> FALSE]
  BY ONLY <1>7
<1>10. /\ ref2 \in [Refs -> {Dead, LUA_REFNIL} \cup 1..MaxSlots] /\ ref2[h] = x
      /\ \A g \in Refs : g # h => ref2[g] = ref[g]
  BY <1>5, <1>8 DEF IsState
<1>11. /\ IsHeld(held2) /\ held2[h] = v
      /\ \A g \in Refs : g # h => held2[g] = held[g]
  <2>1. DOMAIN held = Refs
    BY <1>8 DEF IsState, IsHeld
  <2>2. held2 = [g \in Refs |-> IF g = h THEN v ELSE held[g]]
    BY ONLY <1>6, <2>1
  <2>3. IsHeld(held2)
    BY ONLY <2>2 DEF IsHeld
  <2> QED
    BY <2>2, <2>3
<1>12. IsHeap(heap)
  BY <1>8 DEF IsState
<1>13. IsState(r)
  BY <1>9, <1>10, <1>11, <1>12 DEF IsState
<1> QED
  BY <1>8, <1>9, <1>10, <1>11, <1>13

(* FromStack: the value is stored, and h owns its slot. *)
LEMMA Receives ==
    ASSUME NEW s, NEW X, NEW h \in Refs, Sound(s, X, {h}), NEW v, NEW r, r = FromStack(s, h, v)
    PROVE  /\ Sound(r, X, {}) /\ \A x \in X : r.reg[x] = s.reg[x]
           /\ r.heap = s.heap /\ r.stack = s.stack
           /\ r.ref[h] # Dead /\ r.held[h] = v
           /\ \A g \in Refs : g # h => r.ref[g] = s.ref[g] /\ r.held[g] = s.held[g]
<1>1. IsState(s) /\ HoldersSound(s.reg, s.ref, s.held, {h})
  BY DEF Sound
<1>2. s.ref \in [Refs -> {Dead, LUA_REFNIL} \cup 1..MaxSlots]
  BY <1>1 DEF IsState
<1>3. PICK U : U = Owns(s.ref, {h})
  OBVIOUS
<1>4. RegistrySound(s.reg, U \cup X) /\ X \cap U = {} /\ (X = {} \/ \E x : X = {x})
  BY <1>3 DEF Sound
<1>5. Cardinality(U \cup X) < MaxSlots
  BY <1>2, <1>3, <1>4, Room
<1>6. PICK e : e = IF v = nil THEN s.reg ELSE luaL_ref(s.reg, v)
  OBVIOUS
<1>7. PICK x : x = IF v = nil THEN LUA_REFNIL ELSE RefIndex(s.reg)
  OBVIOUS
<1>8. PICK q : q = [s EXCEPT !.reg = e]
  OBVIOUS
<1>9. r = Changed(s, e, h, x, v)
  <2>1. Store(s, v) = q
    <3>1. CASE v # nil
      BY <1>6, <1>8, <3>1 DEF Store
    <3>2. CASE v = nil
      <4>1. q = [s EXCEPT !.reg = s.reg] /\ Store(s, v) = s
        BY <1>6, <1>8, <3>2 DEF Store
      <4>2. PICK reg, heap, ref, held, stack :
              s = [reg |-> reg, heap |-> heap, ref |-> ref, held |-> held, stack |-> stack, fault |-> FALSE]
        BY <1>1 DEF IsState
      <4>3. s.reg = reg
        BY ONLY <4>2
      <4>4. q = s
        BY ONLY <4>1, <4>2, <4>3
      <4> QED
        BY <4>1, <4>4
    <3> QED
      BY <3>1, <3>2
  <2>2. NewRef(s, v) = x
    BY <1>7 DEF NewRef
  <2> QED
    BY <1>8, <2>1, <2>2 DEF FromStack, Changed
<1>10. CASE v = nil
  <2>1. x = LUA_REFNIL /\ e = s.reg /\ x \in {Dead, LUA_REFNIL} \cup 1..MaxSlots
    BY <1>6, <1>7, <1>10
  <2>2. /\ IsState(r) /\ r.reg = e /\ r.heap = s.heap /\ r.stack = s.stack
        /\ r.ref[h] = x /\ r.held[h] = v
        /\ \A g \in Refs : g # h => r.ref[g] = s.ref[g] /\ r.held[g] = s.held[g]
    BY <1>1, <1>9, <2>1, HolderChanges
  <2>3. Owns(r.ref, {}) = U
    BY <1>3, <2>1, <2>2 DEF Owns
  <2>4. HoldersSound(r.reg, r.ref, r.held, {})
    <3>1. ASSUME NEW g \in Refs
          PROVE  /\ r.ref[g] = LUA_REFNIL => r.held[g] = nil
                 /\ r.ref[g] > 0 => r.held[g] # nil /\ r.reg[r.ref[g]] = r.held[g]
      BY <1>1, <1>10, <2>1, <2>2 DEF HoldersSound, LUA_REFNIL
    <3>2. ASSUME NEW f \in Refs, NEW g \in Refs, f # g, r.ref[f] = r.ref[g] PROVE r.ref[g] < 0
      <4>1. CASE f = h \/ g = h
        BY <2>1, <2>2, <3>2, <4>1 DEF LUA_REFNIL
      <4>2. CASE f # h /\ g # h
        BY <1>1, <2>2, <3>2, <4>2 DEF HoldersSound
      <4> QED
        BY <4>1, <4>2
    <3> QED
      BY <3>1, <3>2 DEF HoldersSound
  <2>5. X \cap Owns(r.ref, {}) = {} /\ RegistrySound(r.reg, Owns(r.ref, {}) \cup X)
    BY <1>4, <2>1, <2>2, <2>3
  <2>6. r.ref[h] # Dead
    BY <2>1, <2>2 DEF LUA_REFNIL, Dead
  <2> QED
    BY <1>4, <2>1, <2>2, <2>4, <2>5, <2>6 DEF Sound
<1>11. CASE v # nil
  <2>1. x = RefIndex(s.reg) /\ e = luaL_ref(s.reg, v)
    BY <1>6, <1>7, <1>11
  <2>2. /\ x \in (1..MaxSlots) \ (U \cup X)
        /\ RegistrySound(e, (U \cup X) \cup {x})
        /\ e[x] = v /\ \A i \in U \cup X : e[i] = s.reg[i]
    BY <1>4, <1>5, <1>11, <2>1, Takes
  <2>3. x \in {Dead, LUA_REFNIL} \cup 1..MaxSlots
    BY <2>2
  <2>4. /\ IsState(r) /\ r.reg = e /\ r.heap = s.heap /\ r.stack = s.stack
        /\ r.ref[h] = x /\ r.held[h] = v
        /\ \A g \in Refs : g # h => r.ref[g] = s.ref[g] /\ r.held[g] = s.held[g]
    BY <1>1, <1>9, <2>3, HolderChanges
  <2>5. x > 0 /\ x \in Int /\ x # Dead /\ x # LUA_REFNIL
    BY <2>2, RefsAssumption DEF Dead, LUA_REFNIL
  <2>6. Owns(r.ref, {}) = U \cup {x}
    BY <1>3, <2>4, <2>5 DEF Owns
  <2>7. HoldersSound(r.reg, r.ref, r.held, {})
    <3>1. ASSUME NEW g \in Refs
          PROVE  /\ r.ref[g] = LUA_REFNIL => r.held[g] = nil
                 /\ r.ref[g] > 0 => r.held[g] # nil /\ r.reg[r.ref[g]] = r.held[g]
      <4>1. CASE g = h
        BY <1>11, <2>2, <2>4, <2>5, <4>1
      <4>2. CASE g # h
        <5>1. r.ref[g] = s.ref[g] /\ r.held[g] = s.held[g] /\ g \in Refs \ {h}
          BY <2>4, <4>2
        <5>2. s.ref[g] > 0 => s.ref[g] \in U
          BY <1>2, <1>3, <5>1, OwnsFacts
        <5>3. /\ s.ref[g] = LUA_REFNIL => s.held[g] = nil
              /\ s.ref[g] > 0 => s.held[g] # nil /\ s.reg[s.ref[g]] = s.held[g]
          BY <1>1, <5>1 DEF HoldersSound
        <5> QED
          BY <2>2, <2>4, <5>1, <5>2, <5>3
      <4> QED
        BY <4>1, <4>2
    <3>2. ASSUME NEW f \in Refs, NEW g \in Refs, f # g, r.ref[f] = r.ref[g] PROVE r.ref[g] < 0
      <4>1. ASSUME NEW c \in Refs, c # h PROVE r.ref[c] # x
        <5>1. r.ref[c] = s.ref[c] /\ c \in Refs \ {h}
          BY <2>4, <4>1
        <5>2. s.ref[c] > 0 => s.ref[c] \in U
          BY <1>2, <1>3, <5>1, OwnsFacts
        <5> QED
          BY <2>2, <2>5, <5>1, <5>2
      <4>2. f # h /\ g # h
        BY <2>4, <3>2, <4>1
      <4> QED
        BY <1>1, <2>4, <3>2, <4>2 DEF HoldersSound
    <3> QED
      BY <3>1, <3>2 DEF HoldersSound
  <2>8. X \cap Owns(r.ref, {}) = {}
    BY <1>4, <2>2, <2>6
  <2>9. RegistrySound(r.reg, Owns(r.ref, {}) \cup X)
    <3>1. (U \cup X) \cup {x} = (U \cup {x}) \cup X
      OBVIOUS
    <3> QED
      BY <2>2, <2>4, <2>6, <3>1
  <2>10. \A i \in X : r.reg[i] = s.reg[i]
    BY <2>2, <2>4
  <2> QED
    BY <1>4, <2>4, <2>5, <2>7, <2>8, <2>9, <2>10 DEF Sound
<1> QED
  BY <1>10, <1>11

(* A registry that has not changed. *)
LEMMA SameRegistry ==
    ASSUME NEW s, IsState(s), NEW e, e = s.reg
    PROVE  s = [s EXCEPT !.reg = e]
<1>1. PICK reg, heap, ref, held, stack :
        s = [reg |-> reg, heap |-> heap, ref |-> ref, held |-> held, stack |-> stack, fault |-> FALSE]
  BY DEF IsState
<1>2. e = reg
  BY ONLY <1>1, e = s.reg
<1>3. PICK r : r = [s EXCEPT !.reg = e]
  OBVIOUS
<1>4. r = [reg |-> e, heap |-> heap, ref |-> ref, held |-> held, stack |-> stack, fault |-> FALSE]
  BY ONLY <1>1, <1>3
<1>5. r = s
  BY ONLY <1>1, <1>2, <1>4
<1> QED
  BY <1>3, <1>5

(* What the program takes h to refer to is what it was last given. *)
LEMMA SameHeld ==
    ASSUME NEW s, IsState(s), NEW h, NEW v, v = s.held[h]
    PROVE  s = [s EXCEPT !.held[h] = v]
<1>1. PICK reg, heap, ref, held, stack :
        s = [reg |-> reg, heap |-> heap, ref |-> ref, held |-> held, stack |-> stack, fault |-> FALSE]
  BY DEF IsState
<1>2. s.held = held
  BY ONLY <1>1
<1>3. PICK held2 : held2 = [held EXCEPT ![h] = v]
  OBVIOUS
<1>4. held2 = held
  <2>1. held = [g \in Refs |-> held[g]] /\ v = held[h]
    BY <1>2 DEF IsState, IsHeld
  <2> QED
    BY ONLY <1>3, <2>1
<1>5. PICK r : r = [s EXCEPT !.held[h] = v]
  OBVIOUS
<1>6. r = [reg |-> reg, heap |-> heap, ref |-> ref, held |-> held2, stack |-> stack, fault |-> FALSE]
  BY ONLY <1>1, <1>3, <1>5
<1>7. r = s
  BY ONLY <1>1, <1>4, <1>6
<1> QED
  BY <1>5, <1>7

(* h is gone: nobody owns its slot any more. *)
Without(s, h) == [s EXCEPT !.ref[h] = Dead, !.held[h] = nil]

LEMMA Dies ==
    ASSUME NEW s, NEW X, NEW h \in Refs, Sound(s, X, {h}), NEW r, r = Without(s, h)
    PROVE  /\ Sound(r, X, {}) /\ r.heap = s.heap /\ r.stack = s.stack /\ r.ref[h] = Dead
           /\ \A g \in Refs : g # h => r.ref[g] = s.ref[g] /\ r.held[g] = s.held[g]
<1>1. IsState(s) /\ HoldersSound(s.reg, s.ref, s.held, {h})
  BY DEF Sound
<1>2. PICK U : U = Owns(s.ref, {h})
  OBVIOUS
<1>3. RegistrySound(s.reg, U \cup X) /\ X \cap U = {} /\ (X = {} \/ \E x : X = {x})
  BY <1>2 DEF Sound
<1>4. PICK e : e = s.reg
  OBVIOUS
<1>5. r = Changed(s, e, h, Dead, nil)
  <2>1. s = [s EXCEPT !.reg = e]
    BY <1>1, <1>4, SameRegistry
  <2> QED
    BY <2>1 DEF Changed, Without
<1>6. /\ IsState(r) /\ r.reg = e /\ r.heap = s.heap /\ r.stack = s.stack
      /\ r.ref[h] = Dead /\ r.held[h] = nil
      /\ \A g \in Refs : g # h => r.ref[g] = s.ref[g] /\ r.held[g] = s.held[g]
  <2>1. Dead \in {Dead, LUA_REFNIL} \cup 1..MaxSlots
    OBVIOUS
  <2> QED
    BY ONLY h \in Refs, <1>1, <1>5, <2>1, HolderChanges
<1>7. Owns(r.ref, {}) = U
  BY <1>2, <1>6 DEF Owns
<1>8. HoldersSound(r.reg, r.ref, r.held, {})
  <2>1. ASSUME NEW g \in Refs
        PROVE  /\ r.ref[g] = LUA_REFNIL => r.held[g] = nil
               /\ r.ref[g] > 0 => r.held[g] # nil /\ r.reg[r.ref[g]] = r.held[g]
    BY <1>1, <1>4, <1>6 DEF HoldersSound, Dead
  <2>2. ASSUME NEW f \in Refs, NEW g \in Refs, f # g, r.ref[f] = r.ref[g] PROVE r.ref[g] < 0
    <3>1. CASE f = h \/ g = h
      BY <1>6, <2>2, <3>1 DEF Dead
    <3>2. CASE f # h /\ g # h
      BY <1>1, <1>6, <2>2, <3>2 DEF HoldersSound
    <3> QED
      BY <3>1, <3>2
  <2> QED
    BY <2>1, <2>2 DEF HoldersSound
<1> QED
  BY <1>3, <1>4, <1>6, <1>7, <1>8 DEF Sound

(* A variable that does not exist owns nothing. *)
LEMMA DeadOwnsNothing ==
    ASSUME NEW s, NEW X, NEW h \in Refs, Sound(s, X, {}), s.ref[h] = Dead
    PROVE  Sound(s, X, {h})
<1>1. Owns(s.ref, {h}) = Owns(s.ref, {})
  BY DEF Owns
<1>2. HoldersSound(s.reg, s.ref, s.held, {h})
  BY DEF Sound, HoldersSound
<1> QED
  BY <1>1, <1>2 DEF Sound

(* A reference that is alive is read for what it was given. *)
LEMMA Reads ==
    ASSUME NEW s, NEW X, NEW D, Sound(s, X, D), NEW h \in Refs \ D, s.ref[h] # Dead
    PROVE  push(s, h) = s.held[h] /\ At(s, s.ref[h]) = s.held[h]
<1>1. IsState(s) /\ HoldersSound(s.reg, s.ref, s.held, D)
  BY DEF Sound
<1>2. s.ref \in [Refs -> {Dead, LUA_REFNIL} \cup 1..MaxSlots]
  BY <1>1 DEF IsState
<1>3. CASE s.ref[h] = LUA_REFNIL
  BY <1>1, <1>3 DEF HoldersSound, push, At
<1>4. CASE s.ref[h] > 0 /\ s.ref[h] # LUA_REFNIL
  BY <1>1, <1>4 DEF HoldersSound, push, At
<1>5. s.ref[h] = LUA_REFNIL \/ (s.ref[h] > 0 /\ s.ref[h] # LUA_REFNIL)
  BY <1>2, OwnsFacts DEF LUA_REFNIL
<1> QED
  BY <1>3, <1>4, <1>5

(* A statement that writes to a table, and one that leaves the stack otherwise. *)
LEMMA HeapChanges ==
    ASSUME NEW s, NEW X, NEW D, Sound(s, X, D), NEW heap, IsHeap(heap),
           NEW r, r = [s EXCEPT !.heap = heap]
    PROVE  /\ Sound(r, X, D) /\ r.heap = heap
           /\ r.reg = s.reg /\ r.ref = s.ref /\ r.held = s.held /\ r.stack = s.stack
<1>1. PICK reg, heap0, ref, held, stack :
        s = [reg |-> reg, heap |-> heap0, ref |-> ref, held |-> held, stack |-> stack, fault |-> FALSE]
  BY DEF Sound, IsState
<1>2. r = [reg |-> reg, heap |-> heap, ref |-> ref, held |-> held, stack |-> stack, fault |-> FALSE]
  BY ONLY <1>1, r = [s EXCEPT !.heap = heap]
<1>3. /\ r = [reg |-> r.reg, heap |-> r.heap, ref |-> r.ref, held |-> r.held,
              stack |-> r.stack, fault |-> FALSE]
      /\ r.heap = heap /\ r.reg = s.reg /\ r.ref = s.ref /\ r.held = s.held /\ r.stack = s.stack
  BY ONLY <1>1, <1>2
<1>4. IsState(r)
  BY <1>3 DEF Sound, IsState
<1> QED
  BY <1>3, <1>4 DEF Sound

LEMMA StackChanges ==
    ASSUME NEW s, NEW X, NEW D, Sound(s, X, D), NEW stack, NEW r, r = [s EXCEPT !.stack = stack]
    PROVE  /\ Sound(r, X, D) /\ r.stack = stack
           /\ r.heap = s.heap /\ r.ref = s.ref
<1>1. PICK reg, heap, ref, held, stack0 :
        s = [reg |-> reg, heap |-> heap, ref |-> ref, held |-> held, stack |-> stack0, fault |-> FALSE]
  BY DEF Sound, IsState
<1>2. r = [reg |-> reg, heap |-> heap, ref |-> ref, held |-> held, stack |-> stack, fault |-> FALSE]
  BY ONLY <1>1, r = [s EXCEPT !.stack = stack]
<1>3. /\ r = [reg |-> r.reg, heap |-> r.heap, ref |-> r.ref, held |-> r.held,
              stack |-> r.stack, fault |-> FALSE]
      /\ r.stack = stack /\ r.reg = s.reg /\ r.ref = s.ref /\ r.held = s.held /\ r.heap = s.heap
  BY ONLY <1>1, <1>2
<1>4. IsState(r)
  BY <1>3 DEF Sound, IsState
<1> QED
  BY <1>3, <1>4 DEF Sound

(* A table keeps its keys. *)
LEMMA CellChanges ==
    ASSUME NEW heap, IsHeap(heap), NEW t, NEW key, NEW v
    PROVE  IsHeap([heap EXCEPT ![t][key] = v])
<1>1. PICK h2 : h2 = [heap EXCEPT ![t][key] = v]
  OBVIOUS
<1>2. DOMAIN heap = Tables /\ \A u \in Tables : DOMAIN heap[u] = Keys
  BY DEF IsHeap
<1>3. h2 = [u \in Tables |-> IF u = t THEN [heap[t] EXCEPT ![key] = v] ELSE heap[u]]
  BY ONLY <1>1, <1>2
<1>4. h2 = [u \in Tables |-> h2[u]]
  BY ONLY <1>3
<1>5. ASSUME NEW u \in Tables PROVE h2[u] = [i \in Keys |-> h2[u][i]]
  <2>1. CASE u = t
    <3>1. PICK c : c = [heap[t] EXCEPT ![key] = v]
      OBVIOUS
    <3>2. c = [i \in Keys |-> IF i = key THEN v ELSE heap[t][i]]
      BY <1>2, <2>1, <3>1
    <3>3. c = [i \in Keys |-> c[i]]
      BY ONLY <3>2
    <3> QED
      BY <1>3, <2>1, <3>1, <3>3
  <2>2. CASE u # t
    BY <1>3, <2>2 DEF IsHeap
  <2> QED
    BY <2>1, <2>2
<1> QED
  BY <1>1, <1>4, <1>5 DEF IsHeap

-----------------------------------------------------------------------------
(* What the statements are made of. *)

(* FromStack makes a LuaRef that did not exist. *)
LEMMA Constructs ==
    ASSUME NEW s, NEW X, Sound(s, X, {}), NEW h \in Refs, s.ref[h] = Dead, NEW v,
           NEW r, r = FromStack(s, h, v)
    PROVE  /\ Sound(r, X, {}) /\ \A x \in X : r.reg[x] = s.reg[x]
           /\ r.heap = s.heap /\ r.stack = s.stack
           /\ r.ref[h] # Dead /\ r.held[h] = v
           /\ \A g \in Refs : g # h => r.ref[g] = s.ref[g] /\ r.held[g] = s.held[g]
<1>1. Sound(s, X, {h})
  BY DeadOwnsNothing
<1> QED
  BY <1>1, Receives

(* AssignTo gives a LuaRef that exists another value. *)
LEMMA Assigns ==
    ASSUME NEW s, Sound(s, {}, {}), NEW h \in Refs, NEW v, NEW r, r = AssignTo(s, h, v)
    PROVE  /\ Sound(r, {}, {}) /\ r.heap = s.heap /\ r.stack = s.stack
           /\ r.ref[h] # Dead /\ r.held[h] = v
           /\ \A g \in Refs : g # h => r.ref[g] = s.ref[g] /\ r.held[g] = s.held[g]
<1>1. PICK f : f = Free(s, s.ref[h])
  OBVIOUS
<1>2. Sound(f, {}, {h}) /\ f.heap = s.heap /\ f.ref = s.ref /\ f.held = s.held /\ f.stack = s.stack
  BY <1>1, FreesHolder
<1>3. r = FromStack(f, h, v)
  BY <1>1 DEF AssignTo
<1>4. /\ Sound(r, {}, {}) /\ r.heap = f.heap /\ r.stack = f.stack
      /\ r.ref[h] # Dead /\ r.held[h] = v
      /\ \A g \in Refs : g # h => r.ref[g] = f.ref[g] /\ r.held[g] = f.held[g]
  BY <1>2, <1>3, Receives
<1> QED
  BY <1>2, <1>4

LEMMA Destroys ==
    ASSUME NEW s, Sound(s, {}, {}), NEW h \in Refs, NEW r, r = Destroyed(s, h)
    PROVE  /\ Sound(r, {}, {}) /\ r.stack = s.stack /\ r.ref[h] = Dead
           /\ \A g \in Refs : g # h => r.ref[g] = s.ref[g]
<1>1. PICK f : f = Free(s, s.ref[h])
  OBVIOUS
<1>2. Sound(f, {}, {h}) /\ f.ref = s.ref /\ f.stack = s.stack
  BY <1>1, FreesHolder
<1>3. r = Without(f, h)
  BY <1>1 DEF Destroyed, Without
<1>4. /\ Sound(r, {}, {}) /\ r.stack = f.stack /\ r.ref[h] = Dead
      /\ \A g \in Refs : g # h => r.ref[g] = f.ref[g] /\ r.held[g] = f.held[g]
  BY <1>2, <1>3, Dies
<1> QED
  BY <1>2, <1>4

(* g exists and holds a table. *)
Table(s, g) == s.ref[g] # Dead /\ IsTab(s.held[g])

(* A proxy stores its key. *)
LEMMA ProxyMade ==
    ASSUME NEW s, NEW D, Sound(s, {}, D), NEW g, NEW key,
           NEW p, p = ProxyOf(s, g, key), NEW r, r = WithKey(s, key)
    PROVE  /\ Sound(r, {p.keyRef}, D) /\ p.tableRef = s.ref[g]
           /\ p.keyRef \in 1..MaxSlots /\ r.reg[p.keyRef] = Num(key)
           /\ r.heap = s.heap /\ r.ref = s.ref /\ r.held = s.held /\ r.stack = s.stack
<1>1. p.keyRef = NewRef(s, Num(key)) /\ p.tableRef = s.ref[g]
  BY DEF ProxyOf
<1>2. r = Store(s, Num(key)) /\ Num(key) # nil
  BY ValueFacts DEF WithKey
<1> QED
  BY <1>1, <1>2, StoresTemporary

(* It finds its table and its key, as long as the table's LuaRef has not changed. *)
LEMMA ProxyReads ==
    ASSUME NEW s, NEW X, NEW D, Sound(s, X, D), NEW g \in Refs \ D, Table(s, g), NEW key \in Keys,
           NEW p, p.tableRef = s.ref[g], p.keyRef \in 1..MaxSlots, s.reg[p.keyRef] = Num(key)
    PROVE  /\ Checked(s, p) = s /\ ProxyPush(s, p) = s.heap[s.held[g].t][key]
           /\ At(s, p.tableRef) = s.held[g]
<1>1. At(s, p.tableRef) = s.held[g]
  BY Reads DEF Table
<1>2. p.keyRef # LUA_REFNIL
  BY RefsAssumption DEF LUA_REFNIL
<1>3. At(s, p.keyRef) = Num(key)
  BY <1>2 DEF At
<1>4. Num(key).k = "num" /\ Num(key).n = key
  BY ValueFacts
<1>5. Pushes(s, p)
  BY <1>1, <1>3, <1>4 DEF Pushes, Table
<1> QED
  BY <1>1, <1>3, <1>4, <1>5 DEF Checked, ProxyPush

(* It gives its key back. *)
LEMMA ProxyGone ==
    ASSUME NEW s, NEW D, NEW p, Sound(s, {p.keyRef}, D), p.keyRef \in 1..MaxSlots,
           NEW r, r = Gone(s, p)
    PROVE  /\ Sound(r, {}, D)
           /\ r.heap = s.heap /\ r.ref = s.ref /\ r.held = s.held /\ r.stack = s.stack
BY FreesTemporary DEF Gone

-----------------------------------------------------------------------------
(* The statements. *)

IsStack(stack) == stack \in Seq({Num(1), Message}) /\ Len(stack) <= MaxStack

(* An iterator has its three references or none. *)
Iterating(ref) ==
    /\ ref["table"] = Dead <=> ref["key"] = Dead
    /\ ref["table"] = Dead <=> ref["value"] = Dead

Inv == Sound(m, {}, {}) /\ IsStack(m.stack) /\ Iterating(m.ref)

(* A statement about a variable is none about the iterator. *)
LEMMA VarsOnly ==
    ASSUME NEW ref, NEW ref2, Iterating(ref), NEW h \in Vars,
           \A g \in Refs : g # h => ref2[g] = ref[g]
    PROVE  Iterating(ref2)
<1>1. h \notin IteratorRefs /\ IteratorRefs \subseteq Refs
  BY RefsAssumption DEF Refs
<1>2. \A g \in IteratorRefs : ref2[g] = ref[g]
  BY <1>1
<1> QED
  BY <1>2 DEF Iterating, IteratorRefs

(* LuaRef h (g [key]) *)
LEMMA ReadSound ==
    ASSUME Inv, NEW h \in Vars, NEW g \in Vars, NEW key \in Keys, m.ref[h] = Dead, Table(m, g),
           NEW r, r = Read(h, g, key)
    PROVE  Sound(r, {}, {}) /\ r.stack = m.stack /\ Iterating(r.ref)
<1>1. PICK p : p = ProxyOf(m, g, key)
  OBVIOUS
<1>2. PICK s : s = WithKey(m, key)
  OBVIOUS
<1>3. Sound(m, {}, {}) /\ h \in Refs /\ g \in Refs \ {}
  BY DEF Inv, Refs
<1>4. /\ Sound(s, {p.keyRef}, {}) /\ p.tableRef = m.ref[g]
      /\ p.keyRef \in 1..MaxSlots /\ s.reg[p.keyRef] = Num(key)
      /\ s.ref = m.ref /\ s.held = m.held /\ s.stack = m.stack
  BY <1>1, <1>2, <1>3, ProxyMade
<1>5. Table(s, g)
  BY <1>4 DEF Table
<1>6. Checked(s, p) = s
  BY <1>3, <1>4, <1>5, ProxyReads
<1>7. PICK v : v = ProxyPush(s, p)
  OBVIOUS
<1>8. PICK f : f = FromStack(s, h, v)
  OBVIOUS
<1>9. /\ Sound(f, {p.keyRef}, {}) /\ f.stack = s.stack
      /\ \A u \in Refs : u # h => f.ref[u] = s.ref[u]
  BY <1>3, <1>4, <1>8, Constructs
<1>10. r = Gone(f, p)
  BY <1>1, <1>2, <1>6, <1>7, <1>8 DEF Read
<1>11. Sound(r, {}, {}) /\ r.ref = f.ref /\ r.stack = f.stack
  BY <1>4, <1>9, <1>10, ProxyGone
<1>12. Iterating(r.ref)
  BY <1>4, <1>9, <1>11, VarsOnly DEF Inv
<1> QED
  BY <1>4, <1>9, <1>11, <1>12

(* h = g [key]: g's table and the key are still there when h's old reference is not. *)
LEMMA AssignFromProxySound ==
    ASSUME Inv, NEW h \in Vars, NEW g \in Vars, h # g, NEW key \in Keys,
           AssignFromProxy(h, g, key)
    PROVE  Sound(m', {}, {}) /\ m'.stack = m.stack /\ Iterating(m'.ref)
<1>1. PICK p : p = ProxyOf(m, g, key)
  OBVIOUS
<1>2. PICK w : w = WithKey(m, key)
  OBVIOUS
<1>3. PICK s : s = Free(w, m.ref[h])
  OBVIOUS
<1>4. PICK v : v = ProxyPush(s, p)
  OBVIOUS
<1>5. PICK c : c = m.heap[m.held[g].t][key]
  OBVIOUS
<1>6. PICK f : f = FromStack(s, h, v)
  OBVIOUS
<1>7. Sound(m, {}, {}) /\ h \in Refs /\ g \in Refs \ {h} /\ Table(m, g)
  BY DEF Inv, Refs, AssignFromProxy, HoldsTable, Alive, Table
<1>8. /\ Sound(w, {p.keyRef}, {}) /\ p.tableRef = m.ref[g]
      /\ p.keyRef \in 1..MaxSlots /\ w.reg[p.keyRef] = Num(key)
      /\ w.heap = m.heap /\ w.ref = m.ref /\ w.held = m.held /\ w.stack = m.stack
  BY <1>1, <1>2, <1>7, ProxyMade
<1>9. s = Free(w, w.ref[h])
  BY <1>3, <1>8
<1>10. /\ Sound(s, {p.keyRef}, {h}) /\ s.reg[p.keyRef] = Num(key)
       /\ s.heap = m.heap /\ s.ref = m.ref /\ s.held = m.held /\ s.stack = m.stack
  <2>1. PICK X : X = {p.keyRef}
    OBVIOUS
  <2>2. Sound(w, X, {}) /\ h \in Refs
    BY <1>7, <1>8, <2>1
  <2>3. /\ Sound(s, X, {h}) /\ \A x \in X : s.reg[x] = w.reg[x]
        /\ s.heap = w.heap /\ s.ref = w.ref /\ s.held = w.held /\ s.stack = w.stack
    BY ONLY <1>9, <2>2, FreesHolder
  <2> QED
    BY <1>8, <2>1, <2>3
<1>11. Table(s, g)
  BY <1>7, <1>10 DEF Table
<1>12. p.tableRef = s.ref[g]
  BY <1>8, <1>10
<1>13. Checked(s, p) = s /\ v = s.heap[s.held[g].t][key]
  BY <1>4, <1>7, <1>8, <1>10, <1>11, <1>12, ProxyReads
<1>14. v = c
  BY <1>5, <1>10, <1>13
<1>15. /\ Sound(f, {p.keyRef}, {}) /\ f.stack = s.stack /\ f.held[h] = v
       /\ \A u \in Refs : u # h => f.ref[u] = s.ref[u]
  BY <1>6, <1>7, <1>10, Receives
<1>16. PICK e : e = [f EXCEPT !.held[h] = c]
  OBVIOUS
<1>17. e = f
  BY <1>14, <1>15, <1>16, SameHeld DEF Sound
<1>18. m' = Gone(e, p)
  BY <1>1, <1>2, <1>3, <1>4, <1>5, <1>6, <1>13, <1>16 DEF AssignFromProxy
<1>19. Sound(m', {}, {}) /\ m'.ref = f.ref /\ m'.stack = f.stack
  BY <1>8, <1>15, <1>17, <1>18, ProxyGone
<1>20. Iterating(m'.ref)
  BY <1>10, <1>15, <1>19, VarsOnly DEF Inv
<1> QED
  BY <1>10, <1>15, <1>19, <1>20

(* g [key] = v *)
LEMMA SetByProxySound ==
    ASSUME Inv, NEW g \in Vars, NEW key \in Keys, Table(m, g), NEW v, NEW raw,
           NEW r, r = SetByProxy(g, key, v, raw)
    PROVE  Sound(r, {}, {}) /\ r.stack = m.stack /\ r.ref = m.ref
<1>1. PICK p : p = ProxyOf(m, g, key)
  OBVIOUS
<1>2. PICK s : s = WithKey(m, key)
  OBVIOUS
<1>3. Sound(m, {}, {}) /\ g \in Refs \ {}
  BY DEF Inv, Refs
<1>4. /\ Sound(s, {p.keyRef}, {}) /\ p.tableRef = m.ref[g]
      /\ p.keyRef \in 1..MaxSlots /\ s.reg[p.keyRef] = Num(key)
      /\ s.ref = m.ref /\ s.held = m.held /\ s.stack = m.stack
  BY <1>1, <1>2, <1>3, ProxyMade
<1>5. Table(s, g)
  BY <1>4 DEF Table
<1>6. Checked(s, p) = s
  BY <1>3, <1>4, <1>5, ProxyReads
<1>7. PICK t : t = At(s, p.tableRef).t
  OBVIOUS
<1>8. PICK heap : heap = [s.heap EXCEPT ![t][key] = v]
  OBVIOUS
<1>9. PICK e : e = [s EXCEPT !.heap = heap]
  OBVIOUS
<1>10. r = Gone(s, p) \/ r = Gone(e, p)
  <2>1. e = [s EXCEPT !.heap[t][key] = v]
    BY <1>8, <1>9
  <2> QED
    BY <1>1, <1>2, <1>6, <1>7, <2>1 DEF SetByProxy
<1>11. /\ Sound(e, {p.keyRef}, {}) /\ e.ref = m.ref /\ e.stack = m.stack
  <2>1. IsHeap(heap)
    BY <1>4, <1>8, CellChanges DEF Sound, IsState
  <2>2. Sound(e, {p.keyRef}, {}) /\ e.ref = s.ref /\ e.stack = s.stack
    BY <1>4, <1>9, <2>1, HeapChanges
  <2> QED
    BY <1>4, <2>2
<1>12. CASE r = Gone(s, p)
  BY <1>4, <1>12, ProxyGone
<1>13. CASE r = Gone(e, p)
  BY <1>4, <1>11, <1>13, ProxyGone
<1> QED
  BY <1>10, <1>12, <1>13

(* type, cast, length and the comparisons of g [key] *)
LEMMA InspectProxySound ==
    ASSUME Inv, NEW g \in Vars, NEW key \in Keys, InspectProxy(g, key)
    PROVE  Sound(m', {}, {}) /\ m'.stack = m.stack /\ m'.ref = m.ref
<1>1. PICK p : p = ProxyOf(m, g, key)
  OBVIOUS
<1>2. PICK s : s = WithKey(m, key)
  OBVIOUS
<1>3. Sound(m, {}, {}) /\ g \in Refs \ {} /\ Table(m, g)
  BY DEF Inv, Refs, InspectProxy, HoldsTable, Alive, Table
<1>4. /\ Sound(s, {p.keyRef}, {}) /\ p.tableRef = m.ref[g]
      /\ p.keyRef \in 1..MaxSlots /\ s.reg[p.keyRef] = Num(key)
      /\ s.ref = m.ref /\ s.held = m.held /\ s.stack = m.stack
  BY <1>1, <1>2, <1>3, ProxyMade
<1>5. Table(s, g)
  BY <1>3, <1>4 DEF Table
<1>6. Checked(s, p) = s
  BY <1>3, <1>4, <1>5, ProxyReads
<1>7. m' = Gone(s, p)
  BY <1>1, <1>2, <1>6 DEF InspectProxy
<1> QED
  BY <1>4, <1>7, ProxyGone

(* LuaRef h (g [key](args)) *)
LEMMA CallProxySound ==
    ASSUME Inv, NEW h \in Vars, NEW g \in Vars, NEW key \in Keys, NEW v, CallProxy(h, g, key, v)
    PROVE  Sound(m', {}, {}) /\ m'.stack = m.stack /\ Iterating(m'.ref)
<1>1. PICK p : p = ProxyOf(m, g, key)
  OBVIOUS
<1>2. PICK s : s = WithKey(m, key)
  OBVIOUS
<1>3. Sound(m, {}, {}) /\ h \in Refs /\ g \in Refs \ {} /\ Table(m, g) /\ m.ref[h] = Dead
  BY DEF Inv, Refs, CallProxy, HoldsTable, Alive, Table
<1>4. /\ Sound(s, {p.keyRef}, {}) /\ p.tableRef = m.ref[g]
      /\ p.keyRef \in 1..MaxSlots /\ s.reg[p.keyRef] = Num(key)
      /\ s.ref = m.ref /\ s.held = m.held /\ s.stack = m.stack
  BY <1>1, <1>2, <1>3, ProxyMade
<1>5. Table(s, g)
  BY <1>3, <1>4 DEF Table
<1>6. Checked(s, p) = s
  BY <1>3, <1>4, <1>5, ProxyReads
<1>7. PICK f : f = FromStack(s, h, v)
  OBVIOUS
<1>8. /\ Sound(f, {p.keyRef}, {}) /\ f.stack = s.stack
      /\ \A u \in Refs : u # h => f.ref[u] = s.ref[u]
  BY <1>3, <1>4, <1>7, Constructs
<1>9. m' = Gone(f, p)
  BY <1>1, <1>2, <1>6, <1>7 DEF CallProxy
<1>10. Sound(m', {}, {}) /\ m'.ref = f.ref /\ m'.stack = f.stack
  BY <1>4, <1>8, <1>9, ProxyGone
<1>11. Iterating(m'.ref)
  BY <1>4, <1>8, <1>10, VarsOnly DEF Inv
<1> QED
  BY <1>4, <1>8, <1>10, <1>11

(* append: luaL_ref on a table keeps its keys. *)
LEMMA AppendedSound ==
    ASSUME Inv, NEW t, NEW v, NEW r, r = Appended(t, v)
    PROVE  /\ Sound(r, {}, {}) /\ r.stack = m.stack /\ r.ref = m.ref /\ r.reg = m.reg
<1>1. Sound(m, {}, {}) /\ IsHeap(m.heap)
  BY DEF Inv, Sound, IsState
<1>2. PICK heap : heap = m.heap
  OBVIOUS
<1>3. PICK c : c = luaL_ref(heap[t], v)
  OBVIOUS
<1>4. PICK h2 : h2 = [heap EXCEPT ![t] = c]
  OBVIOUS
<1>5. IsHeap(h2)
  <2>1. DOMAIN heap = Tables /\ \A u \in Tables : heap[u] = [i \in Keys |-> heap[u][i]]
    BY <1>1, <1>2 DEF IsHeap
  <2>2. h2 = [u \in Tables |-> IF u = t THEN c ELSE heap[u]]
    BY ONLY <1>4, <2>1
  <2>3. h2 = [u \in Tables |-> h2[u]]
    BY ONLY <2>2
  <2>4. ASSUME t \in Tables PROVE c = [i \in Keys |-> c[i]]
    <3>1. PICK f : f = heap[t]
      OBVIOUS
    <3>2. DOMAIN f = Keys
      BY <2>1, <2>4, <3>1
    <3>3. PICK a, b : c = [f EXCEPT ![0] = a, ![b] = v] \/ c = [f EXCEPT ![b] = v]
      BY <1>3, <3>1 DEF luaL_ref
    <3>4. CASE c = [f EXCEPT ![b] = v]
      <4>1. c = [i \in Keys |-> IF i = b THEN v ELSE f[i]]
        BY ONLY <3>2, <3>4
      <4> QED
        BY ONLY <4>1
    <3>5. CASE c = [f EXCEPT ![0] = a, ![b] = v]
      <4>1. c = [i \in Keys |-> IF i = b THEN v ELSE IF i = 0 THEN a ELSE f[i]]
        BY ONLY <3>2, <3>5
      <4> QED
        BY ONLY <4>1
    <3> QED
      BY <3>3, <3>4, <3>5
  <2>5. ASSUME NEW u \in Tables PROVE h2[u] = [i \in Keys |-> h2[u][i]]
    <3>1. CASE u = t
      <4>1. h2[u] = c
        BY <2>2, <3>1
      <4> QED
        BY <2>4, <3>1, <4>1
    <3>2. CASE u # t
      BY <2>1, <2>2, <3>2
    <3> QED
      BY <3>1, <3>2
  <2> QED
    BY <2>3, <2>5 DEF IsHeap
<1>6. r = [m EXCEPT !.heap = h2]
  BY <1>2, <1>3, <1>4 DEF Appended
<1> QED
  BY <1>1, <1>5, <1>6, HeapChanges

(* g [key].append (v) *)
LEMMA AppendProxySound ==
    ASSUME Inv, NEW g \in Vars, NEW key \in Keys, NEW v, AppendProxy(g, key, v)
    PROVE  Sound(m', {}, {}) /\ m'.stack = m.stack /\ m'.ref = m.ref
<1>1. PICK p : p = ProxyOf(m, g, key)
  OBVIOUS
<1>2. PICK tt : tt = ProxyPush(WithKey(m, key), p)
  OBVIOUS
<1>3. PICK a : a = Appended(tt.t, v)
  OBVIOUS
<1>4. PICK s : s = WithKey(a, key)
  OBVIOUS
<1>5. m' = Gone(s, p)
  BY <1>1, <1>2, <1>3, <1>4 DEF AppendProxy
<1>6. Sound(a, {}, {}) /\ a.stack = m.stack /\ a.ref = m.ref /\ a.reg = m.reg
  BY <1>3, AppendedSound
<1>7. p = ProxyOf(a, g, key)
  BY <1>1, <1>6 DEF ProxyOf, NewRef
<1>8. /\ Sound(s, {p.keyRef}, {}) /\ p.keyRef \in 1..MaxSlots
      /\ s.ref = a.ref /\ s.stack = a.stack
  BY <1>4, <1>6, <1>7, ProxyMade
<1> QED
  BY <1>5, <1>6, <1>8, ProxyGone

(* h = g, of two variables. *)
LEMMA AssignRefSound ==
    ASSUME Inv, NEW h \in Vars, NEW g \in Vars, h # g, AssignRef(h, g)
    PROVE  Sound(m', {}, {}) /\ m'.stack = m.stack /\ Iterating(m'.ref)
<1>1. Sound(m, {}, {}) /\ h \in Refs /\ g \in Refs \ {h} /\ m.ref[g] # Dead
  BY DEF Inv, Refs, AssignRef, Alive
<1>2. PICK s : s = Free(m, m.ref[h])
  OBVIOUS
<1>3. Sound(s, {}, {h}) /\ s.ref = m.ref /\ s.held = m.held /\ s.stack = m.stack
  <2>1. PICK X : X = {}
    OBVIOUS
  <2>2. Sound(m, X, {}) /\ h \in Refs
    BY <1>1, <2>1
  <2>3. Sound(s, X, {h}) /\ s.ref = m.ref /\ s.held = m.held /\ s.stack = m.stack
    BY ONLY <1>2, <2>2, FreesHolder
  <2> QED
    BY <2>1, <2>3
<1>4. PICK v : v = push(s, g)
  OBVIOUS
<1>5. v = m.held[g]
  BY <1>1, <1>3, <1>4, Reads
<1>6. PICK f : f = FromStack(s, h, v)
  OBVIOUS
<1>7. /\ Sound(f, {}, {}) /\ f.stack = s.stack /\ f.held[h] = v
      /\ \A u \in Refs : u # h => f.ref[u] = s.ref[u]
  BY <1>1, <1>3, <1>6, Receives
<1>8. m' = [f EXCEPT !.held[h] = v]
  BY <1>2, <1>4, <1>5, <1>6 DEF AssignRef, LuaRef_assign
<1>9. m' = f
  BY <1>7, <1>8, SameHeld DEF Sound
<1>10. Iterating(m'.ref)
  BY <1>3, <1>7, <1>9, VarsOnly DEF Inv
<1> QED
  BY <1>3, <1>7, <1>9, <1>10

(* The iterator goes on, or ends with nil for key and value. *)
LEMMA AdvanceSound ==
    ASSUME NEW s, Sound(s, {}, {}), NEW t, NEW key, NEW r, r = Advance(s, t, key)
    PROVE  /\ Sound(r, {}, {}) /\ r.stack = s.stack
           /\ r.ref["key"] # Dead /\ r.ref["value"] # Dead /\ r.ref["table"] = s.ref["table"]
<1>1. {"table", "key", "value"} \subseteq Refs
  BY DEF Refs, IteratorRefs
<1>2. PICK i : i = CHOOSE n \in After(t, key) : \A j \in After(t, key) : n <= j
  OBVIOUS
<1>3. CASE After(t, key) = {}
  <2>1. PICK f : f = AssignTo(s, "key", nil)
    OBVIOUS
  <2>2. /\ Sound(f, {}, {}) /\ f.stack = s.stack /\ f.ref["key"] # Dead
        /\ f.ref["table"] = s.ref["table"]
    BY <1>1, <2>1, Assigns
  <2>3. r = AssignTo(f, "value", nil)
    BY <1>3, <2>1 DEF Advance
  <2>4. /\ Sound(r, {}, {}) /\ r.stack = f.stack /\ r.ref["value"] # Dead
        /\ r.ref["table"] = f.ref["table"] /\ r.ref["key"] = f.ref["key"]
    BY <1>1, <2>2, <2>3, Assigns
  <2> QED
    BY <2>2, <2>4
<1>4. CASE After(t, key) # {}
  <2>1. PICK f : f = AssignTo(s, "value", m.heap[t][i])
    OBVIOUS
  <2>2. /\ Sound(f, {}, {}) /\ f.stack = s.stack /\ f.ref["value"] # Dead
        /\ f.ref["table"] = s.ref["table"]
    BY <1>1, <2>1, Assigns
  <2>3. r = AssignTo(f, "key", Num(i))
    BY <1>2, <1>4, <2>1 DEF Advance
  <2>4. /\ Sound(r, {}, {}) /\ r.stack = f.stack /\ r.ref["key"] # Dead
        /\ r.ref["table"] = f.ref["table"] /\ r.ref["value"] = f.ref["value"]
    BY <1>1, <2>2, <2>3, Assigns
  <2> QED
    BY <2>2, <2>4
<1> QED
  BY <1>3, <1>4

LEMMA IteratorBeginSound ==
    ASSUME Inv, NEW g \in Vars, IteratorBegin(g)
    PROVE  Sound(m', {}, {}) /\ m'.stack = m.stack /\ Iterating(m'.ref)
<1>1. {"table", "key", "value"} \subseteq Refs
  BY DEF Refs, IteratorRefs
<1>2. /\ Sound(m, {}, {})
      /\ m.ref["table"] = Dead /\ m.ref["key"] = Dead /\ m.ref["value"] = Dead
  BY DEF Inv, IteratorBegin, Alive, Iterating
<1>3. PICK t : t = m.held[g]
  OBVIOUS
<1>4. PICK a : a = FromStack(m, "table", t)
  OBVIOUS
<1>5. PICK b : b = FromStack(a, "key", nil)
  OBVIOUS
<1>6. PICK c : c = FromStack(b, "value", nil)
  OBVIOUS
<1>7. /\ Sound(a, {}, {}) /\ a.stack = m.stack /\ a.ref["table"] # Dead
      /\ a.ref["key"] = Dead /\ a.ref["value"] = Dead
  BY <1>1, <1>2, <1>4, Constructs
<1>8. /\ Sound(b, {}, {}) /\ b.stack = m.stack /\ b.ref["table"] # Dead /\ b.ref["value"] = Dead
  BY <1>1, <1>5, <1>7, Constructs
<1>9. Sound(c, {}, {}) /\ c.stack = m.stack /\ c.ref["table"] # Dead
  BY <1>1, <1>6, <1>8, Constructs
<1>10. m' = Advance(c, t.t, nil)
  BY <1>3, <1>4, <1>5, <1>6 DEF IteratorBegin
<1>11. /\ Sound(m', {}, {}) /\ m'.stack = c.stack
       /\ m'.ref["key"] # Dead /\ m'.ref["value"] # Dead /\ m'.ref["table"] = c.ref["table"]
  BY <1>9, <1>10, AdvanceSound
<1> QED
  BY <1>9, <1>11 DEF Iterating

LEMMA IteratorNextSound ==
    ASSUME Inv, IteratorNext
    PROVE  Sound(m', {}, {}) /\ m'.stack = m.stack /\ Iterating(m'.ref)
<1>1. Sound(m, {}, {}) /\ m.ref["table"] # Dead
  BY DEF Inv, IteratorNext, Alive
<1>2. m' = Advance(m, push(m, "table").t, push(m, "key"))
  BY DEF IteratorNext
<1>3. /\ Sound(m', {}, {}) /\ m'.stack = m.stack
      /\ m'.ref["key"] # Dead /\ m'.ref["value"] # Dead /\ m'.ref["table"] = m.ref["table"]
  BY <1>1, <1>2, AdvanceSound
<1> QED
  BY <1>1, <1>3 DEF Iterating

LEMMA IteratorEndSound ==
    ASSUME Inv, IteratorEnd
    PROVE  Sound(m', {}, {}) /\ m'.stack = m.stack /\ Iterating(m'.ref)
<1>1. "table" \in Refs /\ "key" \in Refs /\ "value" \in Refs /\ Sound(m, {}, {})
  BY DEF Refs, IteratorRefs, Inv
<1>2. PICK a : a = Destroyed(m, "value")
  OBVIOUS
<1>3. PICK b : b = Destroyed(a, "key")
  OBVIOUS
<1>4. m' = Destroyed(b, "table")
  BY <1>2, <1>3 DEF IteratorEnd
<1>5. Sound(a, {}, {}) /\ a.stack = m.stack /\ a.ref["value"] = Dead
  <2>1. PICK h, s : h = "value" /\ s = m
    OBVIOUS
  <2>2. Sound(s, {}, {}) /\ h \in Refs /\ a = Destroyed(s, h)
    BY <1>1, <1>2, <2>1
  <2>3. Sound(a, {}, {}) /\ a.stack = s.stack /\ a.ref[h] = Dead
    BY ONLY <2>2, Destroys
  <2> QED
    BY <2>1, <2>3
<1>6. Sound(b, {}, {}) /\ b.stack = m.stack /\ b.ref["key"] = Dead /\ b.ref["value"] = Dead
  <2>1. PICK h : h = "key"
    OBVIOUS
  <2>2. h \in Refs /\ b = Destroyed(a, h)
    BY <1>1, <1>3, <2>1
  <2>3. /\ Sound(b, {}, {}) /\ b.stack = a.stack /\ b.ref[h] = Dead
        /\ \A g \in Refs : g # h => b.ref[g] = a.ref[g]
    BY ONLY <1>5, <2>2, Destroys
  <2> QED
    BY <1>1, <1>5, <2>1, <2>3
<1>7. /\ Sound(m', {}, {}) /\ m'.stack = m.stack /\ m'.ref["table"] = Dead
      /\ m'.ref["key"] = Dead /\ m'.ref["value"] = Dead
  <2>1. PICK h, c : h = "table" /\ c = m'
    OBVIOUS
  <2>2. h \in Refs /\ c = Destroyed(b, h)
    BY <1>1, <1>4, <2>1
  <2>3. /\ Sound(c, {}, {}) /\ c.stack = b.stack /\ c.ref[h] = Dead
        /\ \A g \in Refs : g # h => c.ref[g] = b.ref[g]
    BY ONLY <1>6, <2>2, Destroys
  <2> QED
    BY <1>1, <1>6, <2>1, <2>3
<1> QED
  BY <1>7 DEF Iterating

(* The stack of the C function around the statements. *)
LEMMA StackFacts ==
    ASSUME NEW stack, IsStack(stack)
    PROVE  /\ \A v \in {Num(1), Message} : Len(stack) < MaxStack => IsStack(Append(stack, v))
           /\ stack # <<>> => IsStack(StackPop(stack, 1))
<1>1. stack \in Seq({Num(1), Message}) /\ Len(stack) <= MaxStack /\ Len(stack) \in Nat
  BY DEF IsStack
<1>2. ASSUME NEW v \in {Num(1), Message}, Len(stack) < MaxStack PROVE IsStack(Append(stack, v))
  BY <1>1, <1>2, RefsAssumption DEF IsStack
<1>3. ASSUME stack # <<>> PROVE IsStack(StackPop(stack, 1))
  BY <1>1, <1>3, RefsAssumption DEF IsStack, StackPop
<1> QED
  BY <1>2, <1>3

(* The variables after a statement that leaves the references as they are. *)
LEMMA LeavesRefs ==
    ASSUME Inv, Sound(m', {}, {}), m'.ref = m.ref, m'.stack = m.stack
    PROVE  Inv'
BY DEF Inv

(* A statement that only changes the stack. *)
LEMMA OnStackSound ==
    ASSUME Inv, NEW stack, IsStack(stack), m' = [m EXCEPT !.stack = stack]
    PROVE  Inv' /\ m'.stack = stack
<1>1. PICK s : s = m
  OBVIOUS
<1>2. PICK r : r = m'
  OBVIOUS
<1>3. PICK X : X = {}
  OBVIOUS
<1>4. Sound(s, X, X) /\ r = [s EXCEPT !.stack = stack]
  BY <1>1, <1>2, <1>3 DEF Inv
<1>5. Sound(r, X, X) /\ r.stack = stack /\ r.ref = s.ref
  BY ONLY <1>4, StackChanges
<1> QED
  BY <1>1, <1>2, <1>3, <1>5 DEF Inv

-----------------------------------------------------------------------------
(* The program uses nothing that LuaRef gets wrong: it does not assign a reference or a
   proxy of it to itself, chain proxies, read one by rawget, assign one to another, or
   call tostring on a stack that is not empty. *)
WellDefined == \A what \in {"self", "nested", "rawget", "proxies", "tostring"} : ~Uses(what)

LEMMA OnRefsSound ==
    ASSUME WellDefined, Inv, OnRefs
    PROVE  Inv'
<1>1. Sound(m, {}, {}) /\ IsStack(m.stack) /\ Iterating(m.ref) /\ Vars \subseteq Refs
  BY DEF Inv, Refs
<1>2. ASSUME NEW h \in Vars, Destroy(h) PROVE Inv'
  <2>1. /\ Sound(m', {}, {}) /\ m'.stack = m.stack
        /\ \A g \in Refs : g # h => m'.ref[g] = m.ref[g]
    <3>1. PICK s, r : s = m /\ r = m'
      OBVIOUS
    <3>2. Sound(s, {}, {}) /\ h \in Refs /\ r = Destroyed(s, h)
      BY <1>1, <1>2, <3>1 DEF Destroy
    <3>3. /\ Sound(r, {}, {}) /\ r.stack = s.stack
          /\ \A g \in Refs : g # h => r.ref[g] = s.ref[g]
      BY ONLY <3>2, Destroys
    <3> QED
      BY <3>1, <3>3
  <2> QED
    BY <1>1, <2>1, VarsOnly DEF Inv
<1>3. ASSUME NEW h \in Vars, Tostring(h) PROVE Inv'
  <2>1. m.stack = <<>>
    BY <1>3 DEF Tostring, WellDefined
  <2>2. m' = [m EXCEPT !.fault = FALSE]
    <3>1. m' = [m EXCEPT !.fault = m.fault \/ Append(m.stack, Num(0))[1]
                                   # Append(m.stack, Num(0))[Len(Append(m.stack, Num(0)))]]
      BY <1>3 DEF Tostring
    <3>2. Append(m.stack, Num(0)) = <<Num(0)>>
      BY <2>1
    <3>3. Append(m.stack, Num(0))[1] = Append(m.stack, Num(0))[Len(Append(m.stack, Num(0)))]
      BY <3>2
    <3>4. m.fault = FALSE
      BY <1>1 DEF Sound, IsState
    <3> QED
      BY <3>1, <3>3, <3>4
  <2>3. m' = m
    <3>1. PICK reg, heap, ref, held, stack, b :
            /\ m = [reg |-> reg, heap |-> heap, ref |-> ref, held |-> held, stack |-> stack,
                    fault |-> b]
            /\ b = FALSE
      BY <1>1 DEF Sound, IsState
    <3>2. PICK s, r : s = m /\ r = m'
      OBVIOUS
    <3>3. /\ s = [reg |-> reg, heap |-> heap, ref |-> ref, held |-> held, stack |-> stack,
                  fault |-> b]
          /\ r = [s EXCEPT !.fault = b]
      BY <2>2, <3>1, <3>2
    <3>4. r = s
      BY ONLY <3>3
    <3> QED
      BY <3>2, <3>4
  <2> QED
    BY <2>3 DEF Inv
<1>4. ASSUME NEW h \in Vars, CallFails(h) PROVE Inv'
  <2>1. PICK stack : stack = Append(m.stack, Message)
    OBVIOUS
  <2>2. m' = [m EXCEPT !.stack = stack] /\ IsStack(stack)
    BY <1>1, <1>4, <2>1, StackFacts DEF CallFails
  <2> QED
    BY <1>4, <2>2, OnStackSound DEF CallFails
<1>7. ASSUME NEW h \in Vars, NEW v, m.ref[h] = Dead, m' = FromStack(m, h, v)
      PROVE  Inv'
  <2>1. /\ Sound(m', {}, {}) /\ m'.stack = m.stack
        /\ \A g \in Refs : g # h => m'.ref[g] = m.ref[g]
    <3>1. PICK s, r, X : s = m /\ r = m' /\ X = {}
      OBVIOUS
    <3>2. Sound(s, X, {}) /\ h \in Refs /\ s.ref[h] = Dead /\ r = FromStack(s, h, v)
      BY <1>1, <1>7, <3>1
    <3>3. /\ Sound(r, X, {}) /\ r.stack = s.stack
          /\ \A g \in Refs : g # h => r.ref[g] = s.ref[g]
      BY ONLY <3>2, Constructs
    <3> QED
      BY <3>1, <3>3
  <2> QED
    BY <1>1, <2>1, VarsOnly DEF Inv
<1>8. ASSUME NEW h \in Vars, NEW v \in Values, Construct(h, v) PROVE Inv'
  BY <1>7, <1>8 DEF Construct, Alive
<1>9. ASSUME NEW h \in Vars, NEW v \in Values, Assign(h, v) PROVE Inv'
  <2>1. /\ Sound(m', {}, {}) /\ m'.stack = m.stack
        /\ \A g \in Refs : g # h => m'.ref[g] = m.ref[g]
    <3>1. PICK s, r : s = m /\ r = m'
      OBVIOUS
    <3>2. Sound(s, {}, {}) /\ h \in Refs /\ r = AssignTo(s, h, v)
      BY <1>1, <1>9, <3>1 DEF Assign
    <3>3. /\ Sound(r, {}, {}) /\ r.stack = s.stack
          /\ \A g \in Refs : g # h => r.ref[g] = s.ref[g]
      BY ONLY <3>2, Assigns
    <3> QED
      BY <3>1, <3>3
  <2> QED
    BY <1>1, <2>1, VarsOnly DEF Inv
<1>10. ASSUME NEW h \in Vars, NEW g \in Vars, Copy(h, g) PROVE Inv'
  BY <1>7, <1>10 DEF Copy, Alive, createRef
<1>11. ASSUME NEW h \in Vars, NEW g \in Vars, AssignRef(h, g) PROVE Inv'
  <2>1. h # g
    BY <1>11 DEF AssignRef, WellDefined
  <2>2. Sound(m', {}, {}) /\ m'.stack = m.stack /\ Iterating(m'.ref)
    BY <1>11, <2>1, AssignRefSound
  <2> QED
    BY <1>1, <2>2 DEF Inv
<1>12. ASSUME NEW h \in Vars, NEW g \in Vars, NEW v \in Values, Call(h, g, v)
       PROVE  Inv'
  BY <1>7, <1>12 DEF Call, Alive
<1> QED
  BY <1>2, <1>3, <1>4, <1>8, <1>9, <1>10, <1>11, <1>12 DEF OnRefs

LEMMA OnProxiesSound ==
    ASSUME WellDefined, Inv, OnProxies
    PROVE  Inv'
<1>1. IsStack(m.stack) /\ Iterating(m.ref)
  BY DEF Inv
<1>2. ASSUME NEW g \in Vars, NEW key \in Keys, NEW v \in Values, AssignProxy(g, key, v)
      PROVE  Inv'
  <2>1. Table(m, g)
    BY <1>2 DEF AssignProxy, HoldsTable, Alive, Table
  <2>2. PICK raw \in BOOLEAN : m' = SetByProxy(g, key, v, raw)
    BY <1>2 DEF AssignProxy, WellDefined
  <2>3. Sound(m', {}, {}) /\ m'.stack = m.stack /\ m'.ref = m.ref
    BY <2>1, <2>2, SetByProxySound
  <2> QED
    BY <2>3, LeavesRefs
<1>3. ASSUME NEW g \in Vars, NEW key \in Keys, NEW v \in Values, AppendProxy(g, key, v)
      PROVE  Inv'
  BY <1>3, AppendProxySound, LeavesRefs
<1>4. ASSUME NEW g \in Vars, NEW v \in Values, Append_(g, v) PROVE Inv'
  BY <1>4, AppendedSound, LeavesRefs DEF Append_
<1>5. ASSUME NEW h \in Vars, NEW g \in Vars, NEW key \in Keys, AssignFromProxy(h, g, key)
      PROVE  Inv'
  <2>1. h # g
    BY <1>5 DEF AssignFromProxy, WellDefined
  <2>2. Sound(m', {}, {}) /\ m'.stack = m.stack /\ Iterating(m'.ref)
    BY <1>5, <2>1, AssignFromProxySound
  <2> QED
    BY <1>1, <2>2 DEF Inv
<1>6. ASSUME NEW h \in Vars, NEW g \in Vars, NEW key \in Keys, ReadProxy(h, g, key)
      PROVE  Inv'
  <2>1. m.ref[h] = Dead /\ Table(m, g)
    BY <1>6 DEF ReadProxy, HoldsTable, Alive, Table
  <2>2. m' = Read(h, g, key)
    BY <1>6 DEF ReadProxy, WellDefined
  <2>3. Sound(m', {}, {}) /\ m'.stack = m.stack /\ Iterating(m'.ref)
    BY <2>1, <2>2, ReadSound
  <2> QED
    BY <1>1, <2>3 DEF Inv
<1>7. ASSUME NEW g \in Vars, NEW key \in Keys, InspectProxy(g, key) PROVE Inv'
  BY <1>7, InspectProxySound, LeavesRefs
<1>8. ASSUME NEW h \in Vars, NEW g \in Vars, NEW key \in Keys, NEW v \in Values,
             CallProxy(h, g, key, v)
      PROVE  Inv'
  <2>1. Sound(m', {}, {}) /\ m'.stack = m.stack /\ Iterating(m'.ref)
    BY <1>8, CallProxySound
  <2> QED
    BY <1>1, <2>1 DEF Inv
<1> QED
  BY <1>2, <1>3, <1>4, <1>5, <1>6, <1>7, <1>8 DEF OnProxies

LEMMA OnIteratorSound ==
    ASSUME Inv, OnIterator
    PROVE  Inv'
<1>1. Sound(m, {}, {}) /\ IsStack(m.stack) /\ Iterating(m.ref) /\ Vars \subseteq Refs
  BY DEF Inv, Refs
<1>2. ASSUME NEW h \in Vars, NEW part \in {"key", "value"}, IteratorRead(h, part)
      PROVE  Inv'
  <2>1. PICK s, r, X, v : s = m /\ r = m' /\ X = {} /\ v = push(m, part)
    OBVIOUS
  <2>2. Sound(s, X, {}) /\ h \in Refs /\ s.ref[h] = Dead /\ r = FromStack(s, h, v)
    BY <1>1, <1>2, <2>1 DEF IteratorRead, Alive, createRef
  <2>3. /\ Sound(r, X, {}) /\ r.stack = s.stack
        /\ \A g \in Refs : g # h => r.ref[g] = s.ref[g]
    BY ONLY <2>2, Constructs
  <2> QED
    BY <1>1, <2>1, <2>3, VarsOnly DEF Inv
<1>3. CASE IteratorNext
  BY <1>1, <1>3, IteratorNextSound DEF Inv
<1>4. CASE IteratorEnd
  BY <1>1, <1>4, IteratorEndSound DEF Inv
<1>5. ASSUME NEW g \in Vars, IteratorBegin(g) PROVE Inv'
  BY <1>1, <1>5, IteratorBeginSound DEF Inv
<1> QED
  BY <1>2, <1>3, <1>4, <1>5 DEF OnIterator

LEMMA NextSound ==
    ASSUME WellDefined, Inv, [Next]_vars
    PROVE  Inv'
<1>1. IsStack(m.stack)
  BY DEF Inv
<1>2. CASE PopStack
  <2>1. PICK stack : stack = StackPop(m.stack, 1)
    OBVIOUS
  <2>2. m' = [m EXCEPT !.stack = stack] /\ IsStack(stack)
    BY <1>1, <1>2, <2>1, StackFacts DEF PopStack
  <2> QED
    BY <1>2, <2>2, OnStackSound
<1>3. CASE PushStack(Num(1))
  <2>1. PICK stack : stack = Append(m.stack, Num(1))
    OBVIOUS
  <2>2. m' = [m EXCEPT !.stack = stack] /\ IsStack(stack)
    BY <1>1, <1>3, <2>1, StackFacts DEF PushStack
  <2> QED
    BY <1>3, <2>2, OnStackSound
<1>4. CASE UNCHANGED vars
  BY <1>4 DEF Inv, vars
<1> QED
  BY <1>2, <1>3, <1>4, OnRefsSound, OnProxiesSound, OnIteratorSound DEF Next

-----------------------------------------------------------------------------
(* The registry is empty at first. *)
LEMMA InitSound ==
    ASSUME Init
    PROVE  Inv
<1>1. /\ m.reg = [i \in 0..MaxSlots |-> nil] /\ m.heap = [t \in Tables |-> [i \in Keys |-> nil]]
      /\ m.ref = [h \in Refs |-> Dead] /\ m.held = [h \in Refs |-> nil]
      /\ m.stack = <<>> /\ m.fault = FALSE
      /\ m = [reg |-> m.reg, heap |-> m.heap, ref |-> m.ref, held |-> m.held,
              stack |-> m.stack, fault |-> FALSE]
  BY DEF Init
<1>2. MaxSlots \in Nat /\ MaxStack \in Nat
  BY RefsAssumption
<1>3. IsState(m)
  <2>1. IsHeap(m.heap)
    BY <1>1 DEF IsHeap
  <2>2. IsHeld(m.held)
    BY <1>1 DEF IsHeld
  <2>3. m.ref \in [Refs -> {Dead, LUA_REFNIL} \cup 1..MaxSlots]
    BY <1>1
  <2> QED
    BY <1>1, <2>1, <2>2, <2>3 DEF IsState
<1>4. HoldersSound(m.reg, m.ref, m.held, {})
  BY <1>1 DEF HoldersSound, Dead, LUA_REFNIL
<1>5. Owns(m.ref, {}) = {}
  BY <1>1 DEF Owns
<1>6. RegistrySound(m.reg, {})
  <2>1. PICK f : f = m.reg
    OBVIOUS
  <2>2. PICK L : L = [j \in 1..0 |-> 0]
    OBVIOUS
  <2>3. f = [i \in 0..MaxSlots |-> nil]
    BY <1>1, <2>1
  <2>4. IsRegistry(f)
    BY <2>3 DEF IsRegistry
  <2>5. FreeList(f, {}, L, 0, 0)
    <3>1. f[0] = Link(L, 0)
      BY <1>2, <2>3 DEF Link
    <3>2. \A i \in (0 + 1)..MaxSlots : f[i] = nil
      BY <1>2, <2>3
    <3>3. \A j : ~(j \in 1..0)
      OBVIOUS
    <3> QED
      BY <1>2, <3>1, <3>2, <3>3 DEF FreeList
  <2> QED
    BY <2>1, <2>4, <2>5 DEF RegistrySound
<1>7. Sound(m, {}, {})
  BY <1>3, <1>4, <1>5, <1>6 DEF Sound
<1>8. IsStack(m.stack) /\ Iterating(m.ref)
  <2>1. IsStack(m.stack)
    BY <1>1, <1>2 DEF IsStack
  <2>2. {"table", "key", "value"} \subseteq Refs
    BY DEF Refs, IteratorRefs
  <2>3. m.ref["table"] = Dead /\ m.ref["key"] = Dead /\ m.ref["value"] = Dead
    BY <1>1, <2>2
  <2> QED
    BY <2>1, <2>3 DEF Iterating
<1> QED
  BY <1>7, <1>8 DEF Inv

LEMMA InvIsSound ==
    ASSUME Inv
    PROVE  ReferencesSound
<1>1. Sound(m, {}, {}) /\ IsState(m)
  BY DEF Inv, Sound
<1>2. HoldersSound(m.reg, m.ref, m.held, {}) /\ RegistrySound(m.reg, Used)
  <2>1. Owns(m.ref, {}) \cup {} = Used
    BY DEF Owns, Used
  <2> QED
    BY <1>1, <2>1 DEF Sound
<1>3. TypeOK
  BY <1>1 DEF TypeOK, Inv, IsStack, Iterating, Alive, IsState, IsHeap
<1>4. ReferencesMaintained
  <2>1. m.fault = FALSE
    BY <1>1 DEF IsState
  <2>2. ASSUME NEW h \in Refs, Alive(h) PROVE push(m, h) = m.held[h]
    <3>1. PICK s, X : s = m /\ X = {}
      OBVIOUS
    <3>2. Sound(s, X, X) /\ h \in Refs \ X /\ s.ref[h] # Dead
      BY <1>1, <2>2, <3>1 DEF Alive
    <3>3. push(s, h) = s.held[h]
      BY ONLY <3>2, Reads
    <3> QED
      BY <3>1, <3>3
  <2> QED
    BY <2>1, <2>2 DEF ReferencesMaintained
<1>5. FreeListSound /\ OneBorder
  <2>1. LET free == {FreeSlots[j] : j \in DOMAIN FreeSlots} \ {0}
        IN  /\ FreeSlots[MaxSlots + 1] = 0
            /\ free \cap Used = {}
            /\ \A i \in 1..MaxSlots : m.reg[i] # nil => i \in free \cup Used
            /\ OneBorder
    BY <1>2, RegistryReads
  <2>2. \A h, g \in Refs : (h # g /\ m.ref[h] = m.ref[g]) => m.ref[h] < 0
    BY <1>2 DEF HoldersSound
  <2> QED
    BY <2>1, <2>2 DEF FreeListSound
<1> QED
  BY <1>3, <1>4, <1>5 DEF ReferencesSound

(* luaL_ref and luaL_unref (lauxlib.c) under LuaRef, its proxies and its iterator
   (LuaRef.h, Iterator.h): a slot of the registry is free or has one owner, the free list
   has neither a cycle nor a slot in use, none is leaked, and each reference is read for
   the value that the program gave it, whatever it does in between. *)
THEOREM ReferencesAlwaysSound ==
    ASSUME WellDefined
    PROVE  Spec => []ReferencesSound
<1>1. Init => Inv
  BY InitSound
<1>2. Inv /\ [Next]_vars => Inv'
  BY NextSound
<1>3. Inv => ReferencesSound
  BY InvIsSound
<1> QED
  BY <1>1, <1>2, <1>3, PTL DEF Spec

-----------------------------------------------------------------------------
(* A table has a border: the first index of which the next has no value. *)
LEMMA HasBorder ==
    ASSUME NEW f, DOMAIN f = Keys
    PROVE  \E n \in Keys : n \in Borders(f)
<1>1. MaxIndex \in Nat
  BY RefsAssumption
<1>2. PICK S : S = {n \in Keys : (n + 1) \in Keys => f[n + 1] = nil}
  OBVIOUS
<1>3. S \subseteq Nat /\ MaxIndex \in S
  BY <1>1, <1>2 DEF Keys
<1>4. PICK n \in S : \A j \in S : n <= j
  BY <1>3, HasFirst
<1>5. n \in Keys /\ ((n + 1) \in Keys => f[n + 1] = nil)
  BY <1>2
<1>6. CASE n = 0
  BY <1>5, <1>6 DEF Borders
<1>7. CASE n # 0
  <2>1. n - 1 \in Keys /\ (n - 1) + 1 = n
    BY <1>1, <1>5, <1>7 DEF Keys
  <2>2. ~(n - 1 \in S)
    BY <1>3, <1>4
  <2>3. f[n] # nil
    BY <1>2, <2>1, <2>2
  <2> QED
    BY <1>5, <2>3 DEF Borders
<1> QED
  BY <1>6, <1>7

(* luaL_ref on a table without a number at 0 fills a place that is empty. *)
LEMMA AppendFills ==
    ASSUME ~Uses("zero"), Inv, NEW t \in Tables, NEW v, Appends(t, v),
           NEW heap, heap = Appended(t, v).heap
    PROVE  /\ \A i \in Keys : m.heap[t][i] # nil => heap[t][i] = m.heap[t][i]
           /\ \E i \in Keys : m.heap[t][i] = nil /\ heap[t][i] = v
<1>1. PICK f : f = m.heap[t]
  OBVIOUS
<1>2. IsHeap(m.heap)
  BY DEF Inv, Sound, IsState
<1>3. DOMAIN f = Keys /\ t \in DOMAIN m.heap
  BY <1>1, <1>2 DEF IsHeap
<1>4. ToInteger(f[0]) = 0 /\ RefIndex(f) \in Keys
  BY <1>1 DEF Appends, ToInteger
<1>5. PICK n \in Borders(f) : RefIndex(f) = n + 1
  <2>1. \E i : i \in Borders(f)
    BY <1>3, HasBorder
  <2>2. (CHOOSE i \in Borders(f) : TRUE) \in Borders(f)
    BY <2>1
  <2> QED
    BY <1>4, <2>2 DEF RefIndex
<1>6. f[n + 1] = nil
  BY <1>3, <1>4, <1>5 DEF Borders
<1>7. PICK e : e = [f EXCEPT ![n + 1] = v]
  OBVIOUS
<1>8. luaL_ref(f, v) = e
  BY <1>4, <1>5, <1>7 DEF luaL_ref
<1>9. heap = [m.heap EXCEPT ![t] = e]
  <2>1. PICK reg, h0, ref, held, stack, fault :
          m = [reg |-> reg, heap |-> h0, ref |-> ref, held |-> held, stack |-> stack,
               fault |-> fault]
    BY DEF Inv, Sound, IsState
  <2>2. PICK s, r : s = m /\ r = Appended(t, v)
    OBVIOUS
  <2>3. r = [s EXCEPT !.heap = [s.heap EXCEPT ![t] = luaL_ref(s.heap[t], v)]]
    BY <2>2 DEF Appended
  <2>4. r.heap = [s.heap EXCEPT ![t] = luaL_ref(s.heap[t], v)]
    BY <2>1, <2>2, <2>3
  <2> QED
    BY <1>1, <1>8, <2>2, <2>4
<1>10. heap[t] = e
  BY <1>3, <1>9
<1>11. \A i \in Keys : e[i] = IF i = n + 1 THEN v ELSE f[i]
  BY <1>3, <1>7
<1> QED
  BY <1>1, <1>4, <1>5, <1>6, <1>10, <1>11

(* append is luaL_ref on the table: it keeps the elements there are and adds one, as long
   as the table has no number at 0, which luaL_ref takes for the head of a free list. *)
THEOREM AppendOnlyAdds ==
    ASSUME WellDefined, ~Uses("zero")
    PROVE  Spec => AppendAdds
<1>1. Init => Inv
  BY InitSound
<1>2. Inv /\ [Next]_vars => Inv'
  BY NextSound
<1>3. Inv => [Adds]_vars
  <2>1. SUFFICES ASSUME Inv, NEW t \in Tables, NEW v \in Values, Appends(t, v),
                        m'.heap = Appended(t, v).heap
                 PROVE  /\ \A i \in Keys : m.heap[t][i] # nil => m'.heap[t][i] = m.heap[t][i]
                        /\ \E i \in Keys : m.heap[t][i] = nil /\ m'.heap[t][i] = v
    BY DEF Adds
  <2>2. PICK heap : heap = m'.heap
    OBVIOUS
  <2> QED
    BY <2>1, <2>2, AppendFills
<1> QED
  BY <1>1, <1>2, <1>3, PTL DEF Spec, AppendAdds
=============================================================================
