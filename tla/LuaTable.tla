------------------------------ MODULE LuaTable ------------------------------
(***************************************************************************)
(* Lua's tables, lua/ltable.c: an array part for the keys 1..n and a hash  *)
(* part, a chained scatter table with Brent's variation.  luapb walks the  *)
(* tables it encodes with lua_next and fills the ones it decodes into.     *)
(*                                                                         *)
(* A table is a record: array (values), node (nodes of the hash part),     *)
(* lastfree (every node from it on has been used) and dummy (node is the   *)
(* shared dummynode).  Nodes are numbered from 1; next = 0 is NULL.        *)
(***************************************************************************)
EXTENDS Integers, Sequences, FiniteSets

CONSTANTS
    Ints,      \* numbers with an int value that are probed or used as keys
    Strings,   \* collectable keys hashed modulo a power of two
    Objects,   \* collectable keys hashed by their address
    Hash,      \* hash of every key: number, string hash or address
    Values,
    nil,
    Idle,
    IntKeys,   \* the Ints a program uses as keys
    KeySets,   \* sets of keys: a program uses those of one
    Sizes,     \* <<narray, nhash>> asked for with lua_createtable or a constructor
    MAXBITS,   \* the array part has at most 2^MAXBITS elements
    MAX_INT    \* where the search for a border stops doubling

Keys == IntKeys \cup Strings \cup Objects

ASSUME KeysAssumption ==
    /\ KeySets \subseteq SUBSET Keys
    /\ IntKeys \subseteq Ints /\ Ints \subseteq Int
    /\ \A k \in Ints \cup Strings \cup Objects : Hash[k] \in Nat
    /\ {nil, Idle} \cap (Values \cup Keys) = {} /\ nil # Idle

VARIABLES
    tab,       \* the table
    used,      \* keys the program uses
    cursor,    \* key on the stack of a traversal, nil at its start, Idle without one
    seen,      \* keys the traversal has yielded (history)
    constant   \* keys that have had a value since it began (history)

vars == <<tab, used, cursor, seen, constant>>

EmptyNode == [key |-> nil, val |-> nil, next |-> 0, dead |-> FALSE]
SizeNode(t) == Len(t.node)

(* CeilLog2 as a power: the smallest power of two that is at least n. *)
TwoTo(n) == CHOOSE p \in {2^i : i \in 0..MAXBITS} : p >= n /\ (p = 1 \/ p \div 2 < n)

-----------------------------------------------------------------------------
(* Looking up *)

hashnum(t, k) == 1 + (Hash[k] % (IF SizeNode(t) = 1 THEN 1 ELSE SizeNode(t) - 1))

mainposition(t, k) == IF k \in Strings THEN 1 + (Hash[k] % SizeNode(t)) ELSE hashnum(t, k)

(* The nodes of the chain that begins at node i, in order. *)
Chain(t, i) ==
    LET from[n \in 0..SizeNode(t)] == IF n = 0 THEN <<>> ELSE <<n>> \o from[t.node[n].next]
    IN  from[i]

InArray(t, k) == k \in Ints /\ 1 <= k /\ k <= Len(t.array)

(* The position in k's chain of the first node that holds it, 0 if none does.
   A dead key (its object may have been collected) only matches in findindex. *)
Find(t, k, Matches(_)) ==
    LET chain == Chain(t, mainposition(t, k))
        hits  == {j \in DOMAIN chain : t.node[chain[j]].key = k /\ Matches(t.node[chain[j]])}
    IN  IF hits = {} THEN 0 ELSE chain[CHOOSE j \in hits : \A h \in hits : j <= h]

Slot(t, k) == Find(t, k, LAMBDA n : ~n.dead)

luaH_get(t, k) ==
    IF InArray(t, k) THEN t.array[k]
    ELSE LET n == Slot(t, k) IN IF n = 0 THEN nil ELSE t.node[n].val

-----------------------------------------------------------------------------
(* Inserting *)

setnodevector_Exact(t, size) ==
    [t EXCEPT !.dummy = (size = 0),
              !.node = [i \in 1..(IF size = 0 THEN 1 ELSE size) |-> EmptyNode],
              !.lastfree = size + 1]

setnodevector(t, size) ==
    [t EXCEPT !.dummy = (size = 0),
              !.node = [i \in 1..(IF size = 0 THEN 1 ELSE TwoTo(size)) |-> EmptyNode],
              !.lastfree = IF size = 0 THEN 1 ELSE TwoTo(size) + 1]

setarrayvector(t, size) ==
    [t EXCEPT !.array = [i \in 1..size |-> IF i <= Len(t.array) THEN t.array[i] ELSE nil]]

getfreepos(t) ==
    LET free == {i \in 1..t.lastfree - 1 : t.node[i].key = nil}
    IN  IF free = {} THEN 0 ELSE CHOOSE i \in free : \A j \in free : j <= i

Occupied(t, i) == t.node[i].val # nil \/ t.dummy

PutKey_StaysDead(t, i, k, v) ==
    [t EXCEPT !.node[i].key = k, !.node[i].val = v]

(* Enter k with value v at node i, whose link is kept. *)
PutKey(t, i, k, v) ==
    [t EXCEPT !.node[i].key = k, !.node[i].dead = FALSE, !.node[i].val = v]

MoveCollider_NotRelinked(t, mp, free) ==
    [t EXCEPT !.node[free] = t.node[mp], !.node[mp] = EmptyNode, !.lastfree = free]

(* newkey when the colliding node sits elsewhere than its main position: it moves. *)
MoveCollider(t, mp, free) ==
    LET home == mainposition(t, t.node[mp].key)
        prev == CHOOSE i \in 1..SizeNode(t) :
                    /\ t.node[i].next = mp
                    /\ \E j \in DOMAIN Chain(t, home) : Chain(t, home)[j] = i
    IN  [t EXCEPT !.node[prev].next = free,
                  !.node[free] = t.node[mp],
                  !.node[mp] = EmptyNode,
                  !.lastfree = free]

(* newkey when the colliding node is at home: the new key goes to the free place. *)
LinkFree(t, mp, free) ==
    [t EXCEPT !.node[free].next = t.node[mp].next, !.node[mp].next = free, !.lastfree = free]

(* newkey without its rehash: full records that there was no free place. *)
Place(t, k, v) ==
    LET mp   == mainposition(t, k)
        free == getfreepos(t)
    IN  IF ~Occupied(t, mp) THEN PutKey(t, mp, k, v)
        ELSE IF free = 0 THEN [t EXCEPT !.full = TRUE]
        ELSE IF mainposition(t, t.node[mp].key) # mp
        THEN PutKey(MoveCollider(t, mp, free), mp, k, v)
        ELSE PutKey(LinkFree(t, mp, free), free, k, v)

(* Assignment to a key that luaH_get finds, or to a new one without a rehash. *)
Store(t, k, v) ==
    IF InArray(t, k) THEN [t EXCEPT !.array[k] = v]
    ELSE LET n == Slot(t, k)
         IN  IF n # 0 THEN [t EXCEPT !.node[n].val = v] ELSE Place(t, k, v)

-----------------------------------------------------------------------------
(* Rehash *)

VanishingSlice_Lost(t, nasize) == <<>>

(* The elements of the array part beyond its new size, with their keys. *)
VanishingSlice(t, nasize) ==
    [i \in 1..(IF nasize < Len(t.array) THEN Len(t.array) - nasize ELSE 0) |->
        <<nasize + i, t.array[nasize + i]>>]

(* The array part takes its new size, then the elements of a vanishing slice and
   those of the old hash part, from its last node down, are entered again. *)
resize(t, nasize, nhsize) ==
    LET hashed == [i \in 1..SizeNode(t) |->
                       LET n == t.node[SizeNode(t) + 1 - i] IN <<n.key, n.val>>]
        old    == VanishingSlice(t, nasize) \o hashed
        fresh  == setnodevector(setarrayvector(t, nasize), nhsize)
        insert[n \in 0..Len(old)] ==
            IF n = 0 THEN fresh
            ELSE IF old[n][2] = nil THEN insert[n - 1]
            ELSE Store(insert[n - 1], old[n][1], old[n][2])
    IN  insert[Len(old)]

(* The keys countint takes as candidates for the array part, the extra key k included. *)
Candidates(t, k) ==
    {i \in Ints : 0 < i /\ i <= 2^MAXBITS /\ (i = k \/ luaH_get(t, i) # nil)}

(* The largest power of two more than half of whose slots would be in use. *)
computesizes(ints) ==
    LET Below(n) == Cardinality({i \in ints : i <= n})
        good == {n \in {2^i : i \in 0..MAXBITS} :
                    n \div 2 < Cardinality(ints) /\ Below(n) > n \div 2}
    IN  IF good = {} THEN 0 ELSE CHOOSE n \in good : \A m \in good : m <= n

Uses(t) ==
    Cardinality({i \in DOMAIN t.array : t.array[i] # nil})
    + Cardinality({i \in DOMAIN t.node : t.node[i].val # nil})

rehash_ForgetsExtraKey(t, k) ==
    LET nasize == computesizes(Candidates(t, k))
        na     == Cardinality({i \in Candidates(t, k) : i <= nasize})
    IN  resize(t, nasize, Uses(t) - na)

rehash(t, k) ==
    LET nasize == computesizes(Candidates(t, k))
        na     == Cardinality({i \in Candidates(t, k) : i <= nasize})
    IN  resize(t, nasize, Uses(t) + 1 - na)

luaH_set(t, k, v) ==
    LET direct == Store(t, k, v)
    IN  IF direct.full THEN Store(rehash(t, k), k, v) ELSE direct

luaH_new(narray, nhash) ==
    setnodevector([array |-> [i \in 1..narray |-> nil], node |-> <<EmptyNode>>,
                   lastfree |-> 1, dummy |-> TRUE, full |-> FALSE], nhash)

luaH_resizearray(t, nasize) == resize(t, nasize, IF t.dummy THEN 0 ELSE SizeNode(t))

-----------------------------------------------------------------------------
(* The border *)

(* Binary search between i, which is zero or present, and the absent j. *)
Bisect(t, i, j) ==
    LET search[p \in (0..j) \X (0..j)] ==
            LET m == (p[1] + p[2]) \div 2
            IN  IF p[2] - p[1] <= 1 THEN p[1]
                ELSE IF luaH_get(t, m) = nil THEN search[<<p[1], m>>]
                ELSE search[<<m, p[2]>>]
    IN  search[<<i, j>>]

(* Doubling until an absent index is met, or MAX_INT: then one by one. *)
unbound_search(t, size) ==
    LET linear[i \in Nat] == IF luaH_get(t, i) = nil THEN i - 1 ELSE linear[i + 1]
        double[p \in Nat \X Nat] ==
            IF luaH_get(t, p[2]) = nil THEN Bisect(t, p[1], p[2])
            ELSE IF 2 * p[2] > MAX_INT THEN linear[1]
            ELSE double[<<p[2], 2 * p[2]>>]
    IN  double[<<size, size + 1>>]

luaH_getn_TrustsArray(t) ==
    LET size == Len(t.array)
    IN  IF size > 0 /\ t.array[size] = nil THEN Bisect(t, 0, size) ELSE size

luaH_getn(t) ==
    LET size == Len(t.array)
    IN  IF size > 0 /\ t.array[size] = nil THEN Bisect(t, 0, size)
        ELSE IF t.dummy THEN size
        ELSE unbound_search(t, size)

-----------------------------------------------------------------------------
(* Traversal *)

(* Array elements are numbered before the nodes; the start of a traversal is 0. *)
KeyAt(t, i) == IF i <= Len(t.array) THEN i ELSE t.node[i - Len(t.array)].key
ValueAt(t, i) == IF i <= Len(t.array) THEN t.array[i] ELSE t.node[i - Len(t.array)].val

NotFound == -1

findindex_LiveOnly(t, k) ==
    IF k = nil THEN 0
    ELSE IF InArray(t, k) THEN k
    ELSE LET n == Slot(t, k)
         IN  IF n = 0 THEN NotFound ELSE Len(t.array) + n

findindex(t, k) ==
    IF k = nil THEN 0
    ELSE IF InArray(t, k) THEN k
    ELSE LET n == Find(t, k, LAMBDA node : TRUE)
         IN  IF n = 0 THEN NotFound ELSE Len(t.array) + n

(* Positions with a value after that of key k. *)
Rest(t, k) ==
    {i \in findindex(t, k) + 1..Len(t.array) + SizeNode(t) : ValueAt(t, i) # nil}

-----------------------------------------------------------------------------
Init ==
    /\ \E size \in Sizes : tab = luaH_new(size[1], size[2])
    /\ used \in KeySets
    /\ cursor = Idle
    /\ seen = {}
    /\ constant = {}

(* t[k] = v.  A program that walks the table assigns only to fields it finds there. *)
Set(k, v) ==
    /\ cursor = Idle \/ luaH_get(tab, k) # nil
    /\ tab' = luaH_set(tab, k, v)
    /\ constant' = IF v = nil THEN constant \ {k} ELSE constant
    /\ UNCHANGED <<used, cursor, seen>>

(* OP_SETLIST makes room for the elements of a table constructor. *)
GrowArray(n) ==
    /\ cursor = Idle
    /\ n > Len(tab.array)
    /\ tab' = luaH_resizearray(tab, n)
    /\ UNCHANGED <<used, cursor, seen, constant>>

(* The collector, when it traverses the table: keys without a value are dead. *)
RemoveEntries ==
    LET Removed(n) == [n EXCEPT !.dead = n.dead \/ (n.val = nil /\ n.key \in Strings \cup Objects)]
    IN  /\ tab' = [tab EXCEPT !.node = [i \in DOMAIN tab.node |-> Removed(tab.node[i])]]
        /\ tab' # tab
        /\ UNCHANGED <<used, cursor, seen, constant>>

Begin ==
    /\ cursor = Idle
    /\ cursor' = nil
    /\ seen' = {}
    /\ constant' = {k \in Keys : luaH_get(tab, k) # nil}
    /\ UNCHANGED <<tab, used>>

(* luaH_next finds another element. *)
Yield ==
    /\ cursor # Idle
    /\ \E i \in Rest(tab, cursor) :
        /\ \A j \in Rest(tab, cursor) : i <= j
        /\ cursor' = KeyAt(tab, i)
        /\ seen' = seen \cup {KeyAt(tab, i)}
    /\ UNCHANGED <<tab, used, constant>>

(* luaH_next finds no more elements. *)
End ==
    /\ cursor # Idle
    /\ Rest(tab, cursor) = {}
    /\ cursor' = Idle
    /\ seen' = {}
    /\ constant' = {}
    /\ UNCHANGED <<tab, used>>

Next ==
    \/ \E k \in used, v \in Values \cup {nil} : Set(k, v)
    \/ \E size \in Sizes : GrowArray(size[1])
    \/ RemoveEntries
    \/ Begin
    \/ Yield
    \/ End

Spec == Init /\ [][Next]_vars

-----------------------------------------------------------------------------
(* Properties *)

(* A table is an array of values and a vector of nodes whose size is a power of two. *)
TypeOK ==
    /\ tab.array \in Seq(Values \cup {nil})
    /\ SizeNode(tab) \in {2^i : i \in 0..MAXBITS}
    /\ \A i \in DOMAIN tab.node :
        /\ tab.node[i].key \in Keys \cup {nil}
        /\ tab.node[i].val \in Values \cup {nil}
        /\ tab.node[i].next \in 0..SizeNode(tab)
    /\ cursor \in Keys \cup {nil, Idle}
    /\ seen \subseteq Keys /\ constant \subseteq Keys

(* The detailed table, with its collisions, moves and rehashes and with the
   collector killing keys in between, is the map of LuaMap. *)
Map == INSTANCE LuaMap WITH
           map <- [k \in Keys |-> luaH_get(tab, k)],
           walking <- cursor # Idle

ImplementsMap == Map!Spec

(* ltable.c: an element out of its main position collides with one that is in its
   own, and every element is on the chain that starts at its main position. *)
MainInvariant ==
    \A i \in DOMAIN tab.node :
        LET n == tab.node[i]
            home == mainposition(tab, n.key)
        IN  n.key # nil =>
              /\ \E j \in DOMAIN Chain(tab, home) : Chain(tab, home)[j] = i
              /\ home # i => mainposition(tab, tab.node[home].key) = home

(* A rehash leaves room for the elements it enters again and for the new key, so
   newkey, rehash and luaH_set never call one another a second time. *)
NoNestedRehash == ~tab.full

(* luaH_getn returns a boundary: t[n] is not nil (or n is 0) and t[n+1] is. *)
LengthIsBorder ==
    LET n == luaH_getn(tab)
    IN  /\ n = 0 \/ luaH_get(tab, n) # nil
        /\ luaH_get(tab, n + 1) = nil

(* luaH_next never raises "invalid key to 'next'" for a key it yielded itself,
   whatever the program or the collector did to that key since. *)
NextFindsItsKey == cursor # Idle => findindex(tab, cursor) # NotFound

(* The layout of a table that every operation relies on and keeps: each key can be found
   from its main position or its index, by get and by a traversal, and a rehash has made
   room for what it enters. *)
StructureSound == TypeOK /\ MainInvariant /\ NoNestedRehash /\ NextFindsItsKey
=============================================================================
