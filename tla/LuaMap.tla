------------------------------- MODULE LuaMap -------------------------------
(***************************************************************************)
(* What a Lua table promises its users, luapb among them: it is a map from *)
(* keys to values, and a traversal with lua_next during which existing     *)
(* fields are assigned (to nil too) yields no key twice and every key that *)
(* had a value all along.                                                  *)
(***************************************************************************)
CONSTANTS Keys, Values, nil

VARIABLES
    map,       \* key -> value, nil for an absent key
    walking,   \* a traversal is under way
    seen,      \* keys the traversal has yielded
    constant   \* keys that have had a value since it began

vars == <<map, walking, seen, constant>>

Present == {k \in Keys : map[k] # nil}

Init ==
    /\ map = [k \in Keys |-> nil]
    /\ walking = FALSE
    /\ seen = {}
    /\ constant = {}

(* Assign a field; no field is created while a traversal is under way. *)
Set(k, v) ==
    /\ map' = [map EXCEPT ![k] = v]
    /\ constant' = IF v = nil THEN constant \ {k} ELSE constant
    /\ UNCHANGED <<walking, seen>>

Begin ==
    /\ ~walking
    /\ walking' = TRUE
    /\ seen' = {}
    /\ constant' = Present
    /\ UNCHANGED map

Yield(k) ==
    /\ walking
    /\ k \in Present \ seen
    /\ seen' = seen \cup {k}
    /\ UNCHANGED <<map, walking, constant>>

End ==
    /\ walking
    /\ constant \subseteq seen
    /\ walking' = FALSE
    /\ seen' = {}
    /\ constant' = {}
    /\ UNCHANGED map

Next ==
    \/ \E k \in Keys, v \in Values \cup {nil} : Set(k, v)
    \/ \E k \in Keys : Yield(k)
    \/ Begin
    \/ End

Spec == Init /\ [][Next]_vars
=============================================================================
