------------------------------ MODULE MCLuaDo ------------------------------
(* Two programs for LuaDo: one that creates a single coroutine and makes calls of every
   kind, and one with two coroutines that call, resume and fail in each other.  The limits
   are small, and each is reached. *)
EXTENDS LuaDo, FiniteSets, TLC

CONSTANTS co1, co2

VARIABLE part

(* The same threads and limits, without hooks, the parser, xpcall and metamethods. *)
Pair == INSTANCE LuaDo WITH Uses <- {}

MCInit == Init /\ part \in {"calls", "coroutines"}

MCNext ==
    /\ \/ part = "calls" /\ Next /\ Cardinality({co \in Coroutines : thread'[co].status # "none"}) <= 1
       \/ part = "coroutines" /\ Pair!Next
    /\ UNCHANGED part

MCSpec == MCInit /\ [][MCNext]_<<part, vars>>

Symmetry == Permutations({co1, co2})
=============================================================================
