------------------------------ MODULE MCLuaGC ------------------------------
(* Instances of LuaGC for TLC: programs that between them make objects of every type.
   Each has room for one object more than it holds itself, or for the two that a
   closure and its upvalue are; weak tables need no third object to go wrong. *)
EXTENDS LuaGC

ASSUME AddrAssumption

MCPrograms ==
    { [memory |-> 3, tables |-> {"list"}, udata |-> {"gc"}, contents |-> {},
       threads |-> 0, stack |-> 2, full |-> FALSE],
      [memory |-> 4, tables |-> {}, udata |-> {}, contents |-> {},
       threads |-> 1, stack |-> 2, full |-> TRUE],
      [memory |-> 2, tables |-> {"pairs", "k", "v", "kv"}, udata |-> {"gc", "plain"},
       contents |-> {1}, threads |-> 0, stack |-> 2, full |-> FALSE],
      [memory |-> 2, tables |-> {"list"}, udata |-> {"gc"}, contents |-> {1, 2},
       threads |-> 0, stack |-> 2, full |-> TRUE] }
=============================================================================
