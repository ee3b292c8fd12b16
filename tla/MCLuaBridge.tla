----------------------------- MODULE MCLuaBridge ------------------------------
(* Two programs for LuaBridge: one with two classes and nested namespaces, one of them of the
   name of a member, where a class may be opened again, with two members and a third that
   the last class gets before it is closed; and one whose three classes form every chain of
   bases. *)
EXTENDS LuaBridge

VARIABLE part

Bases == INSTANCE LuaBridge WITH Spaces <- {}, MaxAdds <- 2, MaxDepth <- 1

MCInit == Init /\ part \in {"nested", "bases"}

MCNext ==
    /\ \/ /\ part = "nested"
          /\ Next
          /\ registry'["C"].class = 0
          /\ Len(log') = MaxAdds => open' = "class"
       \/ part = "bases" /\ Bases!Next
    /\ UNCHANGED part

MCSpec == MCInit /\ [][MCNext]_<<part, vars>>
=============================================================================
