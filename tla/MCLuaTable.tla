----------------------------- MODULE MCLuaTable -----------------------------
(* Instances of LuaTable for TLC.  Numbers hash as on a little-endian machine with
   32-bit ints: the two words of the double, added. *)
EXTENDS LuaTable, TLC

CONSTANTS s1, s2, o1

MCInts == 0..9
(* Numbers that grow into the array part next to a string, and keys of all kinds that
   collide in the hash part. *)
MCKeySets == {{1, 2, 3, 4, s1}, {s1, s2, o1}}
MCSizes == {<<0, 0>>, <<2, 4>>}
NumberWords ==
    <<1072693248, 1073741824, 1074266112, 1074790400, 1075052544,
      1075314688, 1075576832, 1075838976, 1075970048>>
MCHash ==
    [n \in MCInts |-> IF n = 0 THEN 0 ELSE NumberWords[n]]
    @@ (s1 :> 5) @@ (s2 :> 3) @@ (o1 :> 1072)
=============================================================================
