----------------------------- MODULE MCEncoder ------------------------------
(***************************************************************************)
(* Small instances of Encoder: a schema with every field type, tables of   *)
(* up to two entries whose values sit on the boundaries of the varint      *)
(* sizes, and lists of up to two sub-messages.                             *)
(***************************************************************************)
EXTENDS Encoder

Scalar(n, t) == [number |-> n, type |-> t, repeated |-> FALSE, msg |-> "", enum |-> <<>>]
Repeated(fd) == [fd EXCEPT !.repeated = TRUE]
Message(n, d) == [number |-> n, type |-> "message", repeated |-> FALSE, msg |-> d, enum |-> <<>>]
PhoneType == [n \in {"HOME", "NEG"} |-> IF n = "HOME" THEN 1 ELSE -1]

MCSchema ==
    [d \in {"Person"} |->
        [f \in {"flt", "int", "uint", "bool", "str", "enum", "ints", "phones",
                "phone", "long", "ulong", "bytes"} |->
            CASE f = "flt" -> Scalar(1, "float")
              [] f = "int" -> Scalar(15, "int32")
              [] f = "uint" -> Scalar(16, "uint32")
              [] f = "bool" -> Scalar(2, "bool")
              [] f = "str" -> Scalar(3, "string")
              [] f = "enum" -> [Scalar(2047, "enum") EXCEPT !.enum = PhoneType]
              [] f = "ints" -> Repeated(Scalar(4, "int32"))
              [] f = "phones" -> Repeated(Message(2048, "Person"))
              [] f = "phone" -> Message(5, "Person")
              [] f = "long" -> Scalar(6, "int64")
              [] f = "ulong" -> Scalar(7, "uint64")
              [] f = "bytes" -> Scalar(8, "other")]]

-----------------------------------------------------------------------------
Nil == [lua |-> "nil", num |-> FALSE, int |-> 0, flt |-> <<0, 0, 0, 0>>, str |-> "",
        cstr |-> <<>>, ll |-> 1, llu |-> 1, truth |-> FALSE, node |-> 0]
True == [Nil EXCEPT !.lua = "boolean", !.truth = TRUE]
Num(n, digits) ==
    [Nil EXCEPT !.lua = "number", !.num = TRUE, !.int = n, !.str = "digits",
                !.flt = <<0, 0, 128, 63>>, !.cstr = digits, !.truth = TRUE,
                !.ll = Int32Size(n), !.llu = Int32Size(n)]
Text(s, n) ==
    [Nil EXCEPT !.lua = "string", !.str = s, !.cstr = [i \in 1..n |-> 65], !.truth = TRUE]
Table(n) == [Nil EXCEPT !.lua = "table", !.node = n, !.truth = TRUE]

Pair(k, v) == [key |-> k, val |-> v]

One == Num(1, <<49>>)
Minus == Num(-1, <<45, 49>>)
Max7Bit == Num(127, <<49, 50, 55>>)
Min14Bit == Num(128, <<49, 50, 56>>)

(* Entries both passes agree on ... *)
CleanPairs ==
    {Pair("flt", One), Pair("int", Minus), Pair("int", Max7Bit), Pair("uint", Minus),
     Pair("uint", Min14Bit), Pair("bool", Nil), Pair("str", Text("", 0)),
     Pair("str", Text("A", 1)), Pair("str", Max7Bit), Pair("enum", Text("HOME", 4)),
     Pair("enum", Text("NEG", 3)), Pair("nofield", One)}

(* ... entries that stop the first pass, or the second one ... *)
FailingPairs ==
    {Pair("int", True), Pair("uint", Text("A", 1)), Pair("str", True), Pair("enum", True),
     Pair("long", True), Pair("ints", One), Pair("phones", One), Pair("phone", One),
     Pair("bytes", One), Pair("flt", True), Pair(BadKey, One)}

(* ... and entries the passes disagree on. *)
EnumPair == Pair("enum", Text("OTHER", 5))
LongPair == Pair("long", Min14Bit)

Leaves == {<<>>} \cup {<<p>> : p \in CleanPairs} \cup {<<Pair("str", Text("long", 125))>>}

(* A table by itself, its entries in both orders. *)
FlatCalls ==
    {[name |-> "Person", arg |-> Table(1), tab |-> [n \in {1} |-> s]] :
        s \in {<<p>> : p \in CleanPairs \cup FailingPairs}
              \cup {<<p, q>> : p \in CleanPairs, q \in CleanPairs \cup FailingPairs}}

(* A table whose field f refers to table 2, a list of lists or of leaves. *)
PhonesCalls ==
    {[name |-> "Person", arg |-> Table(1),
      tab |-> <<root, <<Pair("1", Table(3)), Pair("2", v)>>, x, y>>] :
        root \in {<<Pair("phones", Table(2))>>, <<Pair("phones", Table(2)), Pair("flt", One)>>},
        v \in {Table(3), Table(4)},
        x \in Leaves,
        y \in {<<>>, <<Pair("str", Text("A", 1))>>, <<Pair("flt", True)>>}}

IntsCalls ==
    {[name |-> "Person", arg |-> Table(1),
      tab |-> <<<<Pair("ints", Table(2)), p>>, <<Pair("1", Minus), Pair("2", v)>>>>] :
        p \in CleanPairs, v \in {One, True}}

(* Phones within phones: heads at two depths, one list shared by both.     *)
DeepCalls ==
    {[name |-> "Person", arg |-> Table(1),
      tab |-> <<<<Pair("phones", Table(2)), Pair("bool", True)>>, <<Pair("1", Table(3))>>,
                <<p, Pair("phones", Table(4))>>, <<Pair("1", Table(5)), Pair("2", Table(5))>>,
                leaf>>] :
        p \in CleanPairs, leaf \in Leaves}

OddCalls ==
    {[name |-> n, arg |-> a, tab |-> [k \in {1} |-> <<>>]] :
        n \in {"Person", "Unknown", BadKey}, a \in {Nil, Table(1)}}

One1(p, leaf) ==
    [name |-> "Person", arg |-> Table(1), tab |-> <<<<p>>, leaf>>]

SingularCalls == {One1(Pair("phone", Table(2)), leaf) : leaf \in Leaves}
LongCalls == {One1(LongPair, <<>>), One1(Pair("ulong", Min14Bit), <<>>)}
EnumCalls == {One1(EnumPair, <<>>)}

GoodCalls == FlatCalls \cup PhonesCalls \cup IntsCalls \cup DeepCalls \cup OddCalls
MCCalls == GoodCalls \cup SingularCalls \cup LongCalls \cup EnumCalls

MCPairs ==
    UNION {UNION {{c.tab[n][i] : i \in DOMAIN c.tab[n]} : n \in DOMAIN c.tab} : c \in MCCalls}

MCRegistered == {"Person"}
MCGarbage == {0, 205}

=============================================================================
