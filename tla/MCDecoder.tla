----------------------------- MODULE MCDecoder ------------------------------
(***************************************************************************)
(* Small instances of Decoder: byte strings of every shape over a small    *)
(* alphabet, and the encodings of messages together with the tables they   *)
(* stand for.                                                              *)
(***************************************************************************)
EXTENDS Decoder

Scalar(n, t) == [number |-> n, type |-> t, repeated |-> FALSE, msg |-> "", enum |-> <<>>]
Repeated(fd) == [fd EXCEPT !.repeated = TRUE]
Message(n, d) == [number |-> n, type |-> "message", repeated |-> FALSE, msg |-> d, enum |-> <<>>]
PhoneType == [n \in {"MOBILE", "NEG"} |-> IF n = "MOBILE" THEN 0 ELSE -1]

(* Tags: id 8, name 18, phone 26, type 32, test 40, best 50, flt 61, ok 64, bytes 74. *)
MCSchema ==
    [d \in {"Person"} |->
        [f \in {"id", "name", "phone", "type", "test", "best", "flt", "ok", "bytes"} |->
            CASE f = "id" -> Scalar(1, "int32")
              [] f = "name" -> Scalar(2, "string")
              [] f = "phone" -> Repeated(Message(3, "Person"))
              [] f = "type" -> [Scalar(4, "enum") EXCEPT !.enum = PhoneType]
              [] f = "test" -> Repeated(Scalar(5, "int32"))
              [] f = "best" -> Message(6, "Person")
              [] f = "flt" -> Scalar(7, "float")
              [] f = "ok" -> Scalar(8, "bool")
              [] f = "bytes" -> Scalar(9, "other")]]

MCRegistered == {"Person"}
MCRecursionLimit == 3

-----------------------------------------------------------------------------
(* Any bytes at all. *)
Strings(alphabet, n) == UNION {[1..k -> alphabet] : k \in 0..n}
Continued(n) == [k \in 1..n |-> 128]

(* Every field, an unknown one (11), a tag 0, short and long lengths. *)
ShortStrings == Strings({0, 1, 2, 8, 18, 26, 32, 61, 64, 74, 88, 128}, 3)

(* Messages within messages, up to one deeper than the recursion limit,    *)
(* that end before, at and behind the end of the message around them.      *)
NestedStrings ==
    Strings({0, 2, 3, 26, 128}, 5) \cup Strings({0, 2, 4, 26}, 5)
    \cup {<<26, a, 26, b, 26, c>> \o q :
             a \in 4..6, b \in 2..4, c \in 0..2, q \in Strings({0, 8}, 3)}
    \cup {<<26, a, 26, b, 26, c, 26, d>> \o q :
             a \in 6..7, b \in 4..5, c \in 2..3, d \in 0..1, q \in Strings({0, 8, 128}, 2)}

(* Varints of ten and of more bytes, as tag, value, length and string length. *)
LongStrings ==
    {p \o Continued(n) \o q :
        p \in {<<>>, <<8>>, <<18>>, <<26>>, <<26, 11>>, <<26, 12, 8>>, <<64>>},
        n \in {4, 9, 10, 11},
        q \in {<<>>, <<1>>, <<8>>, <<8, 8, 1>>}}

Call(b) == [name |-> "Person", data |-> b, want |-> EmptyTable]

ByteInputs ==
    {Call(b) : b \in ShortStrings \cup NestedStrings \cup LongStrings}
    \cup {[name |-> n, data |-> d, want |-> EmptyTable] :
             n \in {"Person", "Unknown", BadArg}, d \in {<<>>, BadArg}}

-----------------------------------------------------------------------------
(***************************************************************************)
(* Messages in the wire format.  A message is a sequence of items, each    *)
(* with its bytes and the value it gives its field; the table wanted has   *)
(* all values of a repeated field, in order, and the last one of another.  *)
(***************************************************************************)
Item(f, bytes, v) == [field |-> f, bytes |-> bytes, val |-> v]

Value(t, v) == [type |-> t, val |-> v]
Number(f, n) ==
    LET fd == MCSchema["Person"][f] IN
    Item(f, WriteTag(fd.number, WIRETYPE_VARINT) \o Varint(n, Int32Size(n)), Value(fd.type, <<n>>))
Name(s) == Item("name", WriteTag(2, WIRETYPE_LENGTH_DELIMITED) \o WriteVarint32(Len(s)) \o s,
                Value("string", s))
Flt == Item("flt", WriteTag(7, WIRETYPE_FIXED32) \o <<0, 0, 128, 63>>, Value("float", <<0, 0, 128, 63>>))

Bytes(items) == FlattenSeq([i \in DOMAIN items |-> items[i].bytes])

Wanted(items) ==
    LET Of(f) == SelectSeq(items, LAMBDA it : it.field = f)
        Known == {items[i].field : i \in DOMAIN items} \cap DOMAIN MCSchema["Person"]
    IN [f \in Known |->
           IF MCSchema["Person"][f].repeated
           THEN FlattenSeq([i \in DOMAIN Of(f) |-> <<Of(f)[i].val>>])
           ELSE <<Last(Of(f)).val>>]

Sub(f, items) ==
    Item(f, WriteMessageHead(MCSchema["Person"][f].number, Len(Bytes(items))) \o Bytes(items),
         Wanted(items))

(* Field 11, which this schema does not have, as a varint and as a string *)
(* whose bytes are those of a tag and a value.                            *)
Unknown == {Item(NoField, <<88, 1>>, 0), Item(NoField, <<90, 2, 8, 1>>, 0)}

Scalars ==
    {Number("id", 0), Number("id", -1), Number("id", 128), Number("type", -1), Number("test", 1),
     Number("test", MaxInt32), Name(<<>>), Name(<<0, 8>>), Number("ok", 1), Flt}

Lists(items) == {<<>>} \cup {<<x>> : x \in items} \cup {<<x, y>> : x, y \in items}

Subs(lists) == {Sub("phone", l) : l \in lists} \cup {Sub("best", l) : l \in lists}

Leaves == Lists({Number("id", 128), Number("test", 1), Name(<<0, 8>>)})
Deep == Subs({<<s>> : s \in Subs(Leaves)})
Long == Sub("phone", <<Name([i \in 1..126 |-> 26]), Sub("best", <<>>)>>)

MessageLists ==
    Lists(Scalars) \cup {<<x, s, y>> : x, y \in {Number("id", 0), Number("test", 1)}, s \in Subs(Leaves)}
    \cup {<<s, r>> : s, r \in Subs(Lists({Number("id", 128)}))}
    \cup {<<s, Flt>> : s \in Deep \cup {Long}}

Encoding(items) == [name |-> "Person", data |-> Bytes(items), want |-> Wanted(items)]

MessageInputs == {Encoding(l) : l \in MessageLists}

AllInputs == ByteInputs \cup MessageInputs

UnknownInputs == {Encoding(<<x, u, y>>) : x, y \in Scalars, u \in Unknown}

(* Field test as protobuf writes a repeated number of proto3: packed. *)
PackedInputs ==
    {[name |-> "Person", data |-> <<42, 2, m, n>>,
      want |-> [f \in {"test"} |-> <<Value("int32", <<m>>), Value("int32", <<n>>)>>]] : m, n \in {1, 2}}

(* Bytes that encode a message decode to that message: all of the input is *)
(* read, no read fails, no limit is popped that was not stored, and the    *)
(* table has the values of the items.                                      *)
DecodesMessages ==
    LET Read == {c \in MessageInputs : c.data = buf}
    IN  (phase \in {"done", "dead"} /\ Read # {}) =>
            /\ phase = "done" /\ pos = Len(buf) /\ faults = {}
            /\ \E c \in Read : c.want = stack[1].tab

(* Bytes in the wire format of protobuf decode to the values of the fields *)
(* the schema knows: a field it does not know is passed over (the comment  *)
(* "protocol changed?" at the test for one in RawDecode), and a repeated   *)
(* number may be packed, as protoc's code for the schema of the tests      *)
(* writes it.                                                              *)
WireFormatDecodes ==
    phase \in {"done", "dead"} => \E c \in Inputs : c.data = buf /\ c.want = stack[1].tab

=============================================================================
