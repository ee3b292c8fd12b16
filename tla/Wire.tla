-------------------------------- MODULE Wire --------------------------------
(***************************************************************************)
(* The wire format as PBStream writes and measures it: src/src/Stream.cpp  *)
(* (WriteValue, WriteMessageHead, FieldSize, TagSize) and the functions of *)
(* the protobuf library it calls.                                          *)
(*                                                                         *)
(* A field descriptor is [number, type, repeated, msg, enum]: msg names    *)
(* the message type of a "message" field, enum is the enumeration of an    *)
(* "enum" field as a function from names to numbers.  Type "other" stands  *)
(* for the protobuf types Stream.cpp has no case for (double, bytes, the   *)
(* fixed and the zigzag integers, groups).                                 *)
(*                                                                         *)
(* A Lua value is what the Lua API makes of it:                            *)
(*   lua   its type                                                        *)
(*   num   luaL_checknumber and luaL_checkinteger accept it                *)
(*   int   the int32 they give (for uint32 fields read modulo 2^32)        *)
(*   flt   the four bytes of that number as a float                        *)
(*   str   the bytes luaL_checklstring gives, for strings and numbers      *)
(*   cstr  those bytes up to the first NUL, which is what strlen sees      *)
(*   ll    bytes of the varint for the number sscanf("%lld") reads in cstr *)
(*   llu   the same for sscanf("%llu")                                     *)
(*   truth lua_toboolean                                                   *)
(*   node  the table it refers to, when it is one                          *)
(***************************************************************************)
EXTENDS Integers, Sequences

Byte == 0..255

WIRETYPE_VARINT == 0
WIRETYPE_LENGTH_DELIMITED == 2
WIRETYPE_FIXED32 == 5

kTagTypes == 8   \* 1 << kTagTypeBits

Types == {"float", "int32", "bool", "string", "int64", "uint64", "uint32",
          "enum", "message", "other"}

MaxInt32 == 2147483647
Int32 == (-MaxInt32 - 1)..MaxInt32
MaxFieldNumber == 536870911

IsFieldDescriptor(fd) ==
    /\ fd.number \in 1..MaxFieldNumber
    /\ fd.type \in Types
    /\ fd.repeated \in BOOLEAN
    /\ fd.type = "enum" => \A n \in DOMAIN fd.enum : fd.enum[n] \in Int32

IsLuaValue(v) ==
    /\ v.num \in BOOLEAN /\ v.truth \in BOOLEAN
    /\ v.int \in Int32
    /\ v.flt \in Seq(Byte) /\ Len(v.flt) = 4
    /\ v.cstr \in Seq(Byte)
    /\ v.ll \in 1..10 /\ v.llu \in 1..10

IsText(v) == v.lua \in {"number", "string"}

-----------------------------------------------------------------------------
(* The protobuf library: varints in groups of seven bits.  Integers stay   *)
(* in the range of an int32; a negative one stands for its value modulo    *)
(* 2^32 as a uint32 and modulo 2^64 when it is sign extended.              *)
VarintSize32(v) ==
    IF v < 128 THEN 1 ELSE
    IF v < 16384 THEN 2 ELSE
    IF v < 2097152 THEN 3 ELSE
    IF v < 268435456 THEN 4 ELSE 5

UInt32Size(v) == IF v < 0 THEN 5 ELSE VarintSize32(v)

Int32Size(v) == IF v < 0 THEN 10 ELSE VarintSize32(v)

Scale == <<1, 128, 16384, 2097152, 268435456>>

Group_Unmasked(v, k) == IF k <= 5 THEN v \div Scale[k] ELSE IF v < 0 THEN 127 ELSE 0

Group(v, k) ==
    IF k <= 5 THEN (v \div Scale[k]) % 128 ELSE IF v < 0 THEN 127 ELSE 0

LastGroup(v, n) ==
    Group(v, n) % (IF n = 10 THEN 2 ELSE IF n = 5 THEN 16 ELSE 128)

Varint(v, n) == [k \in 1..n |-> IF k < n THEN 128 + Group(v, k) ELSE LastGroup(v, n)]

WriteVarint32(v) == Varint(v, VarintSize32(v))

WriteTag(number, wiretype) == WriteVarint32(number * kTagTypes + wiretype)

-----------------------------------------------------------------------------
(* PBStream::TagSize measures number << 3, the tag without its wire type. *)
TagSize_Unshifted(number) == VarintSize32(number)

TagSize(number) == VarintSize32(number * kTagTypes)

(* Which conversions of a Lua value raise a Lua error in PBStream::FieldSize. *)
FieldSizeRaises_TextOnly(fd, v) ==
    fd.type \in {"string", "int64", "uint64", "enum"} /\ ~IsText(v)

FieldSizeRaises(fd, v) ==
    \/ fd.type \in {"int32", "uint32"} /\ ~v.num
    \/ fd.type \in {"string", "int64", "uint64", "enum"} /\ ~IsText(v)

(* What FieldSize counts for a string: its length and its bytes. *)
StringSize_CountsNul(s) == VarintSize32(Len(s) + 1) + Len(s) + 1

StringSize(s) == VarintSize32(Len(s)) + Len(s)

(* PBStream::FieldSize.  An unknown enumerator and, in builds without      *)
(* assertions, an unsupported type measure 0.                              *)
FieldSize(fd, v) ==
    IF fd.type = "float" THEN 4 ELSE
    IF fd.type = "int64" THEN v.ll ELSE
    IF fd.type = "uint64" THEN v.llu ELSE
    IF fd.type = "int32" THEN Int32Size(v.int) ELSE
    IF fd.type = "bool" THEN 1 ELSE
    IF fd.type = "string" THEN StringSize(v.cstr) ELSE
    IF fd.type = "uint32" THEN UInt32Size(v.int) ELSE
    IF fd.type = "enum" /\ v.str \in DOMAIN fd.enum THEN Int32Size(fd.enum[v.str])
    ELSE 0

(* Which conversions raise in PBStream::WriteValue: the float one too. *)
WriteValueRaises(fd, v) ==
    \/ fd.type \in {"float", "int32", "uint32"} /\ ~v.num
    \/ fd.type \in {"string", "int64", "uint64", "enum"} /\ ~IsText(v)

(* The bytes PBStream::WriteValue appends: a tag and a payload, or nothing *)
(* for an unknown enumerator and, in builds without assertions, for an     *)
(* unsupported type.  64-bit integers travel as the text Lua holds them in.*)
WireType(type) ==
    IF type = "float" THEN WIRETYPE_FIXED32 ELSE
    IF type \in {"string", "int64", "uint64"} THEN WIRETYPE_LENGTH_DELIMITED
    ELSE WIRETYPE_VARINT

Payload(fd, v) ==
    IF fd.type = "float" THEN v.flt ELSE
    IF fd.type = "int32" THEN Varint(v.int, Int32Size(v.int)) ELSE
    IF fd.type = "bool" THEN <<IF v.truth THEN 1 ELSE 0>> ELSE
    IF fd.type = "uint32" THEN Varint(v.int, UInt32Size(v.int)) ELSE
    IF fd.type = "enum" THEN Varint(fd.enum[v.str], Int32Size(fd.enum[v.str]))
    ELSE WriteVarint32(Len(v.cstr)) \o v.cstr

IsWritten(fd, v) ==
    IF fd.type = "enum" THEN v.str \in DOMAIN fd.enum
    ELSE fd.type \notin {"message", "other"}

WriteValue(fd, v) ==
    IF IsWritten(fd, v) THEN WriteTag(fd.number, WireType(fd.type)) \o Payload(fd, v)
    ELSE <<>>

(* PBStream::WriteMessageHead. *)
WriteMessageHead(number, bytes) ==
    WriteTag(number, WIRETYPE_LENGTH_DELIMITED) \o WriteVarint32(bytes)

=============================================================================
