--------------------------- MODULE EncoderProofs ----------------------------
(***************************************************************************)
(* The two passes of luapb_encode agree: for every schema, every table and *)
(* every call whose entries are clean, RawEncode stays inside the buffer   *)
(* RawByteSize asked for and fills it.  First what PBStream measures and   *)
(* what it writes, field by field: the two agree for every value of the    *)
(* types luapb measures correctly.                                         *)
(***************************************************************************)
EXTENDS Encoder, TLAPS

-----------------------------------------------------------------------------
(* One field: what is measured and what is written *)

(* A varint of a 32-bit value takes one to five bytes. *)
LEMMA VarintSize32Type == \A v \in Int : VarintSize32(v) \in 1..5
BY DEF VarintSize32

(* TagSize leaves out the wire type, which never changes the size. *)
LEMMA TagSizeIgnoresType ==
    \A n \in Nat, w \in 0..7 : VarintSize32(n * kTagTypes + w) = TagSize(n)
BY DEF VarintSize32, TagSize, kTagTypes

(* A varint is as many bytes as it was asked for. *)
LEMMA VarintLen ==
    ASSUME NEW v \in Int, NEW n \in 1..10
    PROVE  Varint(v, n) \in Seq(Byte) /\ Len(Varint(v, n)) = n
<1>1. \A k \in 1..n : Group(v, k) \in 0..127
  BY DEF Group, Scale
<1>2. LastGroup(v, n) \in 0..127
  BY <1>1 DEF LastGroup
<1>3. Varint(v, n) \in [1..n -> Byte]
  BY <1>1, <1>2 DEF Varint, Byte
<1> QED
  BY <1>3

(* Concatenation adds lengths. *)
LEMMA ConcatLen ==
    ASSUME NEW s \in Seq(Byte), NEW t \in Seq(Byte)
    PROVE  s \o t \in Seq(Byte) /\ Len(s \o t) = Len(s) + Len(t)
OBVIOUS

(* A tag takes the bytes TagSize says, whatever its wire type. *)
LEMMA TagLen ==
    ASSUME NEW n \in Nat, NEW w \in 0..7
    PROVE  WriteTag(n, w) \in Seq(Byte) /\ Len(WriteTag(n, w)) = TagSize(n)
<1> DEFINE v == n * kTagTypes + w
<1>1. v \in Int
  BY DEF kTagTypes
<1>2. VarintSize32(v) = TagSize(n) /\ VarintSize32(v) \in 1..10
  BY <1>1, TagSizeIgnoresType, VarintSize32Type
<1>3. Varint(v, VarintSize32(v)) \in Seq(Byte) /\ Len(Varint(v, VarintSize32(v))) = TagSize(n)
  BY <1>1, <1>2, VarintLen
<1> QED
  BY <1>3 DEF WriteTag, WriteVarint32

(* A length takes the bytes VarintSize32 says. *)
LEMMA LengthLen ==
    ASSUME NEW n \in Nat
    PROVE  WriteVarint32(n) \in Seq(Byte) /\ Len(WriteVarint32(n)) = VarintSize32(n)
<1>1. n \in Int /\ VarintSize32(n) \in 1..10
  BY VarintSize32Type
<1>2. /\ Varint(n, VarintSize32(n)) \in Seq(Byte)
      /\ Len(Varint(n, VarintSize32(n))) = VarintSize32(n)
  BY <1>1, VarintLen
<1> QED
  BY <1>2 DEF WriteVarint32

(* The head of a sub-message takes its tag and the varint of its length. *)
LEMMA HeadLen ==
    ASSUME NEW n \in Nat, NEW b \in Nat
    PROVE  /\ WriteMessageHead(n, b) \in Seq(Byte)
           /\ Len(WriteMessageHead(n, b)) = TagSize(n) + VarintSize32(b)
<1>1. /\ WriteTag(n, WIRETYPE_LENGTH_DELIMITED) \in Seq(Byte)
      /\ Len(WriteTag(n, WIRETYPE_LENGTH_DELIMITED)) = TagSize(n)
  BY TagLen DEF WIRETYPE_LENGTH_DELIMITED
<1>2. WriteVarint32(b) \in Seq(Byte) /\ Len(WriteVarint32(b)) = VarintSize32(b)
  BY LengthLen
<1> QED
  BY <1>1, <1>2, ConcatLen DEF WriteMessageHead

(* Sizes of the signed and unsigned integers, and the varints of that size. *)
LEMMA IntegerLen ==
    ASSUME NEW v \in Int32
    PROVE  /\ Int32Size(v) \in 1..10 /\ UInt32Size(v) \in 1..10
           /\ Varint(v, Int32Size(v)) \in Seq(Byte) /\ Len(Varint(v, Int32Size(v))) = Int32Size(v)
           /\ Varint(v, UInt32Size(v)) \in Seq(Byte) /\ Len(Varint(v, UInt32Size(v))) = UInt32Size(v)
<1>1. v \in Int
  BY DEF Int32
<1>2. Int32Size(v) \in 1..10 /\ UInt32Size(v) \in 1..10
  BY <1>1, VarintSize32Type DEF Int32Size, UInt32Size
<1> QED
  BY <1>1, <1>2, VarintLen

(* FieldSize is a size: the tag and the value are at least no bytes. *)
LEMMA FieldSizeType ==
    ASSUME NEW fd, NEW v, IsFieldDescriptor(fd), IsLuaValue(v)
    PROVE  FieldSize(fd, v) \in Nat /\ TagSize(fd.number) \in 1..5
<1>1. fd.number * kTagTypes \in Int
  BY DEF IsFieldDescriptor, kTagTypes
<1>2. TagSize(fd.number) \in 1..5
  BY <1>1, VarintSize32Type DEF TagSize
<1>3. v.int \in Int32 /\ v.ll \in Nat /\ v.llu \in Nat /\ Len(v.cstr) \in Nat
  BY DEF IsLuaValue
<1>4. StringSize(v.cstr) \in Nat
  BY <1>3, VarintSize32Type DEF StringSize
<1>5. Int32Size(v.int) \in Nat /\ UInt32Size(v.int) \in Nat
  BY <1>3, IntegerLen
<1>6. fd.type = "enum" /\ v.str \in DOMAIN fd.enum => Int32Size(fd.enum[v.str]) \in Nat
  BY IntegerLen DEF IsFieldDescriptor
<1> QED
  BY <1>2, <1>3, <1>4, <1>5, <1>6 DEF FieldSize

(***************************************************************************)
(* Field by field, WriteValue appends bytes, and for the types FieldSize   *)
(* measures right it appends exactly TagSize + FieldSize of them.          *)
(***************************************************************************)
LEMMA WriteValueLen ==
    ASSUME NEW fd, NEW v, IsFieldDescriptor(fd), IsLuaValue(v)
    PROVE  /\ WriteValue(fd, v) \in Seq(Byte)
           /\ \/ fd.type \in {"float", "int32", "bool", "string", "uint32"}
              \/ fd.type = "enum" /\ v.str \in DOMAIN fd.enum
              => Len(WriteValue(fd, v)) = TagSize(fd.number) + FieldSize(fd, v)
<1> DEFINE tag == WriteTag(fd.number, WireType(fd.type))
           measured == fd.type \notin {"int64", "uint64"}
<1>1. tag \in Seq(Byte) /\ Len(tag) = TagSize(fd.number)
  <2>1. fd.number \in Nat
    BY DEF IsFieldDescriptor
  <2>2. WireType(fd.type) \in 0..7
    BY DEF WireType, WIRETYPE_FIXED32, WIRETYPE_LENGTH_DELIMITED, WIRETYPE_VARINT
  <2> QED
    BY <2>1, <2>2, TagLen
<1> SUFFICES ASSUME IsWritten(fd, v)
             PROVE  /\ Payload(fd, v) \in Seq(Byte)
                    /\ measured => Len(Payload(fd, v)) = FieldSize(fd, v)
  <2>1. CASE IsWritten(fd, v)
    <3>1. WriteValue(fd, v) = tag \o Payload(fd, v)
      BY <2>1 DEF WriteValue
    <3> HIDE DEF tag
    <3> QED
      BY <1>1, <2>1, <3>1, ConcatLen
  <2>2. CASE ~IsWritten(fd, v)
    <3>1. WriteValue(fd, v) = <<>>
      BY <2>2 DEF WriteValue
    <3> QED
      BY <2>2, <3>1 DEF IsWritten
  <2> QED
    BY <2>1, <2>2
<1>2. CASE fd.type = "float"
  BY <1>2 DEF IsLuaValue, Payload, FieldSize
<1>3. CASE fd.type \in {"int32", "uint32"}
  <2>1. v.int \in Int32
    BY DEF IsLuaValue
  <2> QED
    BY <1>3, <2>1, IntegerLen DEF Payload, FieldSize
<1>4. CASE fd.type = "bool"
  BY <1>4 DEF Payload, FieldSize, Byte
<1>5. CASE fd.type \in {"string", "int64", "uint64"}
  <2> DEFINE n == Len(v.cstr)
  <2>1. v.cstr \in Seq(Byte) /\ n \in Nat
    BY DEF IsLuaValue
  <2>3. WriteVarint32(n) \in Seq(Byte) /\ Len(WriteVarint32(n)) = VarintSize32(n)
    BY <2>1, LengthLen
  <2>4. Payload(fd, v) = WriteVarint32(n) \o v.cstr
    BY <1>5 DEF Payload
  <2>5. Payload(fd, v) \in Seq(Byte) /\ Len(Payload(fd, v)) = VarintSize32(n) + n
    BY <2>1, <2>3, <2>4, ConcatLen
  <2>6. measured => FieldSize(fd, v) = VarintSize32(n) + n
    BY <1>5 DEF FieldSize, StringSize
  <2> QED
    BY <2>5, <2>6
<1>6. CASE fd.type = "enum"
  <2>1. v.str \in DOMAIN fd.enum /\ fd.enum[v.str] \in Int32
    BY <1>6 DEF IsWritten, IsFieldDescriptor
  <2> QED
    BY <1>6, <2>1, IntegerLen DEF Payload, FieldSize
<1> QED
  BY <1>2, <1>3, <1>4, <1>5, <1>6 DEF IsFieldDescriptor, Types, IsWritten

(* Every conversion WriteValue rejects, FieldSize rejects first, but the   *)
(* one of a float.                                                         *)
LEMMA LateRaiseIsFloat ==
    ASSUME NEW fd, NEW v, WriteValueRaises(fd, v), ~FieldSizeRaises(fd, v)
    PROVE  fd.type = "float"
BY DEF WriteValueRaises, FieldSizeRaises

-----------------------------------------------------------------------------
(* The two passes *)

KeyOK(k) ==
    /\ k \in Keys /\ k.node \in DOMAIN call.tab
    /\ ~IsMsgFrame(k) => k.field \in DOMAIN Schema[k.desc]

(* s holds the partial sums of RawByteSize over a prefix of k's entries. *)
Measured(k, s) ==
    /\ Len(s) \in 1..(Len(Entries(k)) + 1)
    /\ s[1] = 0
    /\ \A i \in 1..Len(s) : \A j \in 1..Len(s) : i <= j => s[i] <= s[j]
    /\ \A i \in 1..(Len(s) - 1) :
         /\ ~Fails(k, Entries(k)[i])
         /\ HasChild(k, Entries(k)[i]) => Child(k, Entries(k)[i]) \in DOMAIN memo
         /\ s[i + 1] = s[i] + Contribution(k, Entries(k)[i])

MemoInv ==
    \A k \in DOMAIN memo :
        KeyOK(k) /\ Measured(k, memo[k]) /\ Len(memo[k]) = Len(Entries(k)) + 1

SizingInv ==
    /\ phase = "sizing" <=> Len(sizing) > 0
    /\ \A j \in 1..Len(sizing) :
         /\ KeyOK(sizing[j].key) /\ Measured(sizing[j].key, sizing[j].sums)
         /\ sizing[j].key \notin DOMAIN memo
    /\ \A i \in 1..Len(sizing) : \A j \in 1..Len(sizing) :
         i < j => sizing[i].key.node < sizing[j].key.node

WritingInv ==
    /\ phase = "writing" <=> Len(writing) > 0
    /\ \A j \in 1..Len(writing) :
         /\ writing[j].key \in DOMAIN memo
         /\ writing[j].i <= Len(Entries(writing[j].key))

(* Where a frame of RawEncode has got to, and where it will end. *)
Pos(f) == f.base + memo[f.key][f.i + 1]
End(f) == f.base + Total(f.key)

Layout ==
    /\ Len(out) = Pos(writing[Len(writing)])
    /\ End(writing[1]) = mSize
    /\ \A j \in 1..Len(writing) : End(writing[j]) <= mSize
    /\ \A j \in 1..(Len(writing) - 1) : End(writing[j + 1]) = Pos(writing[j])

LayoutInv == Writing /\ Clean => Layout

EncoderInv == TypeOK /\ MemoInv /\ SizingInv /\ WritingInv

FilledInv == LayoutInv /\ BufferFilled /\ (phase = "sizing" => out = <<>>)

-----------------------------------------------------------------------------
(* An entry of a table is a pair of a key and a value, and a table it      *)
(* holds has a higher number.                                              *)
LEMMA EntryType ==
    ASSUME call \in Calls, NEW k, k.node \in DOMAIN call.tab
    PROVE  /\ Entries(k) \in Seq(Pairs)
           /\ \A i \in 1..Len(Entries(k)) :
                LET v == Entries(k)[i].val IN
                /\ IsLuaValue(v)
                /\ v.lua = "table" => v.node \in DOMAIN call.tab /\ v.node \in Nat /\ v.node > k.node
<1>1. /\ call.tab \in [DOMAIN call.tab -> Seq(Pairs)]
      /\ DOMAIN call.tab \subseteq Nat
      /\ \A n \in DOMAIN call.tab : \A i \in 1..Len(call.tab[n]) :
             LET v == call.tab[n][i].val IN
             v.lua = "table" => v.node \in DOMAIN call.tab /\ v.node > n
  BY CallsAssumption
<1>2. Entries(k) \in Seq(Pairs)
  BY <1>1 DEF Entries
<1>3. ASSUME NEW i \in 1..Len(Entries(k))
      PROVE  IsLuaValue(Entries(k)[i].val)
  <2>1. Entries(k)[i] \in Pairs
    BY <1>2
  <2> QED
    BY <2>1, PairsAssumption
<1> QED
  BY <1>1, <1>2, <1>3 DEF Entries

(* The field descriptor of an entry is one of the schema's. *)
LEMMA FdType ==
    ASSUME NEW k, KeyOK(k), NEW e, IsField(k, e)
    PROVE  /\ IsFieldDescriptor(Fd(k, e))
           /\ Fd(k, e).type = "message" => Fd(k, e).msg \in DOMAIN Schema
<1>1. k.desc \in DOMAIN Schema
  BY DEF KeyOK, Keys
<1> QED
  BY <1>1, SchemaAssumption DEF KeyOK, IsField, Fd

(* The key of a nested frame is a key, of a table with a higher number. *)
LEMMA ChildType ==
    ASSUME call \in Calls, NEW k, KeyOK(k), NEW e, ~Fails(k, e), HasChild(k, e),
           e.val.lua = "table" =>
               e.val.node \in DOMAIN call.tab /\ e.val.node \in Nat /\ e.val.node > k.node
    PROVE  KeyOK(Child(k, e)) /\ Child(k, e).node > k.node
<1>1. e.val.lua = "table"
  BY DEF Fails, Raises, IsUndefined, HasChild
<1>2. k.desc \in DOMAIN Schema
  BY DEF KeyOK, Keys
<1>3. CASE IsList(k, e)
  <2>1. e.key \in DOMAIN Schema[k.desc] /\ e.key \in FieldNames
    BY <1>2, <1>3 DEF IsList, IsField, FieldNames
  <2>2. Child(k, e) = [desc |-> k.desc, field |-> e.key, node |-> e.val.node]
    BY <1>3 DEF Child
  <2> QED
    BY <1>1, <1>2, <2>1, <2>2 DEF KeyOK, Keys
<1>4. CASE IsMessage(k, e)
  <2>1. Fd(k, e).msg \in DOMAIN Schema
    BY <1>4, FdType DEF IsMessage
  <2>2. Child(k, e) = [desc |-> Fd(k, e).msg, field |-> NoField, node |-> e.val.node]
    BY <1>4 DEF Child, IsMessage
  <2> QED
    BY <1>1, <2>1, <2>2 DEF KeyOK, Keys, IsMsgFrame
<1> QED
  BY <1>3, <1>4 DEF HasChild

(* A frame that has returned has a total. *)
LEMMA TotalType ==
    ASSUME TypeOK, MemoInv, NEW k \in DOMAIN memo
    PROVE  Total(k) \in Nat /\ memo[k] \in Seq(Nat) /\ Total(k) = memo[k][Len(Entries(k)) + 1]
<1>1. memo[k] \in Seq(Nat) /\ Len(memo[k]) >= 1 /\ Len(memo[k]) = Len(Entries(k)) + 1
  BY DEF TypeOK, MemoInv, Measured
<1> QED
  BY <1>1 DEF Total, Last

(* Nothing an entry adds to a size is negative. *)
LEMMA ContributionType ==
    ASSUME TypeOK, MemoInv, NEW k, KeyOK(k), NEW e, IsLuaValue(e.val), ~Fails(k, e),
           HasChild(k, e) => Child(k, e) \in DOMAIN memo
    PROVE  Contribution(k, e) \in Nat
<1>1. CASE IsSkipped(k, e)
  BY <1>1 DEF Contribution
<1>2. CASE ~IsSkipped(k, e)
  <2>1. IsField(k, e)
    BY <1>2 DEF IsSkipped, IsField, Fails, Raises
  <2>3. FieldSize(Fd(k, e), e.val) \in Nat /\ TagSize(Fd(k, e).number) \in Nat
    BY <2>1, FdType, FieldSizeType
  <2>4. HasChild(k, e) => Total(Child(k, e)) \in Nat
    BY TotalType
  <2>5. HasChild(k, e) => VarintSize32(Total(Child(k, e))) \in Nat
    BY <2>4, VarintSize32Type
  <2>6. HasChild(k, e) \/ IsScalar(k, e)
    BY <2>1 DEF HasChild, IsMessage, IsScalar
  <2>7. IsScalar(k, e) => ~IsList(k, e)
    BY DEF IsScalar
  <2> QED
    BY <1>2, <2>3, <2>4, <2>5, <2>6, <2>7 DEF Contribution
<1> QED
  BY <1>1, <1>2

(* Measurements survive a growing memo. *)
LEMMA MeasuredStable ==
    ASSUME call' = call, DOMAIN memo \subseteq DOMAIN memo',
           \A c \in DOMAIN memo : memo'[c] = memo[c],
           NEW k, NEW s, Measured(k, s)
    PROVE  Measured(k, s)'
<1>1. Entries(k)' = Entries(k)
  BY DEF Entries
<1>2. ASSUME NEW e, ~Fails(k, e), HasChild(k, e) => Child(k, e) \in DOMAIN memo
      PROVE  Contribution(k, e)' = Contribution(k, e)
  <2>1. Fd(k, e)' = Fd(k, e) /\ (IsSkipped(k, e)' <=> IsSkipped(k, e))
    BY DEF Fd, IsSkipped, IsMsgFrame
  <2>2. (IsList(k, e)' <=> IsList(k, e)) /\ (IsMessage(k, e)' <=> IsMessage(k, e))
    BY <2>1 DEF IsList, IsMessage, IsField, IsMsgFrame
  <2>3. Child(k, e)' = Child(k, e)
    BY <2>1, <2>2 DEF Child
  <2>4. HasChild(k, e) => Total(Child(k, e))' = Total(Child(k, e))
    BY <1>2, <2>3 DEF Total
  <2>5. IsSkipped(k, e) \/ HasChild(k, e) \/ IsScalar(k, e)
    BY <1>2 DEF Fails, Raises, IsSkipped, IsField, HasChild, IsMessage, IsScalar
  <2>6. IsScalar(k, e)' <=> IsScalar(k, e)
    BY <2>1, <2>2 DEF IsScalar, IsField, IsMsgFrame
  <2> QED
    BY <2>1, <2>2, <2>3, <2>4, <2>5, <2>6 DEF Contribution, IsScalar, IsMsgFrame
<1>3. ASSUME NEW e PROVE (Fails(k, e)' <=> Fails(k, e)) /\ (HasChild(k, e)' <=> HasChild(k, e))
                         /\ Child(k, e)' = Child(k, e)
  BY DEF Fails, Raises, Aborts, IsUndefined, HasChild, Child, IsList, IsMessage, IsScalar,
         IsField, Fd, IsMsgFrame
<1> QED
  BY <1>1, <1>2, <1>3 DEF Measured

(* A key stays one while the call's tables stay. *)
LEMMA KeyStable ==
    ASSUME call' = call, NEW k, KeyOK(k)
    PROVE  KeyOK(k)' /\ Entries(k)' = Entries(k)
BY DEF KeyOK, IsMsgFrame, Entries

(* Steps that return from no RawByteSize frame keep the results. *)
LEMMA MemoStable ==
    ASSUME MemoInv, call' = call, memo' = memo
    PROVE  MemoInv'
<1> SUFFICES ASSUME NEW k \in DOMAIN memo
             PROVE  KeyOK(k)' /\ Measured(k, memo[k])' /\ Len(memo[k]) = Len(Entries(k)') + 1
  BY DEF MemoInv
<1>1. KeyOK(k) /\ Measured(k, memo[k]) /\ Len(memo[k]) = Len(Entries(k)) + 1
  BY DEF MemoInv
<1>2. PICK s : s = memo[k]
  OBVIOUS
<1>3. Measured(k, s)'
  BY <1>1, <1>2, MeasuredStable
<1> QED
  BY <1>1, <1>2, <1>3, KeyStable

-----------------------------------------------------------------------------
(* The frame RawByteSize is in, and the entry its loop is at. *)
LEMMA SizeTopType ==
    ASSUME EncoderInv, phase = "sizing"
    PROVE  /\ Len(sizing) \in Nat /\ Len(sizing) > 0 /\ SizeTop = sizing[Len(sizing)]
           /\ SizeTop \in SizeFrames /\ SizeTop.sums \in Seq(Nat)
           /\ KeyOK(SizeKey) /\ Measured(SizeKey, SizeTop.sums) /\ SizeKey \notin DOMAIN memo
<1>1. sizing \in Seq(SizeFrames) /\ Len(sizing) > 0 /\ Len(sizing) \in Nat
  BY DEF EncoderInv, TypeOK, SizingInv
<1>2. SizeTop = sizing[Len(sizing)] /\ SizeTop \in SizeFrames
  BY <1>1 DEF SizeTop, Last
<1>3. SizeTop.sums \in Seq(Nat)
  BY <1>2 DEF SizeFrames
<1> QED
  BY <1>1, <1>2, <1>3 DEF EncoderInv, SizingInv, SizeKey

(* Its value is a Lua value, its table a table of the call. *)
LEMMA SizeEntryType ==
    ASSUME EncoderInv, SizeIterating
    PROVE  /\ Len(SizeTop.sums) \in 1..Len(Entries(SizeKey))
           /\ IsLuaValue(SizeEntry.val)
           /\ SizeEntry.val.lua = "table" =>
                /\ SizeEntry.val.node \in DOMAIN call.tab
                /\ SizeEntry.val.node \in Nat /\ SizeEntry.val.node > SizeKey.node
<1>1. KeyOK(SizeKey) /\ Measured(SizeKey, SizeTop.sums)
  BY SizeTopType DEF SizeIterating
<1>2. call \in Calls /\ SizeKey.node \in DOMAIN call.tab
  BY <1>1 DEF EncoderInv, TypeOK, KeyOK
<1>3. Entries(SizeKey) \in Seq(Pairs)
  BY <1>2, EntryType
<1>4. Len(SizeTop.sums) \in 1..Len(Entries(SizeKey))
  BY <1>1, <1>3 DEF Measured, SizeIterating
<1> QED
  BY <1>2, <1>4, EntryType DEF SizeEntry

(* A nested frame starts at 0, on a table with a higher number. *)
LEMMA SizeEnterInv ==
    ASSUME EncoderInv, SizeEnter
    PROVE  EncoderInv'
<1>1. PICK k, e, c : k = SizeKey /\ e = SizeEntry /\ c = Child(k, e)
  OBVIOUS
<1>2. SizeIterating /\ phase = "sizing" /\ ~Fails(k, e) /\ HasChild(k, e) /\ c \notin DOMAIN memo
  BY <1>1 DEF SizeEnter, SizeIterating
<1>3. sizing' = Append(sizing, [key |-> c, sums |-> <<0>>])
  BY <1>1 DEF SizeEnter
<1>4. UNCHANGED <<phase, call, memo, mSize, out, writing, leaked, ret>>
  BY DEF SizeEnter
<1>5. sizing \in Seq(SizeFrames) /\ Len(sizing) \in Nat /\ Len(sizing) > 0
      /\ KeyOK(k) /\ sizing[Len(sizing)].key = k
  BY <1>1, <1>2, SizeTopType DEF EncoderInv, TypeOK, SizeKey
<1>6. KeyOK(c) /\ c.node > k.node
  BY <1>1, <1>2, <1>5, SizeEntryType, ChildType DEF EncoderInv, TypeOK
<1>7. c \in Keys /\ k \in Keys
  BY <1>5, <1>6 DEF KeyOK
<1>8. TypeOK'
  <2>1. [key |-> c, sums |-> <<0>>] \in SizeFrames
    BY <1>7 DEF SizeFrames
  <2>2. sizing' \in Seq(SizeFrames)
    BY <1>3, <1>5, <2>1
  <2> QED
    BY <1>4, <2>2 DEF EncoderInv, TypeOK
<1>9. MemoInv'
  BY <1>4, MemoStable DEF EncoderInv
<1>10. Measured(c, <<0>>)'
  <2>1. Entries(c) \in Seq(Pairs)
    BY <1>6, EntryType DEF KeyOK, EncoderInv, TypeOK
  <2>2. Entries(c)' = Entries(c)
    BY <1>4, <1>6, KeyStable
  <2> QED
    BY <2>1, <2>2 DEF Measured
<1>11. SizingInv'
  <2>1. phase' = "sizing" /\ Len(sizing') = Len(sizing) + 1
    BY <1>2, <1>3, <1>4, <1>5
  <2>2. ASSUME NEW j \in 1..Len(sizing')
        PROVE  KeyOK(sizing[j].key)' /\ Measured(sizing[j].key, sizing[j].sums)'
               /\ sizing'[j].key \notin DOMAIN memo'
    <3>1. CASE j = Len(sizing) + 1
      BY <1>2, <1>3, <1>4, <1>5, <1>6, <1>10, <3>1, KeyStable
    <3>2. CASE j \in 1..Len(sizing)
      <4>1. sizing'[j] = sizing[j]
        BY <1>3, <1>5, <3>2
      <4>2. PICK f : f = sizing[j]
        OBVIOUS
      <4>3. KeyOK(f.key) /\ Measured(f.key, f.sums) /\ f.key \notin DOMAIN memo
        BY <3>2, <4>2 DEF EncoderInv, SizingInv
      <4>4. KeyOK(f.key)' /\ Measured(f.key, f.sums)'
        BY <1>4, <4>3, KeyStable, MeasuredStable
      <4> QED
        BY <1>4, <4>1, <4>2, <4>3, <4>4
    <3> QED
      BY <2>1, <3>1, <3>2, <1>5
  <2>3. ASSUME NEW i \in 1..Len(sizing'), NEW j \in 1..Len(sizing'), i < j
        PROVE  sizing'[i].key.node < sizing'[j].key.node
    <3>1. i \in 1..Len(sizing) /\ sizing'[i] = sizing[i]
      BY <1>3, <1>5, <2>1, <2>3
    <3>2. CASE j = Len(sizing) + 1
      <4>1. sizing'[j].key = c
        BY <1>3, <1>5, <3>2
      <4>2. sizing[i].key.node = k.node \/ sizing[i].key.node < k.node
        BY <1>5, <3>1, <3>2 DEF EncoderInv, SizingInv
      <4>3. sizing[i] \in SizeFrames
        BY <1>5, <3>1
      <4>4. sizing[i].key.node \in Nat
        BY <4>3 DEF SizeFrames, Keys
      <4> QED
        BY <1>6, <1>7, <3>1, <4>1, <4>2, <4>4 DEF Keys
    <3>3. CASE j \in 1..Len(sizing)
      <4>1. sizing'[j] = sizing[j]
        BY <1>3, <1>5, <3>3
      <4> QED
        BY <2>3, <3>1, <3>3, <4>1 DEF EncoderInv, SizingInv
    <3> QED
      BY <2>1, <3>2, <3>3, <1>5
  <2> QED
    BY <1>5, <2>1, <2>2, <2>3 DEF SizingInv
<1>12. WritingInv'
  BY <1>4 DEF EncoderInv, WritingInv, Entries
<1> QED
  BY <1>8, <1>9, <1>11, <1>12 DEF EncoderInv

(* One more partial sum, never below the ones before. *)
LEMMA SizeAddInv ==
    ASSUME EncoderInv, SizeAdd
    PROVE  EncoderInv'
<1>1. PICK k, e, s, n, d : /\ k = SizeKey /\ e = SizeEntry /\ s = SizeTop.sums
                           /\ n = Len(sizing) /\ d = Contribution(k, e)
  OBVIOUS
<1>2. /\ SizeIterating /\ phase = "sizing" /\ ~Fails(k, e)
      /\ HasChild(k, e) => Child(k, e) \in DOMAIN memo
  BY <1>1 DEF SizeAdd, SizeIterating
<1>3. sizing' = [sizing EXCEPT ![n] = [key |-> k, sums |-> Append(s, s[Len(s)] + d)]]
  BY <1>1 DEF SizeAdd, Last
<1>4. UNCHANGED <<phase, call, memo, mSize, out, writing, leaked, ret>>
  BY DEF SizeAdd
<1>5. /\ sizing \in Seq(SizeFrames) /\ n \in Nat /\ n > 0 /\ n = Len(sizing)
      /\ sizing[n].key = k /\ sizing[n].sums = s /\ sizing[n] \in SizeFrames
      /\ s \in Seq(Nat) /\ KeyOK(k) /\ Measured(k, s) /\ k \notin DOMAIN memo
  BY <1>1, <1>2, SizeTopType DEF EncoderInv, TypeOK, SizeKey
<1>6. Len(s) \in 1..Len(Entries(k)) /\ e = Entries(k)[Len(s)] /\ IsLuaValue(e.val)
  BY <1>1, <1>2, SizeEntryType DEF SizeEntry
<1>7. d \in Nat
  BY <1>1, <1>2, <1>5, <1>6, ContributionType DEF EncoderInv
<1> DEFINE t == Append(s, s[Len(s)] + d)
<1>8. s[Len(s)] \in Nat /\ t \in Seq(Nat) /\ Len(t) = Len(s) + 1
  BY <1>5, <1>6, <1>7
<1>9. /\ sizing' \in Seq(SizeFrames) /\ Len(sizing') = n
      /\ sizing'[n] = [key |-> k, sums |-> t]
      /\ \A j \in 1..n : j # n => sizing'[j] = sizing[j]
  <2>1. [key |-> k, sums |-> t] \in SizeFrames
    BY <1>5, <1>8 DEF SizeFrames
  <2>2. sizing' = [sizing EXCEPT ![n] = [key |-> k, sums |-> t]]
    BY <1>3
  <2> HIDE DEF t
  <2> QED
    BY <1>5, <2>1, <2>2
<1>10. TypeOK'
  BY <1>4, <1>9 DEF EncoderInv, TypeOK
<1>11. MemoInv'
  BY <1>4, MemoStable DEF EncoderInv
<1>12. Measured(k, t)
  <2>1. Entries(k) \in Seq(Pairs)
    BY <1>5, EntryType DEF KeyOK, EncoderInv, TypeOK
  <2>2. Len(t) \in 1..(Len(Entries(k)) + 1)
    BY <1>6, <1>8, <2>1
  <2>3. \A i \in 1..Len(s) : t[i] = s[i] /\ s[i] \in Nat
    BY <1>5
  <2>4. t[Len(s) + 1] = s[Len(s)] + d
    BY <1>5, <1>7, <1>8
  <2> HIDE DEF t
  <2>5. \A i \in 1..Len(t) : \A j \in 1..Len(t) : i <= j => t[i] <= t[j]
    <3>1. \A i \in 1..Len(s) : s[i] <= s[Len(s)]
      BY <1>5, <1>6 DEF Measured
    <3>2. \A i \in 1..Len(s) : \A j \in 1..Len(s) : i <= j => s[i] <= s[j]
      BY <1>5 DEF Measured
    <3>3. ASSUME NEW i \in 1..Len(t), NEW j \in 1..Len(t), i <= j
          PROVE  t[i] <= t[j]
      <4>1. CASE j \in 1..Len(s)
        BY <1>8, <2>3, <3>2, <3>3, <4>1
      <4>2. CASE j = Len(s) + 1 /\ i \in 1..Len(s)
        BY <1>7, <1>8, <2>3, <2>4, <3>1, <4>2
      <4>3. CASE i = j
        BY <1>7, <1>8, <2>3, <2>4, <4>3
      <4> QED
        BY <1>6, <1>8, <3>3, <4>1, <4>2, <4>3
    <3> QED
      BY <3>3
  <2>6. t[1] = 0
    BY <1>5, <1>6, <2>3 DEF Measured
  <2>7. \A i \in 1..(Len(t) - 1) :
         /\ ~Fails(k, Entries(k)[i])
         /\ HasChild(k, Entries(k)[i]) => Child(k, Entries(k)[i]) \in DOMAIN memo
         /\ t[i + 1] = t[i] + Contribution(k, Entries(k)[i])
    <3>1. ASSUME NEW i \in 1..(Len(t) - 1)
          PROVE  /\ ~Fails(k, Entries(k)[i])
                 /\ HasChild(k, Entries(k)[i]) => Child(k, Entries(k)[i]) \in DOMAIN memo
                 /\ t[i + 1] = t[i] + Contribution(k, Entries(k)[i])
      <4>1. CASE i = Len(s)
        BY <1>1, <1>2, <1>6, <2>3, <2>4, <4>1
      <4>2. CASE i \in 1..(Len(s) - 1)
        <5>1. t[i] = s[i] /\ t[i + 1] = s[i + 1]
          BY <1>6, <2>3, <4>2
        <5> QED
          BY <1>5, <4>2, <5>1 DEF Measured
      <4> QED
        BY <1>6, <1>8, <4>1, <4>2
    <3> QED
      BY <3>1
  <2> QED
    BY <2>2, <2>5, <2>6, <2>7 DEF Measured
<1>13. SizingInv'
  <2> HIDE DEF t
  <2>1. ASSUME NEW j \in 1..Len(sizing')
        PROVE  KeyOK(sizing[j].key)' /\ Measured(sizing[j].key, sizing[j].sums)'
               /\ sizing'[j].key \notin DOMAIN memo'
    <3>1. PICK f : f = sizing'[j]
      OBVIOUS
    <3>2. KeyOK(f.key) /\ Measured(f.key, f.sums) /\ f.key \notin DOMAIN memo
      <4>1. CASE j = n
        BY <1>5, <1>9, <1>12, <3>1, <4>1
      <4>2. CASE j # n
        BY <1>5, <1>9, <3>1, <4>2 DEF EncoderInv, SizingInv
      <4> QED
        BY <4>1, <4>2
    <3>3. KeyOK(f.key)' /\ Measured(f.key, f.sums)'
      BY <1>4, <3>2, KeyStable, MeasuredStable
    <3> QED
      BY <1>4, <3>1, <3>2, <3>3
  <2>2. \A j \in 1..Len(sizing) : sizing'[j].key = sizing[j].key
    BY <1>5, <1>9
  <2> QED
    BY <1>2, <1>4, <1>5, <1>9, <2>1, <2>2 DEF EncoderInv, SizingInv
<1>14. WritingInv'
  BY <1>4 DEF EncoderInv, WritingInv, Entries
<1> QED
  BY <1>10, <1>11, <1>13, <1>14 DEF EncoderInv

(* A frame returns: its table is measured for good, and the frames below   *)
(* it, on lower numbers, are still not.  The last one hands over to the    *)
(* writing pass.                                                           *)
LEMMA SizeReturnInv ==
    ASSUME EncoderInv, SizeReturn
    PROVE  EncoderInv'
<1>1. PICK k, s, n : k = SizeKey /\ s = SizeTop.sums /\ n = Len(sizing)
  OBVIOUS
<1>2. /\ phase = "sizing" /\ Len(s) = Len(Entries(k)) + 1
      /\ memo' = [c \in DOMAIN memo \cup {k} |-> IF c = k THEN s ELSE memo[c]]
      /\ sizing' = SubSeq(sizing, 1, n - 1)
      /\ UNCHANGED <<call, out, leaked, ret>>
  BY <1>1 DEF SizeReturn, Front
<1>3. /\ n > 1 => UNCHANGED <<phase, mSize, writing>>
      /\ n <= 1 => /\ phase' = "writing" /\ mSize' = s[Len(s)]
                   /\ writing' = <<[key |-> k, i |-> 0, base |-> 0]>>
  <2>1. n \in Nat
    BY <1>1, <1>2, SizeTopType
  <2> QED
    BY <1>1, <2>1 DEF SizeReturn, Last
<1>4. /\ sizing \in Seq(SizeFrames) /\ n \in Nat /\ n > 0 /\ n = Len(sizing)
      /\ sizing[n].key = k /\ s \in Seq(Nat)
      /\ KeyOK(k) /\ Measured(k, s) /\ k \notin DOMAIN memo
  BY <1>1, <1>2, SizeTopType DEF EncoderInv, TypeOK, SizeKey
<1>5. /\ sizing' \in Seq(SizeFrames) /\ Len(sizing') = n - 1
      /\ \A j \in 1..(n - 1) : sizing'[j] = sizing[j]
  BY <1>2, <1>4
<1>6. /\ DOMAIN memo' = DOMAIN memo \cup {k} /\ memo'[k] = s
      /\ \A c \in DOMAIN memo : memo'[c] = memo[c]
  BY <1>2, <1>4
<1>7. writing = <<>>
  BY <1>2 DEF EncoderInv, WritingInv, TypeOK
<1>8. k \in Keys /\ Len(s) \in Nat /\ Len(s) >= 1 /\ s[Len(s)] \in Nat
  BY <1>4 DEF KeyOK, Measured
<1>9. TypeOK'
  <2>1. DOMAIN memo' \subseteq Keys /\ memo' \in [DOMAIN memo' -> Seq(Nat)]
    BY <1>2, <1>4, <1>6, <1>8 DEF EncoderInv, TypeOK
  <2>2. phase' \in {"sizing", "writing"} /\ mSize' \in Nat /\ writing' \in Seq(WriteFrames)
    <3>1. CASE n > 1
      BY <1>2, <1>3, <3>1 DEF EncoderInv, TypeOK
    <3>2. CASE n <= 1
      <4>1. PICK f : f = [key |-> k, i |-> 0, base |-> 0]
        OBVIOUS
      <4>2. f \in WriteFrames
        BY <1>8, <4>1 DEF WriteFrames
      <4>3. <<f>> \in Seq(WriteFrames)
        BY <4>2
      <4> QED
        BY <1>3, <1>8, <3>2, <4>1, <4>3
    <3> QED
      BY <1>4, <3>1, <3>2
  <2> QED
    BY <1>2, <1>5, <2>1, <2>2 DEF EncoderInv, TypeOK
<1>10. MemoInv'
  <2> SUFFICES ASSUME NEW c \in DOMAIN memo'
               PROVE  KeyOK(c)' /\ Measured(c, memo[c])' /\ Len(memo'[c]) = Len(Entries(c)') + 1
    BY DEF MemoInv
  <2>1. PICK t : t = memo'[c]
    OBVIOUS
  <2>2. KeyOK(c) /\ Measured(c, t) /\ Len(t) = Len(Entries(c)) + 1
    <3>1. CASE c = k
      BY <1>2, <1>4, <1>6, <2>1, <3>1
    <3>2. CASE c \in DOMAIN memo
      BY <1>6, <2>1, <3>2 DEF EncoderInv, MemoInv
    <3> QED
      BY <1>6, <3>1, <3>2
  <2>3. KeyOK(c)' /\ Measured(c, t)' /\ Entries(c)' = Entries(c)
    BY <1>2, <1>6, <2>2, KeyStable, MeasuredStable
  <2> QED
    BY <2>1, <2>2, <2>3
<1>11. SizingInv'
  <2>1. ASSUME NEW j \in 1..Len(sizing')
        PROVE  KeyOK(sizing[j].key)' /\ Measured(sizing[j].key, sizing[j].sums)'
               /\ sizing'[j].key \notin DOMAIN memo'
    <3>1. PICK f : f = sizing'[j]
      OBVIOUS
    <3>2. f = sizing[j] /\ j \in 1..n /\ j < n
      BY <1>4, <1>5, <3>1
    <3>3. KeyOK(f.key) /\ Measured(f.key, f.sums) /\ f.key \notin DOMAIN memo
      BY <1>4, <3>2 DEF EncoderInv, SizingInv
    <3>4. f.key.node < k.node
      BY <1>4, <3>2 DEF EncoderInv, SizingInv
    <3>5. f.key # k
      BY <1>8, <3>3, <3>4 DEF Keys, KeyOK
    <3>6. KeyOK(f.key)' /\ Measured(f.key, f.sums)'
      BY <1>2, <1>6, <3>3, KeyStable, MeasuredStable
    <3> QED
      BY <1>6, <3>1, <3>3, <3>5, <3>6
  <2>2. \A i \in 1..Len(sizing') : \A j \in 1..Len(sizing') :
            i < j => sizing'[i].key.node < sizing'[j].key.node
    BY <1>4, <1>5 DEF EncoderInv, SizingInv
  <2>3. phase' = "sizing" <=> Len(sizing') > 0
    BY <1>2, <1>3, <1>4, <1>5
  <2> QED
    BY <2>1, <2>2, <2>3 DEF SizingInv
<1>12. WritingInv'
  <2>1. CASE n > 1
    BY <1>2, <1>3, <1>7, <2>1 DEF WritingInv
  <2>2. CASE n = 1
    <3>1. Entries(k)' = Entries(k) /\ Entries(k) \in Seq(Pairs)
      BY <1>2, <1>4, KeyStable, EntryType DEF KeyOK, EncoderInv, TypeOK
    <3>2. writing' = <<[key |-> k, i |-> 0, base |-> 0]>> /\ phase' = "writing"
      BY <1>3, <2>2
    <3> QED
      BY <1>6, <3>1, <3>2 DEF WritingInv
  <2> QED
    BY <1>4, <2>1, <2>2
<1> QED
  BY <1>9, <1>10, <1>11, <1>12 DEF EncoderInv

(* An outcome other than a string carries no bytes. *)
LEMMA OutcomeType ==
    ASSUME NEW kind
    PROVE  Outcome(kind).kind = kind /\ Outcome(kind).bytes \in Seq(Byte)
BY DEF Outcome

(* An error ends the sizing pass. *)
LEMMA SizeFailInv ==
    ASSUME EncoderInv, SizeFail
    PROVE  EncoderInv'
<1>1. /\ phase = "sizing" /\ sizing' = <<>> /\ phase' \in {"idle", "dead"}
      /\ UNCHANGED <<call, memo, mSize, out, writing, leaked>>
  BY DEF SizeFail, SizeIterating
<1>2. TypeOK'
  <2>1. ret'.kind \in {"raise", "abort", "undefined"} /\ ret'.bytes \in Seq(Byte)
    BY OutcomeType DEF SizeFail
  <2> QED
    BY <1>1, <2>1 DEF EncoderInv, TypeOK
<1>3. MemoInv'
  BY <1>1, MemoStable DEF EncoderInv
<1>4. SizingInv'
  BY <1>1 DEF SizingInv
<1>5. WritingInv'
  BY <1>1 DEF EncoderInv, WritingInv, TypeOK, Entries
<1> QED
  BY <1>2, <1>3, <1>4, <1>5 DEF EncoderInv

(* A call starts from nothing. *)
LEMMA EncodeInv ==
    ASSUME EncoderInv, NEW c \in Calls, Encode(c)
    PROVE  EncoderInv'
<1>1. /\ phase = "idle" /\ call' = c /\ memo' = NoMemo /\ mSize' = 0 /\ out' = <<>>
      /\ writing' = <<>> /\ leaked' = leaked /\ sizing = <<>>
  BY DEF Encode, EncoderInv, TypeOK, SizingInv
<1>2. CASE c.name \in Registered /\ c.arg.lua = "table"
  <2>1. phase' = "sizing" /\ sizing' = <<[key |-> RootKey(c), sums |-> <<0>>]>>
        /\ ret' = Outcome("none")
    BY <1>2 DEF Encode
  <2>2. PICK k : k = RootKey(c)
    OBVIOUS
  <2>3. k \in Keys /\ k.node \in DOMAIN c.tab /\ k.field = NoField
    BY <1>2, <2>2, CallsAssumption, RegisteredAssumption DEF RootKey, Keys
  <2>4. KeyOK(k)'
    BY <1>1, <2>3 DEF KeyOK, IsMsgFrame
  <2>5. Entries(k)' \in Seq(Pairs)
    BY <1>1, <2>3, CallsAssumption DEF Entries
  <2>6. Measured(k, <<0>>)'
    BY <2>5 DEF Measured
  <2>7. TypeOK'
    BY <1>1, <2>1, <2>2, <2>3 DEF EncoderInv, TypeOK, SizeFrames, NoMemo, Outcome
  <2>8. SizingInv'
    BY <1>1, <2>1, <2>2, <2>4, <2>6 DEF SizingInv, NoMemo
  <2> QED
    BY <1>1, <2>1, <2>7, <2>8 DEF EncoderInv, MemoInv, WritingInv, NoMemo
<1>3. CASE ~(c.name \in Registered /\ c.arg.lua = "table")
  <2>1. /\ phase' \in {"idle", "dead"} /\ sizing' = <<>>
        /\ ret' \in {Outcome("raise"), Outcome("nil"), Outcome("undefined")}
    BY <1>1, <1>3 DEF Encode
  <2>2. ret'.kind \in {"raise", "nil", "undefined"} /\ ret'.bytes \in Seq(Byte)
    BY <2>1, OutcomeType
  <2>3. TypeOK'
    BY <1>1, <2>1, <2>2 DEF EncoderInv, TypeOK, NoMemo
  <2> QED
    BY <1>1, <2>1, <2>3 DEF EncoderInv, MemoInv, SizingInv, WritingInv, NoMemo
<1> QED
  BY <1>2, <1>3

-----------------------------------------------------------------------------
(* The frame RawEncode is in. *)
LEMMA WriteTopType ==
    ASSUME EncoderInv, phase = "writing"
    PROVE  /\ Len(writing) \in Nat /\ Len(writing) > 0 /\ WriteTop = writing[Len(writing)]
           /\ WriteTop \in WriteFrames /\ WriteTop.i \in Nat /\ WriteTop.base \in Nat
           /\ WriteKey \in DOMAIN memo /\ KeyOK(WriteKey)
           /\ Entries(WriteKey) \in Seq(Pairs) /\ WriteTop.i <= Len(Entries(WriteKey))
<1>1. writing \in Seq(WriteFrames) /\ Len(writing) > 0 /\ Len(writing) \in Nat
  BY DEF EncoderInv, TypeOK, WritingInv
<1>2. WriteTop = writing[Len(writing)] /\ WriteTop \in WriteFrames
  BY <1>1 DEF WriteTop, Last
<1>3. WriteTop.i \in Nat /\ WriteTop.base \in Nat
  BY <1>2 DEF WriteFrames
<1>4. WriteKey \in DOMAIN memo /\ WriteTop.i <= Len(Entries(WriteKey))
  BY <1>1, <1>2 DEF EncoderInv, WritingInv, WriteKey
<1>5. KeyOK(WriteKey)
  BY <1>4 DEF EncoderInv, MemoInv
<1>6. Entries(WriteKey) \in Seq(Pairs)
  BY <1>5, EntryType DEF KeyOK, EncoderInv, TypeOK
<1> QED
  BY <1>1, <1>2, <1>3, <1>4, <1>5, <1>6

(* The entry its loop is at was measured: nothing about it fails any more, *)
(* and the table it holds was measured too.                                *)
LEMMA WriteEntryType ==
    ASSUME EncoderInv, WriteIterating
    PROVE  /\ IsLuaValue(WriteEntry.val) /\ ~Fails(WriteKey, WriteEntry)
           /\ HasChild(WriteKey, WriteEntry) => Child(WriteKey, WriteEntry) \in DOMAIN memo
           /\ memo[WriteKey][WriteTop.i + 2] =
                 memo[WriteKey][WriteTop.i + 1] + Contribution(WriteKey, WriteEntry)
<1>1. PICK k, i, e : k = WriteKey /\ i = WriteTop.i + 1 /\ e = WriteEntry
  OBVIOUS
<1>2. /\ phase = "writing" /\ k \in DOMAIN memo /\ KeyOK(k) /\ Entries(k) \in Seq(Pairs)
      /\ WriteTop.i \in Nat /\ i \in 1..Len(Entries(k)) /\ e = Entries(k)[i]
  BY <1>1, WriteTopType DEF WriteIterating, WriteEntry
<1>3. Measured(k, memo[k]) /\ Len(memo[k]) = Len(Entries(k)) + 1
  BY <1>2 DEF EncoderInv, MemoInv
<1>4. i \in 1..(Len(memo[k]) - 1) /\ WriteTop.i + 2 = i + 1
  BY <1>1, <1>2, <1>3
<1>5. /\ ~Fails(k, e)
      /\ HasChild(k, e) => Child(k, e) \in DOMAIN memo
      /\ memo[k][i + 1] = memo[k][i] + Contribution(k, e)
  BY <1>2, <1>3, <1>4 DEF Measured
<1>6. IsLuaValue(e.val)
  BY <1>2, EntryType DEF EncoderInv, TypeOK, KeyOK
<1> QED
  BY <1>1, <1>4, <1>5, <1>6

(* The frames after the loop has moved on. *)
LEMMA AdvancedType ==
    ASSUME EncoderInv, WriteIterating
    PROVE  /\ Advanced \in Seq(WriteFrames) /\ Len(Advanced) = Len(writing)
           /\ Advanced[Len(writing)] =
                 [key |-> WriteKey, i |-> WriteTop.i + 1, base |-> WriteTop.base]
           /\ \A j \in 1..Len(writing) :
                /\ j # Len(writing) => Advanced[j] = writing[j]
                /\ Advanced[j].key = writing[j].key /\ Advanced[j].base = writing[j].base
                /\ Advanced[j].key \in DOMAIN memo /\ Advanced[j].i <= Len(Entries(Advanced[j].key))
<1>1. PICK f, n : f = [key |-> WriteKey, i |-> WriteTop.i + 1, base |-> WriteTop.base]
                  /\ n = Len(writing)
  OBVIOUS
<1>2. phase = "writing"
  BY DEF WriteIterating
<1>3. f \in WriteFrames
  BY <1>1, <1>2, WriteTopType DEF WriteFrames, WriteKey
<1>4. writing \in Seq(WriteFrames) /\ n \in Nat /\ n > 0 /\ WriteTop = writing[n]
  BY <1>1, <1>2, WriteTopType DEF EncoderInv, TypeOK
<1>5. Advanced = [writing EXCEPT ![n] = f]
  BY <1>1 DEF Advanced
<1>6. /\ Advanced \in Seq(WriteFrames) /\ Len(Advanced) = n /\ Advanced[n] = f
      /\ \A j \in 1..n : j # n => Advanced[j] = writing[j]
  BY <1>1, <1>3, <1>4, <1>5
<1>7. f.key = WriteKey /\ f.base = WriteTop.base /\ f.i = WriteTop.i + 1
  BY <1>1
<1>8. f.i <= Len(Entries(f.key)) /\ f.key \in DOMAIN memo
  BY <1>2, <1>7, WriteTopType DEF WriteIterating
<1>9. \A j \in 1..n : writing[j].key \in DOMAIN memo /\ writing[j].i <= Len(Entries(writing[j].key))
  BY <1>1 DEF EncoderInv, WritingInv
<1> QED
  BY <1>1, <1>4, <1>6, <1>7, <1>8, <1>9 DEF WriteKey

(* RawEncode keeps its frames on measured tables and writes bytes.         *)
LEMMA WriteStepInv ==
    ASSUME EncoderInv, WriteStep
    PROVE  EncoderInv'
<1>1. phase = "writing" /\ UNCHANGED <<call, sizing, memo, mSize>>
  BY DEF WriteStep, WriteAdd, WriteEnter, WriteFail, WriteCrash, WriteReturn, EncodeReturn,
         WriteIterating
<1>2. MemoInv'
  BY <1>1, MemoStable DEF EncoderInv
<1>3. sizing' = <<>> /\ sizing = <<>>
  BY <1>1 DEF EncoderInv, SizingInv, TypeOK
<1>4. SUFFICES ASSUME phase' # "sizing"
               PROVE  TypeOK' /\ WritingInv'
  <2>1. phase' # "sizing"
    BY <1>1 DEF WriteStep, WriteAdd, WriteEnter, WriteFail, WriteCrash, WriteReturn, EncodeReturn
  <2>2. SizingInv'
    BY <1>3, <2>1 DEF SizingInv
  <2> QED
    BY <1>2, <2>1, <2>2 DEF EncoderInv
<1>5. CASE WriteAdd
  <2>1. WriteIterating /\ writing' = Advanced /\ UNCHANGED <<phase, leaked, ret>>
    BY <1>5 DEF WriteAdd
  <2>2. out' \in Seq(Byte)
    <3>1. CASE IsSkipped(WriteKey, WriteEntry) /\ UNCHANGED out
      BY <3>1 DEF EncoderInv, TypeOK
    <3>2. CASE /\ IsScalar(WriteKey, WriteEntry)
               /\ out' = out \o WriteValue(Fd(WriteKey, WriteEntry), WriteEntry.val)
      <4>1. WriteValue(Fd(WriteKey, WriteEntry), WriteEntry.val) \in Seq(Byte)
        BY <1>1, <2>1, <3>2, WriteTopType, WriteEntryType, FdType, WriteValueLen DEF IsScalar
      <4> QED
        BY <3>2, <4>1, ConcatLen DEF EncoderInv, TypeOK
    <3> QED
      BY <1>5, <3>1, <3>2 DEF WriteAdd
  <2>3. TypeOK'
    BY <1>1, <2>1, <2>2, AdvancedType DEF EncoderInv, TypeOK
  <2>4. WritingInv'
    BY <1>1, <2>1, WriteTopType, AdvancedType DEF WritingInv, Entries
  <2> QED
    BY <2>3, <2>4
<1>6. CASE WriteEnter
  <2>1. PICK c, m : c = Child(WriteKey, WriteEntry) /\ m = Len(out')
    OBVIOUS
  <2>2. /\ WriteIterating /\ HasChild(WriteKey, WriteEntry)
        /\ writing' = Append(Advanced, [key |-> c, i |-> 0, base |-> m])
        /\ UNCHANGED <<phase, leaked, ret>>
    BY <1>6, <2>1 DEF WriteEnter
  <2>3. c \in DOMAIN memo
    BY <2>1, <2>2, WriteEntryType
  <2>4. out' \in Seq(Byte) /\ m \in Nat
    <3>1. CASE IsList(WriteKey, WriteEntry)
      BY <1>6, <2>1, <3>1 DEF WriteEnter, EncoderInv, TypeOK
    <3>2. CASE IsMessage(WriteKey, WriteEntry)
      <4>1. out' = out \o WriteMessageHead(Fd(WriteKey, WriteEntry).number, Total(c))
        BY <1>6, <2>1, <3>2 DEF WriteEnter, IsMessage, HeadLength
      <4>2. Total(c) \in Nat
        BY <2>3, TotalType DEF EncoderInv
      <4>3. Fd(WriteKey, WriteEntry).number \in Nat
        BY <1>1, <3>2, WriteTopType, FdType DEF IsMessage, IsFieldDescriptor
      <4>4. WriteMessageHead(Fd(WriteKey, WriteEntry).number, Total(c)) \in Seq(Byte)
        BY <4>2, <4>3, HeadLen
      <4>5. out' \in Seq(Byte)
        BY <4>1, <4>4, ConcatLen DEF EncoderInv, TypeOK
      <4> QED
        BY <2>1, <4>5
    <3> QED
      BY <2>2, <3>1, <3>2 DEF HasChild
  <2>5. PICK f : f = [key |-> c, i |-> 0, base |-> m]
    OBVIOUS
  <2>6. f \in WriteFrames
    BY <2>3, <2>4, <2>5 DEF EncoderInv, TypeOK, WriteFrames
  <2>7. writing' \in Seq(WriteFrames) /\ Len(writing') = Len(writing) + 1
        /\ writing'[Len(writing) + 1] = f
        /\ \A j \in 1..Len(writing) : writing'[j] = Advanced[j]
    BY <1>1, <2>2, <2>5, <2>6, AdvancedType, WriteTopType
  <2>8. TypeOK'
    BY <1>1, <2>2, <2>4, <2>7 DEF EncoderInv, TypeOK
  <2>9. Entries(c) \in Seq(Pairs)
    BY <2>3, EntryType DEF EncoderInv, TypeOK, MemoInv, KeyOK
  <2>10. WritingInv'
    <3>1. ASSUME NEW j \in 1..Len(writing')
          PROVE  writing'[j].key \in DOMAIN memo'
                 /\ writing'[j].i <= Len(call.tab[writing'[j].key.node])
      <4>1. CASE j = Len(writing) + 1
        BY <1>1, <2>3, <2>5, <2>7, <2>9, <4>1 DEF Entries
      <4>2. CASE j \in 1..Len(writing)
        BY <1>1, <2>2, <2>7, <4>2, AdvancedType DEF Entries
      <4> QED
        BY <1>1, <2>7, <4>1, <4>2, WriteTopType
    <3> QED
      BY <1>1, <2>2, <2>7, <3>1, WriteTopType DEF WritingInv, Entries
  <2> QED
    BY <2>8, <2>10
<1>7. CASE WriteFail \/ WriteCrash
  <2>1. /\ phase' \in {"idle", "dead"} /\ writing' = <<>> /\ out' = out /\ leaked' \in BOOLEAN
        /\ ret' \in {Outcome("raise"), Outcome("undefined")}
    BY <1>7 DEF WriteFail, WriteCrash, EncoderInv, TypeOK
  <2>2. ret'.kind \in {"raise", "undefined"} /\ ret'.bytes \in Seq(Byte)
    BY <2>1, OutcomeType
  <2> QED
    BY <1>1, <2>1, <2>2 DEF EncoderInv, TypeOK, WritingInv
<1>8. CASE WriteReturn
  <2>1. /\ Len(writing) > 1 /\ writing' = SubSeq(writing, 1, Len(writing) - 1)
        /\ UNCHANGED <<phase, out, leaked, ret>>
    BY <1>8 DEF WriteReturn, Front
  <2>2. writing \in Seq(WriteFrames)
    BY DEF EncoderInv, TypeOK
  <2>3. /\ writing' \in Seq(WriteFrames) /\ Len(writing') = Len(writing) - 1
        /\ \A j \in 1..Len(writing') : j \in 1..Len(writing) /\ writing'[j] = writing[j]
    BY <2>1, <2>2
  <2> QED
    BY <1>1, <2>1, <2>2, <2>3 DEF EncoderInv, TypeOK, WritingInv, Entries
<1>9. CASE EncodeReturn
  <2>1. PICK g \in Garbage : ret' = [kind |-> "string", bytes |-> Pushed(g)]
    BY <1>9 DEF EncodeReturn
  <2>2. phase' = "idle" /\ writing' = <<>> /\ UNCHANGED <<out, leaked>>
    BY <1>9 DEF EncodeReturn
  <2>3. Pushed(g) \in Seq(Byte)
    <3>1. g \in Byte /\ mSize \in Nat /\ out \in Seq(Byte)
      BY GarbageAssumption DEF EncoderInv, TypeOK
    <3>2. Pushed(g) \in [1..mSize -> Byte]
      BY <3>1 DEF Pushed
    <3> QED
      BY <3>1, <3>2
  <2> QED
    BY <1>1, <2>1, <2>2, <2>3 DEF EncoderInv, TypeOK, WritingInv
<1> QED
  BY <1>5, <1>6, <1>7, <1>8, <1>9 DEF WriteStep

-----------------------------------------------------------------------------
(* The invariant of both passes holds before the first call ... *)
LEMMA EncoderInvInit == Init => EncoderInv
<1> SUFFICES ASSUME Init PROVE EncoderInv
  OBVIOUS
<1>1. ret.kind = "none" /\ ret.bytes \in Seq(Byte)
  BY OutcomeType DEF Init
<1>2. DOMAIN memo = {} /\ memo \in [DOMAIN memo -> Seq(Nat)]
  BY DEF Init, NoMemo
<1>3. TypeOK
  <2>1. leaked \in BOOLEAN
    BY DEF Init
  <2>2. /\ phase = "idle" /\ call \in Calls /\ sizing = <<>> /\ mSize = 0 /\ out = <<>>
        /\ writing = <<>>
    BY DEF Init
  <2> QED
    BY <1>1, <1>2, <2>1, <2>2 DEF TypeOK
<1>4. MemoInv
  BY <1>2 DEF MemoInv
<1>5. SizingInv /\ WritingInv
  BY DEF Init, SizingInv, WritingInv
<1> QED
  BY <1>3, <1>4, <1>5 DEF EncoderInv

(* ... and every step of a call keeps it. *)
LEMMA EncoderInvNext ==
    ASSUME EncoderInv, [Next]_vars
    PROVE  EncoderInv'
<1>1. CASE \E c \in Calls : Encode(c)
  BY <1>1, EncodeInv
<1>2. CASE SizeStep
  BY <1>2, SizeEnterInv, SizeAddInv, SizeFailInv, SizeReturnInv DEF SizeStep
<1>3. CASE WriteStep
  BY <1>3, WriteStepInv
<1>4. CASE UNCHANGED vars
  <2>1. UNCHANGED <<phase, call, sizing, memo, mSize, out, writing, leaked, ret>>
    BY <1>4 DEF vars
  <2>2. TypeOK' /\ MemoInv' /\ WritingInv'
    BY <2>1, MemoStable DEF EncoderInv, TypeOK, WritingInv, Entries
  <2>3. SizingInv'
    <3>1. ASSUME NEW j \in 1..Len(sizing)
          PROVE  KeyOK(sizing[j].key)' /\ Measured(sizing[j].key, sizing[j].sums)'
      <4>1. PICK f : f = sizing[j]
        OBVIOUS
      <4>2. KeyOK(f.key) /\ Measured(f.key, f.sums)
        BY <4>1 DEF EncoderInv, SizingInv
      <4>3. KeyOK(f.key)' /\ Measured(f.key, f.sums)'
        BY <2>1, <4>2, KeyStable, MeasuredStable
      <4> QED
        BY <2>1, <4>1, <4>3
    <3> QED
      BY <2>1, <3>1 DEF EncoderInv, SizingInv
  <2> QED
    BY <2>2, <2>3 DEF EncoderInv
<1> QED
  BY <1>1, <1>2, <1>3, <1>4 DEF Next

(***************************************************************************)
(* The types of the two passes: sizes are natural numbers, what is written *)
(* is bytes, and the frames are on tables of the call (Encoder.cpp 7-89,   *)
(* ByteSize.cpp 5-74).                                                     *)
(***************************************************************************)
THEOREM EncoderTypeCorrect == Spec => []TypeOK
<1>1. Init => EncoderInv
  BY EncoderInvInit
<1>2. EncoderInv /\ [Next]_vars => EncoderInv'
  BY EncoderInvNext
<1>3. EncoderInv => TypeOK
  BY DEF EncoderInv
<1> QED
  BY <1>1, <1>2, <1>3, PTL DEF Spec

(***************************************************************************)
(* A PBStream leaks only through a float field: RawByteSize has raised     *)
(* every other conversion error before the stream exists (Encoder.cpp      *)
(* 80-84).                                                                 *)
(***************************************************************************)
THEOREM OnlyFloatsLeak == Spec => LeaksAreFloats
<1>1. Init => EncoderInv
  BY EncoderInvInit
<1>2. EncoderInv /\ [Next]_vars => EncoderInv'
  BY EncoderInvNext
<1>3. ASSUME EncoderInv, [Next]_vars
      PROVE  [leaked' # leaked => Fd(WriteKey, WriteEntry).type = "float"]_vars
  <2>1. SUFFICES ASSUME Next, leaked' # leaked
                 PROVE  Fd(WriteKey, WriteEntry).type = "float"
    BY <1>3 DEF vars
  <2>2. WriteFail
    BY <2>1 DEF Next, Encode, SizeStep, SizeEnter, SizeAdd, SizeFail, SizeReturn,
        WriteStep, WriteAdd, WriteEnter, WriteCrash, WriteReturn, EncodeReturn
  <2>3. WriteIterating /\ IsScalar(WriteKey, WriteEntry)
        /\ WriteValueRaises(Fd(WriteKey, WriteEntry), WriteEntry.val)
    BY <2>2 DEF WriteFail
  <2>4. ~FieldSizeRaises(Fd(WriteKey, WriteEntry), WriteEntry.val)
    BY <1>3, <2>3, WriteEntryType DEF Fails, Raises
  <2> QED
    BY <2>3, <2>4, LateRaiseIsFloat
<1> QED
  BY <1>1, <1>2, <1>3, PTL DEF Spec, LeaksAreFloats

-----------------------------------------------------------------------------
(* For a clean entry, what RawEncode appends for it and what it writes for *)
(* the entries below it are together what RawByteSize counted.             *)
LEMMA CleanEntryLen ==
    ASSUME TypeOK, MemoInv, NEW k, KeyOK(k), NEW e, IsLuaValue(e.val), ~Fails(k, e),
           IsCleanEntry(k, e), HasChild(k, e) => Child(k, e) \in DOMAIN memo
    PROVE  /\ IsSkipped(k, e) => Contribution(k, e) = 0
           /\ IsScalar(k, e) => Len(WriteValue(Fd(k, e), e.val)) = Contribution(k, e)
           /\ IsList(k, e) => Contribution(k, e) = Total(Child(k, e))
           /\ IsMessage(k, e) =>
                Len(WriteMessageHead(Fd(k, e).number, Total(Child(k, e)))) + Total(Child(k, e))
                    = Contribution(k, e)
<1>1. IsSkipped(k, e) => Contribution(k, e) = 0
  BY DEF Contribution
<1>2. IsField(k, e) => ~IsSkipped(k, e)
  BY DEF IsField, IsSkipped
<1>3. ASSUME IsScalar(k, e)
      PROVE  Len(WriteValue(Fd(k, e), e.val)) = Contribution(k, e)
  <2>1. Len(WriteValue(Fd(k, e), e.val)) = TagSize(Fd(k, e).number) + FieldSize(Fd(k, e), e.val)
    BY <1>3, FdType, WriteValueLen DEF IsScalar, IsCleanEntry
  <2> QED
    BY <1>2, <1>3, <2>1 DEF Contribution, IsScalar
<1>4. ASSUME IsList(k, e)
      PROVE  Contribution(k, e) = Total(Child(k, e))
  BY <1>2, <1>4 DEF Contribution, IsList
<1>5. ASSUME IsMessage(k, e)
      PROVE  Len(WriteMessageHead(Fd(k, e).number, Total(Child(k, e)))) + Total(Child(k, e))
                 = Contribution(k, e)
  <2>1. Total(Child(k, e)) \in Nat
    BY <1>5, TotalType DEF HasChild
  <2>2. Fd(k, e).number \in Nat /\ TagSize(Fd(k, e).number) \in Nat
    BY <1>5, FdType, FieldSizeType DEF IsMessage, IsFieldDescriptor
  <2>3. Len(WriteMessageHead(Fd(k, e).number, Total(Child(k, e))))
            = TagSize(Fd(k, e).number) + VarintSize32(Total(Child(k, e)))
    BY <2>1, <2>2, HeadLen
  <2>4. VarintSize32(Total(Child(k, e))) \in Nat
    BY <2>1, VarintSize32Type
  <2>5. Contribution(k, e) = TagSize(Fd(k, e).number)
            + (VarintSize32(Total(Child(k, e))) + Total(Child(k, e)))
    BY <1>2, <1>5 DEF Contribution, IsMessage, IsScalar, IsCleanEntry
  <2> QED
    BY <2>1, <2>2, <2>3, <2>4, <2>5
<1> QED
  BY <1>1, <1>3, <1>4, <1>5

(* Cleanness is fixed once the table is measured. *)
LEMMA CleanStable ==
    ASSUME call' = call, memo' = memo
    PROVE  Clean' <=> Clean
BY DEF Clean, Entries, IsCleanEntry, IsMessage, IsScalar, IsList, IsField, IsMsgFrame, Fd

(* The sums of a measured table grow from 0 to its total. *)
LEMMA SumsOrdered ==
    ASSUME EncoderInv, NEW k \in DOMAIN memo, NEW i \in Nat, i <= Len(Entries(k))
    PROVE  /\ memo[k][i + 1] \in Nat /\ memo[k][i + 1] <= Total(k)
           /\ memo[k][1] = 0 /\ Total(k) \in Nat
           /\ i = Len(Entries(k)) => memo[k][i + 1] = Total(k)
<1>1. /\ Total(k) \in Nat /\ memo[k] \in Seq(Nat) /\ Total(k) = memo[k][Len(Entries(k)) + 1]
  BY TotalType DEF EncoderInv
<1>2. Measured(k, memo[k]) /\ Len(memo[k]) = Len(Entries(k)) + 1 /\ KeyOK(k)
  BY DEF EncoderInv, MemoInv
<1>3. Entries(k) \in Seq(Pairs)
  BY <1>2, EntryType DEF KeyOK, EncoderInv, TypeOK
<1>4. i + 1 \in 1..Len(memo[k]) /\ Len(memo[k]) \in 1..Len(memo[k])
  BY <1>2, <1>3
<1>5. memo[k][i + 1] <= memo[k][Len(memo[k])] /\ memo[k][1] = 0
  BY <1>2, <1>4 DEF Measured
<1> QED
  BY <1>1, <1>2, <1>4, <1>5

(* The state of the writing pass, frame by frame, for the steps below.     *)
LEMMA LayoutFrames ==
    ASSUME EncoderInv, FilledInv, Writing, Clean
    PROVE  \A j \in 1..Len(writing) :
             /\ writing[j] \in WriteFrames /\ writing[j].key \in DOMAIN memo
             /\ Pos(writing[j]) \in Nat /\ End(writing[j]) \in Nat
             /\ Pos(writing[j]) <= End(writing[j]) /\ End(writing[j]) <= mSize
<1> SUFFICES ASSUME NEW j \in 1..Len(writing)
             PROVE  /\ writing[j] \in WriteFrames /\ writing[j].key \in DOMAIN memo
                    /\ Pos(writing[j]) \in Nat /\ End(writing[j]) \in Nat
                    /\ Pos(writing[j]) <= End(writing[j]) /\ End(writing[j]) <= mSize
  OBVIOUS
<1>1. /\ writing[j] \in WriteFrames /\ writing[j].key \in DOMAIN memo
      /\ writing[j].i <= Len(Entries(writing[j].key))
  BY DEF EncoderInv, TypeOK, WritingInv
<1>2. writing[j].i \in Nat /\ writing[j].base \in Nat
  BY <1>1 DEF WriteFrames
<1>3. PICK k, i : k = writing[j].key /\ i = writing[j].i
  OBVIOUS
<1>4. memo[k][i + 1] \in Nat /\ memo[k][i + 1] <= Total(k) /\ Total(k) \in Nat
  BY <1>1, <1>2, <1>3, SumsOrdered
<1>5. End(writing[j]) <= mSize
  BY DEF FilledInv, LayoutInv, Layout
<1> QED
  BY <1>1, <1>2, <1>3, <1>4, <1>5 DEF Pos, End

(* An entry written: mPointer and the frame move on together. *)
LEMMA WriteAddLayout ==
    ASSUME EncoderInv, FilledInv, Clean, WriteAdd
    PROVE  Layout'
<1>1. PICK k, e, n, d : /\ k = WriteKey /\ e = WriteEntry /\ n = Len(writing)
                        /\ d = Contribution(k, e)
  OBVIOUS
<1>2. phase = "writing" /\ WriteIterating /\ writing' = Advanced /\ UNCHANGED <<call, memo, mSize>>
  BY DEF WriteAdd, WriteIterating
<1>3. /\ n \in Nat /\ n > 0 /\ WriteTop = writing[n] /\ k \in DOMAIN memo /\ KeyOK(k)
      /\ WriteTop.i \in Nat /\ WriteTop.base \in Nat /\ WriteTop.key = k
      /\ Entries(k) \in Seq(Pairs)
  BY <1>1, <1>2, WriteTopType DEF WriteKey
<1>4. Layout
  BY <1>2 DEF FilledInv, LayoutInv, Writing
<1>5. /\ Len(writing') = n
      /\ writing'[n] = [key |-> k, i |-> WriteTop.i + 1, base |-> WriteTop.base]
      /\ \A j \in 1..n : /\ j # n => writing'[j] = writing[j]
                         /\ writing'[j].key = writing[j].key /\ writing'[j].base = writing[j].base
  BY <1>1, <1>2, AdvancedType
<1>6. /\ IsLuaValue(e.val) /\ ~Fails(k, e)
      /\ HasChild(k, e) => Child(k, e) \in DOMAIN memo
      /\ memo[k][WriteTop.i + 2] = memo[k][WriteTop.i + 1] + d
  BY <1>1, <1>2, WriteEntryType
<1>7. IsCleanEntry(k, e)
  BY <1>1, <1>2, <1>3 DEF Clean, WriteIterating, WriteEntry
<1>8. Len(out') = Len(out) + d /\ Len(out) \in Nat
  <2>1. out \in Seq(Byte)
    BY DEF EncoderInv, TypeOK
  <2>2. CASE IsSkipped(k, e) /\ UNCHANGED out
    BY <1>1, <1>3, <1>6, <1>7, <2>1, <2>2, CleanEntryLen DEF EncoderInv
  <2>3. CASE IsScalar(k, e) /\ out' = out \o WriteValue(Fd(k, e), e.val)
    <3>1. WriteValue(Fd(k, e), e.val) \in Seq(Byte)
      BY <1>3, <1>6, <2>3, FdType, WriteValueLen DEF IsScalar
    <3>2. Len(WriteValue(Fd(k, e), e.val)) = d
      BY <1>1, <1>3, <1>6, <1>7, <2>3, CleanEntryLen DEF EncoderInv
    <3>3. Len(out \o WriteValue(Fd(k, e), e.val)) = Len(out) + Len(WriteValue(Fd(k, e), e.val))
      BY <2>1, <3>1, ConcatLen
    <3>4. out' = out \o WriteValue(Fd(k, e), e.val) /\ Len(out) \in Nat
      BY <2>1, <2>3
    <3> QED
      BY <3>2, <3>3, <3>4
  <2> QED
    BY <1>1, <2>2, <2>3 DEF WriteAdd
<1>9. d \in Nat
  BY <1>1, <1>3, <1>6, ContributionType DEF EncoderInv
<1>10. \A j \in 1..n : End(writing[j])' = End(writing[j])
  BY <1>2, <1>5 DEF End, Total
<1>11. \A j \in 1..n : j # n => Pos(writing[j])' = Pos(writing[j])
  BY <1>2, <1>5 DEF Pos
<1>12. Pos(writing[n])' = Pos(writing[n]) + d
  <2>1. memo[k][WriteTop.i + 1] \in Nat
    BY <1>2, <1>3, SumsOrdered DEF WriteIterating, WriteKey
  <2>2. Pos(writing[n]) = WriteTop.base + memo[k][WriteTop.i + 1]
    BY <1>3 DEF Pos
  <2>3. Pos(writing[n])' = WriteTop.base + memo[k][WriteTop.i + 2]
    <3>1. (WriteTop.i + 1) + 1 = WriteTop.i + 2
      BY <1>3
    <3> QED
      BY <1>2, <1>5, <3>1 DEF Pos
  <2> QED
    BY <1>3, <1>6, <1>9, <2>1, <2>2, <2>3
<1> QED
  BY <1>1, <1>2, <1>3, <1>4, <1>5, <1>8, <1>10, <1>11, <1>12 DEF Layout

(* A nested frame: it will end where the one below it continues. *)
LEMMA WriteEnterLayout ==
    ASSUME EncoderInv, FilledInv, Clean, WriteEnter
    PROVE  Layout'
<1>1. PICK k, e, n, d, c, m, i, b :
          /\ k = WriteKey /\ e = WriteEntry /\ n = Len(writing) /\ d = Contribution(k, e)
          /\ c = Child(k, e) /\ m = Len(out') /\ i = WriteTop.i /\ b = WriteTop.base
  OBVIOUS
<1>2. /\ phase = "writing" /\ WriteIterating /\ HasChild(k, e) /\ UNCHANGED <<call, memo, mSize>>
      /\ writing' = Append(Advanced, [key |-> c, i |-> 0, base |-> m])
  BY <1>1 DEF WriteEnter, WriteIterating
<1>3. /\ n \in Nat /\ n > 0 /\ WriteTop = writing[n] /\ k \in DOMAIN memo /\ KeyOK(k)
      /\ i \in Nat /\ b \in Nat /\ WriteTop.key = k /\ WriteTop.i = i /\ WriteTop.base = b
      /\ Entries(k) \in Seq(Pairs) /\ i < Len(Entries(k))
  BY <1>1, <1>2, WriteTopType DEF WriteKey, WriteIterating
<1>4. Layout
  BY <1>2 DEF FilledInv, LayoutInv, Writing
<1>5. /\ Len(writing') = n + 1
      /\ writing'[n + 1] = [key |-> c, i |-> 0, base |-> m]
      /\ writing'[n] = [key |-> k, i |-> i + 1, base |-> b]
      /\ \A j \in 1..n : /\ j # n => writing'[j] = writing[j]
                         /\ writing'[j].key = writing[j].key /\ writing'[j].base = writing[j].base
  <2>1. Advanced \in Seq(WriteFrames) /\ Len(Advanced) = n
    BY <1>1, <1>2, AdvancedType
  <2>2. Len(writing') = n + 1 /\ writing'[n + 1] = [key |-> c, i |-> 0, base |-> m]
        /\ \A j \in 1..n : writing'[j] = Advanced[j]
    BY <1>2, <1>3, <2>1
  <2>3. Advanced[n] = [key |-> k, i |-> i + 1, base |-> b]
    BY <1>1, <1>2, AdvancedType
  <2>4. \A j \in 1..n : /\ j # n => Advanced[j] = writing[j]
                        /\ Advanced[j].key = writing[j].key /\ Advanced[j].base = writing[j].base
    BY <1>1, <1>2, AdvancedType
  <2>5. writing'[n] = Advanced[n]
    BY <1>3, <2>2
  <2> QED
    BY <2>2, <2>3, <2>4, <2>5
<1>6. /\ IsLuaValue(e.val) /\ ~Fails(k, e) /\ c \in DOMAIN memo
      /\ memo[k][i + 2] = memo[k][i + 1] + d
  BY <1>1, <1>2, WriteEntryType
<1>7. IsCleanEntry(k, e)
  <2>1. i + 1 \in 1..Len(Entries(k)) /\ e = Entries(k)[i + 1]
    BY <1>1, <1>3 DEF WriteEntry
  <2> QED
    BY <1>3, <2>1 DEF Clean
<1>8. Total(c) \in Nat /\ memo[c][1] = 0 /\ d \in Nat
  <2>1. Entries(c) \in Seq(Pairs)
    BY <1>6, EntryType DEF EncoderInv, TypeOK, MemoInv, KeyOK
  <2>2. Total(c) \in Nat /\ memo[c][1] = 0
    BY <1>6, <2>1, SumsOrdered
  <2> QED
    BY <1>1, <1>3, <1>6, <2>2, ContributionType DEF EncoderInv
<1>9. m + Total(c) = Len(out) + d /\ Len(out) \in Nat /\ m \in Nat
  <2>1. out \in Seq(Byte) /\ Len(out) \in Nat
    BY DEF EncoderInv, TypeOK
  <2>2. CASE IsList(k, e)
    <3>1. out' = out /\ d = Total(c)
      BY <1>1, <1>3, <1>6, <1>7, <2>2, CleanEntryLen DEF EncoderInv, WriteEnter
    <3> QED
      BY <1>1, <2>1, <3>1
  <2>3. CASE IsMessage(k, e)
    <3> DEFINE head == WriteMessageHead(Fd(k, e).number, Total(c))
    <3>1. out' = out \o head
      BY <1>1, <2>3 DEF WriteEnter, IsMessage, HeadLength
    <3>2. Fd(k, e).number \in Nat
      BY <1>3, <2>3, FdType DEF IsMessage, IsFieldDescriptor
    <3>3. head \in Seq(Byte)
      BY <1>8, <3>2, HeadLen
    <3>4. Len(head) + Total(c) = d
      BY <1>1, <1>3, <1>6, <1>7, <2>3, CleanEntryLen DEF EncoderInv
    <3> HIDE DEF head
    <3>5. Len(out \o head) = Len(out) + Len(head) /\ Len(head) \in Nat
      BY <2>1, <3>3, ConcatLen
    <3> QED
      BY <1>1, <1>8, <2>1, <3>1, <3>4, <3>5
  <2> QED
    BY <1>2, <2>2, <2>3 DEF HasChild
<1>10. \A j \in 1..n : End(writing[j])' = End(writing[j])
  BY <1>2, <1>5 DEF End, Total
<1>11. \A j \in 1..n : j # n => Pos(writing[j])' = Pos(writing[j])
  BY <1>2, <1>5 DEF Pos
<1>12. /\ Pos(writing[n])' = Pos(writing[n]) + d
       /\ Pos(writing[n])' <= End(writing[n]) /\ Pos(writing[n]) \in Nat /\ End(writing[n]) \in Nat
  <2>1. PICK x, y : x = memo[k][i + 1] /\ y = memo[k][i + 2]
    OBVIOUS
  <2>2. (i + 1) + 1 = i + 2 /\ i + 1 \in Nat
    BY <1>3
  <2>3. x \in Nat /\ y = x + d /\ y \in Nat /\ y <= Total(k) /\ Total(k) \in Nat
    <3>1. x \in Nat /\ Total(k) \in Nat
      BY <1>3, <2>1, SumsOrdered
    <3>2. memo[k][(i + 1) + 1] \in Nat /\ memo[k][(i + 1) + 1] <= Total(k)
      BY <1>3, <2>2, SumsOrdered
    <3> QED
      BY <1>6, <2>1, <2>2, <3>1, <3>2
  <2>4. Pos(writing[n]) = b + x /\ End(writing[n]) = b + Total(k)
    BY <1>3, <2>1 DEF Pos, End
  <2>5. Pos(writing[n])' = b + y
    <3>1. (writing[n])' = [key |-> k, i |-> i + 1, base |-> b]
      BY <1>5
    <3>2. (writing[n])'.key = k /\ (writing[n])'.i = i + 1 /\ (writing[n])'.base = b
      BY <3>1
    <3> QED
      BY <1>2, <2>1, <2>2, <3>2 DEF Pos
  <2> QED
    BY <1>3, <1>8, <2>3, <2>4, <2>5
<1>13. End(writing[n + 1])' = m + Total(c) /\ Pos(writing[n + 1])' = m
  <2>1. End(writing[n + 1])' = m + Total(c)
    BY <1>2, <1>5 DEF End, Total
  <2>2. Pos(writing[n + 1])' = m + memo[c][1]
    BY <1>2, <1>5 DEF Pos
  <2> QED
    BY <1>8, <1>9, <2>1, <2>2
<1>14. Len(out) = Pos(writing[n]) /\ End(writing[n]) <= mSize /\ mSize \in Nat
  BY <1>1, <1>3, <1>4 DEF Layout, EncoderInv, TypeOK
<1>15. End(writing[n + 1])' = Pos(writing[n])' /\ End(writing[n + 1])' <= mSize'
  <2>1. End(writing[n + 1])' = Pos(writing[n])'
    BY <1>9, <1>12, <1>13, <1>14
  <2>2. Pos(writing[n])' <= mSize
    BY <1>8, <1>12, <1>14
  <2> QED
    BY <1>2, <2>1, <2>2
<1>16. (\A j \in 1..Len(writing) : End(writing[j]) <= mSize)'
  <2>1. ASSUME NEW j \in 1..(n + 1)
        PROVE  End(writing[j])' <= mSize'
    <3>1. CASE j = n + 1
      BY <1>15, <3>1
    <3>2. CASE j \in 1..n
      BY <1>1, <1>2, <1>4, <1>10, <3>2 DEF Layout
    <3> QED
      BY <1>3, <3>1, <3>2
  <2> QED
    BY <1>5, <2>1
<1>17. (\A j \in 1..(Len(writing) - 1) : End(writing[j + 1]) = Pos(writing[j]))'
  <2>1. ASSUME NEW j \in 1..n
        PROVE  End(writing[j + 1])' = Pos(writing[j])'
    <3>1. CASE j = n
      BY <1>15, <3>1
    <3>2. CASE j \in 1..(n - 1)
      BY <1>1, <1>3, <1>4, <1>10, <1>11, <3>2 DEF Layout
    <3> QED
      BY <1>3, <3>1, <3>2
  <2> QED
    BY <1>3, <1>5, <2>1
<1>18. (Len(out) = Pos(writing[Len(writing)]))'
  BY <1>1, <1>5, <1>13
<1>19. (End(writing[1]) = mSize)'
  BY <1>2, <1>3, <1>4, <1>10 DEF Layout
<1> QED
  BY <1>16, <1>17, <1>18, <1>19 DEF Layout

(* A frame returns where the one below it continues. *)
LEMMA WriteReturnLayout ==
    ASSUME EncoderInv, FilledInv, Clean, WriteReturn
    PROVE  Layout'
<1>1. PICK n : n = Len(writing)
  OBVIOUS
<1>2. /\ phase = "writing" /\ n > 1 /\ writing' = SubSeq(writing, 1, n - 1)
      /\ WriteTop.i = Len(Entries(WriteKey)) /\ UNCHANGED <<call, memo, mSize, out>>
  BY <1>1 DEF WriteReturn, Front
<1>3. n \in Nat /\ WriteTop = writing[n] /\ WriteKey \in DOMAIN memo /\ WriteTop.i \in Nat
  BY <1>1, <1>2, WriteTopType
<1>4. Len(writing') = n - 1 /\ \A j \in 1..(n - 1) : writing'[j] = writing[j]
  <2>1. writing \in Seq(WriteFrames)
    BY DEF EncoderInv, TypeOK
  <2> QED
    BY <1>1, <1>2, <1>3, <2>1
<1>5. Layout
  BY <1>2 DEF FilledInv, LayoutInv, Writing
<1>6. Pos(writing[n]) = End(writing[n])
  <2>1. memo[WriteKey][WriteTop.i + 1] = Total(WriteKey)
    BY <1>2, <1>3, SumsOrdered
  <2> QED
    BY <1>3, <2>1 DEF Pos, End, WriteKey
<1>7. End(writing[n]) = Pos(writing[n - 1])
  <2>1. n - 1 \in 1..(n - 1) /\ (n - 1) + 1 = n
    BY <1>2, <1>3
  <2> QED
    BY <1>1, <1>5, <2>1 DEF Layout
<1>8. \A j \in 1..(n - 1) : End(writing[j])' = End(writing[j]) /\ Pos(writing[j])' = Pos(writing[j])
  BY <1>2, <1>4 DEF End, Pos, Total
<1> QED
  BY <1>1, <1>2, <1>3, <1>4, <1>5, <1>6, <1>7, <1>8 DEF Layout

(* The stream starts empty, as large as the whole message. *)
LEMMA SizeReturnLayout ==
    ASSUME EncoderInv, FilledInv, SizeReturn, phase' = "writing"
    PROVE  Layout'
<1>1. PICK k, s, f : k = SizeKey /\ s = SizeTop.sums /\ f = [key |-> k, i |-> 0, base |-> 0]
  OBVIOUS
<1>2. /\ phase = "sizing" /\ out = <<>> /\ out' = <<>>
      /\ memo' = [c \in DOMAIN memo \cup {k} |-> IF c = k THEN s ELSE memo[c]]
  BY <1>1 DEF SizeReturn, FilledInv
<1>3. mSize' = s[Len(s)] /\ writing' = <<f>>
  BY <1>1, <1>2 DEF SizeReturn, Last
<1>4. s \in Seq(Nat) /\ Len(s) >= 1 /\ s[1] = 0
  BY <1>1, <1>2, SizeTopType DEF Measured
<1>5. memo'[k] = s /\ Len(writing') = 1 /\ writing'[1] = f
  BY <1>2, <1>3
<1>6. Pos(writing[1])' = 0 /\ End(writing[1])' = mSize' /\ mSize' \in Nat
  BY <1>1, <1>3, <1>4, <1>5 DEF Pos, End, Total, Last
<1> QED
  BY <1>2, <1>5, <1>6 DEF Layout

(* Before the first call nothing is written. *)
LEMMA FilledInvInit == Init => FilledInv
<1> SUFFICES ASSUME Init PROVE FilledInv
  OBVIOUS
<1>1. phase = "idle" /\ ret.kind = "none"
  BY OutcomeType DEF Init
<1> QED
  BY <1>1 DEF FilledInv, LayoutInv, BufferFilled, Writing, Returned

(* Every step of a call keeps the layout, and the return finds it full. *)
LEMMA FilledInvNext ==
    ASSUME EncoderInv, FilledInv, [Next]_vars
    PROVE  FilledInv'
<1>1. CASE \E c \in Calls : Encode(c)
  <2>1. PICK c \in Calls : Encode(c)
    BY <1>1
  <2>2. phase' # "writing" /\ out' = <<>>
    BY <2>1 DEF Encode
  <2>3. ret' \in {Outcome("raise"), Outcome("nil"), Outcome("none"), Outcome("undefined")}
    BY <2>1 DEF Encode
  <2>4. ret'.kind # "string"
    BY <2>3, OutcomeType
  <2> QED
    BY <2>2, <2>4 DEF FilledInv, LayoutInv, BufferFilled, Writing, Returned
<1>2. CASE SizeEnter \/ SizeAdd
  <2>1. phase = "sizing" /\ phase' = "sizing" /\ out' = out
    BY <1>2 DEF SizeEnter, SizeAdd, SizeIterating
  <2> QED
    BY <2>1 DEF FilledInv, LayoutInv, BufferFilled, Writing, Returned
<1>3. CASE SizeFail
  <2>1. phase' \in {"idle", "dead"} /\ ret' \in {Outcome("raise"), Outcome("abort"), Outcome("undefined")}
    BY <1>3 DEF SizeFail
  <2>2. ret'.kind # "string"
    BY <2>1, OutcomeType
  <2> QED
    BY <2>1, <2>2 DEF FilledInv, LayoutInv, BufferFilled, Writing, Returned
<1>4. CASE SizeReturn
  <2>1. phase = "sizing" /\ phase' \in {"sizing", "writing"} /\ out' = out
    BY <1>4 DEF SizeReturn
  <2>2. phase' = "writing" => Layout'
    BY <1>4, SizeReturnLayout
  <2> QED
    BY <2>1, <2>2 DEF FilledInv, LayoutInv, BufferFilled, Writing, Returned
<1>5. CASE WriteAdd \/ WriteEnter \/ WriteReturn
  <2>1. phase = "writing" /\ phase' = "writing" /\ UNCHANGED <<call, memo>>
    BY <1>5 DEF WriteAdd, WriteEnter, WriteReturn, WriteIterating
  <2>2. Clean' <=> Clean
    BY <2>1, CleanStable
  <2>3. Clean => Layout'
    BY <1>5, WriteAddLayout, WriteEnterLayout, WriteReturnLayout
  <2> QED
    BY <2>1, <2>2, <2>3 DEF FilledInv, LayoutInv, BufferFilled, Writing, Returned
<1>6. CASE WriteFail \/ WriteCrash
  <2>1. phase' \in {"idle", "dead"} /\ ret' \in {Outcome("raise"), Outcome("undefined")}
    BY <1>6 DEF WriteFail, WriteCrash
  <2>2. ret'.kind # "string"
    BY <2>1, OutcomeType
  <2> QED
    BY <2>1, <2>2 DEF FilledInv, LayoutInv, BufferFilled, Writing, Returned
<1>7. CASE EncodeReturn
  <2>1. /\ phase = "writing" /\ Len(writing) = 1 /\ WriteTop.i = Len(Entries(WriteKey))
        /\ phase' = "idle" /\ UNCHANGED <<call, memo, mSize, out>>
    BY <1>7 DEF EncodeReturn
  <2>2. PICK g \in Garbage : ret' = [kind |-> "string", bytes |-> Pushed(g)]
    BY <1>7 DEF EncodeReturn
  <2>3. ASSUME Clean
        PROVE  Pushed(g) = out
    <3>1. WriteTop = writing[1] /\ WriteKey \in DOMAIN memo /\ WriteTop.i \in Nat
      BY <2>1, WriteTopType
    <3>2. memo[WriteKey][WriteTop.i + 1] = Total(WriteKey)
      BY <2>1, <3>1, SumsOrdered
    <3>3. Len(out) = Pos(writing[1]) /\ End(writing[1]) = mSize
      BY <2>1, <2>3 DEF FilledInv, LayoutInv, Layout, Writing
    <3>4. Len(out) = mSize /\ out \in Seq(Byte)
      BY <3>1, <3>2, <3>3 DEF Pos, End, WriteKey, EncoderInv, TypeOK
    <3> QED
      BY <3>4 DEF Pushed
  <2>4. ret'.bytes = Pushed(g)
    BY <2>2
  <2>5. Clean' <=> Clean
    BY <2>1, CleanStable
  <2> QED
    BY <2>1, <2>3, <2>4, <2>5 DEF FilledInv, LayoutInv, BufferFilled, Writing, Returned
<1>8. CASE UNCHANGED vars
  <2>1. UNCHANGED <<phase, call, sizing, memo, mSize, out, writing, leaked, ret>>
    BY <1>8 DEF vars
  <2>2. Clean' <=> Clean
    BY <2>1, CleanStable
  <2> QED
    BY <2>1, <2>2 DEF FilledInv, LayoutInv, Layout, BufferFilled, Writing, Returned, Pos, End, Total
<1> QED
  BY <1>1, <1>2, <1>3, <1>4, <1>5, <1>6, <1>7, <1>8 DEF Next, SizeStep, WriteStep

(* What the layout means for the properties of the run. *)
LEMMA FilledInvImplies ==
    ASSUME EncoderInv, FilledInv
    PROVE  BufferNeverOverrun /\ BufferFilled /\ HeadsMatchBodies
<1>1. BufferFilled
  BY DEF FilledInv
<1>2. ASSUME Writing, Clean
      PROVE  Len(out) <= mSize
  <2>1. Len(writing) \in 1..Len(writing)
    BY <1>2, WriteTopType DEF Writing
  <2>2. Len(out) = Pos(writing[Len(writing)])
    BY <1>2 DEF FilledInv, LayoutInv, Layout
  <2>3. mSize \in Nat
    BY DEF EncoderInv, TypeOK
  <2> QED
    BY <1>2, <2>1, <2>2, <2>3, LayoutFrames
<1>3. ASSUME Writing, Clean, NEW j \in 2..Len(writing), j = Len(writing),
             writing[j].i = Len(Entries(writing[j].key))
      PROVE  Len(out) - writing[j].base = HeadLength(writing[j].key)
  <2>1. PICK k, i, b : k = writing[j].key /\ i = writing[j].i /\ b = writing[j].base
    OBVIOUS
  <2>2. k \in DOMAIN memo /\ i \in Nat /\ b \in Nat
    BY <1>3, <2>1, WriteTopType DEF Writing, WriteKey
  <2>3. memo[k][i + 1] = Total(k) /\ Total(k) \in Nat
    <3>1. i = Len(Entries(k)) /\ i <= Len(Entries(k))
      BY <1>3, <2>1, <2>2
    <3> QED
      BY <2>2, <3>1, SumsOrdered
  <2>4. Len(out) = b + memo[k][i + 1]
    BY <1>3, <2>1 DEF FilledInv, LayoutInv, Layout, Pos
  <2> QED
    BY <2>1, <2>2, <2>3, <2>4 DEF HeadLength
<1> QED
  BY <1>1, <1>2, <1>3 DEF BufferNeverOverrun, HeadsMatchBodies

(* Both passes together keep what the buffer rests on. *)
LEMMA BufferInvAlways == Spec => [](EncoderInv /\ FilledInv)
<1> DEFINE Inv == EncoderInv /\ FilledInv
<1>1. Init => Inv
  BY EncoderInvInit, FilledInvInit
<1>2. Inv /\ [Next]_vars => Inv'
  BY EncoderInvNext, FilledInvNext
<1> QED
  BY <1>1, <1>2, PTL DEF Spec

(***************************************************************************)
(* The buffer theorem.  For every schema and every table whose entries are *)
(* clean, RawEncode never writes past the buffer RawByteSize sized         *)
(* (Encoder.cpp 80-84).                                                    *)
(***************************************************************************)
THEOREM BufferCorrect == Spec => []BufferNeverOverrun
<1>1. EncoderInv /\ FilledInv => BufferNeverOverrun
  BY FilledInvImplies
<1> QED
  BY <1>1, BufferInvAlways, PTL

(***************************************************************************)
(* The string luapb_encode returns is exactly what RawEncode wrote (line   *)
(* 86), and every announced sub-message length is the length of the        *)
(* sub-message.                                                            *)
(***************************************************************************)
THEOREM BufferFilledExactly == Spec => []BufferExact
<1>1. EncoderInv /\ FilledInv => BufferExact
  BY FilledInvImplies DEF BufferExact
<1> QED
  BY <1>1, BufferInvAlways, PTL

=============================================================================
