------------------------------ MODULE Encoder -------------------------------
(***************************************************************************)
(* luapb_encode: src/src/Encoder.cpp and src/src/ByteSize.cpp over the     *)
(* wire format of module Wire.                                             *)
(*                                                                         *)
(* A call makes two passes over the Lua table.  RawByteSize adds up how    *)
(* many bytes the message needs, a buffer of exactly that size is          *)
(* allocated, and RawEncode walks the table again and writes, with no test *)
(* of the buffer's end.  The two passes agree only if each measures what   *)
(* the other writes; that agreement is what this module is about.          *)
(*                                                                         *)
(* Both passes are recursive C++ functions; a stack of frames stands for   *)
(* the active calls.  A frame works on a key <<message type, field, table>>*)
(* whose field is NoField for a RawByteSize or RawEncode call on a message *)
(* and the field's name for its inner loop over a repeated field's list.   *)
(* The state of the call's tables is fixed: lua_next is raw, conversions   *)
(* work on copies, and the only Lua code that may run before the call      *)
(* returns, a finalizer, is taken not to touch the tables.                 *)
(*                                                                         *)
(* RawEncode calls RawByteSize again for the head of every sub-message.    *)
(* On fixed tables that returns what it returned in the first pass, so the *)
(* results of the first pass are kept in memo and looked up.               *)
(***************************************************************************)
EXTENDS Wire, SequencesExt

CONSTANTS
    Schema,      \* message type -> field name -> field descriptor (module Wire)
    Registered,  \* the message types FindMessage finds
    Pairs,       \* what Lua tables hold: [key, val], val a Lua value (module Wire)
    Calls,       \* the calls of luapb_encode: [name, arg, tab], tab its tables
    NoField,     \* stands for "no field name"
    BadKey,      \* a key or name luaL_checkstring rejects
    Garbage,     \* bytes fresh memory may hold
    NDEBUG       \* whether assertions are compiled out

FieldNames == UNION {DOMAIN Schema[d] : d \in DOMAIN Schema}

ASSUME SchemaAssumption ==
    \A d \in DOMAIN Schema : \A f \in DOMAIN Schema[d] :
        /\ f \notin {NoField, BadKey}
        /\ IsFieldDescriptor(Schema[d][f])
        /\ Schema[d][f].type = "message" => Schema[d][f].msg \in DOMAIN Schema

ASSUME RegisteredAssumption == Registered \subseteq DOMAIN Schema /\ BadKey \notin Registered

ASSUME PairsAssumption == \A p \in Pairs : IsLuaValue(p.val)

(* The tables of a call are numbered so that a table refers only to higher *)
(* numbers: no table contains itself.  (The code recurses without end on   *)
(* one that does.)  Their pairs come in the order of lua_next.             *)
ASSUME CallsAssumption ==
    \A c \in Calls :
        /\ DOMAIN c.tab \subseteq Nat
        /\ c.tab \in [DOMAIN c.tab -> Seq(Pairs)]
        /\ c.arg.lua = "table" => c.arg.node \in DOMAIN c.tab
        /\ \A n \in DOMAIN c.tab : \A i \in 1..Len(c.tab[n]) :
             LET v == c.tab[n][i].val IN
             v.lua = "table" => v.node \in DOMAIN c.tab /\ v.node > n

ASSUME GarbageAssumption == Garbage \subseteq Byte /\ Garbage # {} /\ NDEBUG \in BOOLEAN

VARIABLES
    phase,    \* "idle", "sizing", "writing", or "dead" once the process is
    call,     \* the call under way, or the last one
    sizing,   \* frames of RawByteSize: [key, sums], sums[i + 1] after i entries
    memo,     \* key -> sums of the RawByteSize frames that have returned
    mSize,    \* PBStream::mSize
    out,      \* the bytes between mData and mPointer
    writing,  \* frames of RawEncode: [key, i, base], i entries done, base = Len(out) at entry
    leaked,   \* some PBStream was never destroyed
    ret       \* outcome of the last call: [kind, bytes]

vars == <<phase, call, sizing, memo, mSize, out, writing, leaked, ret>>

Keys == [desc : DOMAIN Schema, field : FieldNames \cup {NoField}, node : Nat]

NoMemo == [k \in {} |-> <<0>>]
Outcome(kind) == [kind |-> kind, bytes |-> <<>>]

-----------------------------------------------------------------------------
(* What the loops of RawByteSize and RawEncode make of an entry.           *)
Entries(k) == call.tab[k.node]

IsMsgFrame(k) == k.field = NoField

IsSkipped(k, e) ==   \* FindFieldByName returned NULL
    IsMsgFrame(k) /\ e.key # BadKey /\ e.key \notin DOMAIN Schema[k.desc]

IsField(k, e) == IsMsgFrame(k) => e.key \in DOMAIN Schema[k.desc]

Fd(k, e) == Schema[k.desc][IF IsMsgFrame(k) THEN e.key ELSE k.field]

IsList(k, e) == IsField(k, e) /\ IsMsgFrame(k) /\ Fd(k, e).repeated
IsMessage(k, e) == IsField(k, e) /\ ~IsList(k, e) /\ Fd(k, e).type = "message"
IsScalar(k, e) == IsField(k, e) /\ ~IsList(k, e) /\ Fd(k, e).type # "message"

HasChild(k, e) == IsList(k, e) \/ IsMessage(k, e)

Child(k, e) ==
    IF IsList(k, e) THEN [desc |-> k.desc, field |-> e.key, node |-> e.val.node]
    ELSE [desc |-> Fd(k, e).msg, field |-> NoField, node |-> e.val.node]

(* How measuring an entry fails: luaL_error and the conversions raise, an  *)
(* assertion aborts, and lua_next on what is not a table is undefined.     *)
Raises(k, e) ==
    \/ IsMsgFrame(k) /\ e.key = BadKey
    \/ IsList(k, e) /\ e.val.lua # "table"
    \/ IsScalar(k, e) /\ FieldSizeRaises(Fd(k, e), e.val)

Aborts(k, e) == IsScalar(k, e) /\ Fd(k, e).type = "other" /\ ~NDEBUG

IsUndefined(k, e) == IsMessage(k, e) /\ e.val.lua # "table"

Fails(k, e) == Raises(k, e) \/ Aborts(k, e) \/ IsUndefined(k, e)

Total(k) == Last(memo[k])

(* What one entry adds to size in RawByteSize.  A message in a list counts *)
(* its tag, its length and its body, a singular one only its tag and body. *)
Contribution(k, e) ==
    IF IsSkipped(k, e) THEN 0 ELSE
    IF IsList(k, e) THEN Total(Child(k, e)) ELSE
    TagSize(Fd(k, e).number) +
        IF IsScalar(k, e) THEN FieldSize(Fd(k, e), e.val) ELSE
        IF IsMsgFrame(k) THEN Total(Child(k, e))
        ELSE VarintSize32(Total(Child(k, e))) + Total(Child(k, e))

-----------------------------------------------------------------------------
Init ==
    /\ phase = "idle"
    /\ call \in Calls
    /\ sizing = <<>> /\ memo = NoMemo
    /\ mSize = 0 /\ out = <<>> /\ writing = <<>>
    /\ leaked = FALSE
    /\ ret = Outcome("none")

RootKey(c) == [desc |-> c.name, field |-> NoField, node |-> c.arg.node]

(* luapb_encode up to the call of RawByteSize. *)
Encode(c) ==
    /\ phase = "idle"
    /\ call' = c
    /\ memo' = NoMemo /\ mSize' = 0 /\ out' = <<>> /\ writing' = <<>>
    /\ \/ /\ c.name \notin Registered      \* not a string, or not registered
          /\ ret' = Outcome(IF c.name = BadKey THEN "raise" ELSE "nil")
          /\ UNCHANGED <<phase, sizing>>
       \/ /\ c.name \in Registered /\ c.arg.lua = "table"
          /\ phase' = "sizing"
          /\ sizing' = <<[key |-> RootKey(c), sums |-> <<0>>]>>
          /\ ret' = Outcome("none")
       \/ /\ c.name \in Registered /\ c.arg.lua # "table"
          /\ phase' = "dead"
          /\ ret' = Outcome("undefined")
          /\ UNCHANGED sizing
    /\ UNCHANGED leaked

-----------------------------------------------------------------------------
(* RawByteSize, one loop iteration at a time.  The last element of sums is *)
(* size, and its length is the number of the entry the iterator is at.     *)
SizeTop == Last(sizing)
SizeKey == SizeTop.key
SizeEntry == Entries(SizeKey)[Len(SizeTop.sums)]

SizeIterating == phase = "sizing" /\ Len(SizeTop.sums) <= Len(Entries(SizeKey))

(* A sub-message or a list that is not measured yet: the nested call. *)
SizeEnter ==
    /\ SizeIterating
    /\ ~Fails(SizeKey, SizeEntry)
    /\ HasChild(SizeKey, SizeEntry) /\ Child(SizeKey, SizeEntry) \notin DOMAIN memo
    /\ sizing' = Append(sizing, [key |-> Child(SizeKey, SizeEntry), sums |-> <<0>>])
    /\ UNCHANGED <<phase, call, memo, mSize, out, writing, leaked, ret>>

(* size += ..., ++it *)
SizeAdd ==
    /\ SizeIterating
    /\ ~Fails(SizeKey, SizeEntry)
    /\ HasChild(SizeKey, SizeEntry) => Child(SizeKey, SizeEntry) \in DOMAIN memo
    /\ LET size == Last(SizeTop.sums) + Contribution(SizeKey, SizeEntry) IN
       sizing' = [sizing EXCEPT ![Len(sizing)] =
                    [key |-> SizeKey, sums |-> Append(SizeTop.sums, size)]]
    /\ UNCHANGED <<phase, call, memo, mSize, out, writing, leaked, ret>>

SizeFail ==
    /\ SizeIterating
    /\ \/ /\ Raises(SizeKey, SizeEntry)
          /\ phase' = "idle" /\ ret' = Outcome("raise")
       \/ /\ Aborts(SizeKey, SizeEntry) /\ ~Raises(SizeKey, SizeEntry)
          /\ phase' = "dead" /\ ret' = Outcome("abort")
       \/ /\ IsUndefined(SizeKey, SizeEntry)
          /\ phase' = "dead" /\ ret' = Outcome("undefined")
    /\ sizing' = <<>>
    /\ UNCHANGED <<call, memo, mSize, out, writing, leaked>>

(* return size; the outermost return allocates the stream. *)
SizeReturn ==
    /\ phase = "sizing"
    /\ Len(SizeTop.sums) = Len(Entries(SizeKey)) + 1
    /\ memo' = [k \in DOMAIN memo \cup {SizeKey} |->
                  IF k = SizeKey THEN SizeTop.sums ELSE memo[k]]
    /\ sizing' = Front(sizing)
    /\ IF Len(sizing) > 1 THEN UNCHANGED <<phase, mSize, writing>>
       ELSE /\ phase' = "writing"
            /\ mSize' = Last(SizeTop.sums)
            /\ writing' = <<[key |-> SizeKey, i |-> 0, base |-> 0]>>
    /\ UNCHANGED <<call, out, leaked, ret>>

-----------------------------------------------------------------------------
(* RawEncode, one loop iteration at a time.                                *)
WriteTop == Last(writing)
WriteKey == WriteTop.key
WriteEntry == Entries(WriteKey)[WriteTop.i + 1]

WriteIterating == phase = "writing" /\ WriteTop.i < Len(Entries(WriteKey))

Advanced ==
    [writing EXCEPT ![Len(writing)] =
        [key |-> WriteKey, i |-> WriteTop.i + 1, base |-> WriteTop.base]]

(* The length RawEncode announces: RawByteSize of the sub-message. *)
HeadLength_WithLength(k) == VarintSize32(Total(k)) + Total(k)

HeadLength(k) == Total(k)

(* A key without a field, or WriteValue. *)
WriteAdd ==
    /\ WriteIterating
    /\ \/ /\ IsSkipped(WriteKey, WriteEntry)
          /\ UNCHANGED out
       \/ /\ IsScalar(WriteKey, WriteEntry)
          /\ ~WriteValueRaises(Fd(WriteKey, WriteEntry), WriteEntry.val)
          /\ out' = out \o WriteValue(Fd(WriteKey, WriteEntry), WriteEntry.val)
    /\ writing' = Advanced
    /\ UNCHANGED <<phase, call, sizing, memo, mSize, leaked, ret>>

(* WriteMessageHead and the nested RawEncode, or the loop over a list. *)
WriteEnter ==
    /\ WriteIterating
    /\ HasChild(WriteKey, WriteEntry)
    /\ LET child == Child(WriteKey, WriteEntry) IN
       /\ out' = IF IsList(WriteKey, WriteEntry) THEN out
                 ELSE out \o WriteMessageHead(Fd(WriteKey, WriteEntry).number, HeadLength(child))
       /\ writing' = Append(Advanced, [key |-> child, i |-> 0, base |-> Len(out')])
    /\ UNCHANGED <<phase, call, sizing, memo, mSize, leaked, ret>>

(* A conversion raises in WriteValue: the longjmp skips ~PBStream. *)
WriteFail ==
    /\ WriteIterating
    /\ IsScalar(WriteKey, WriteEntry)
    /\ WriteValueRaises(Fd(WriteKey, WriteEntry), WriteEntry.val)
    /\ phase' = "idle" /\ ret' = Outcome("raise")
    /\ writing' = <<>> /\ leaked' = TRUE
    /\ UNCHANGED <<call, sizing, memo, mSize, out>>

(* The heap behind the buffer is overwritten: the process may die. *)
WriteCrash ==
    /\ phase = "writing" /\ Len(out) > mSize
    /\ phase' = "dead" /\ ret' = Outcome("undefined")
    /\ writing' = <<>>
    /\ UNCHANGED <<call, sizing, memo, mSize, out, leaked>>

WriteReturn ==
    /\ phase = "writing" /\ Len(writing) > 1
    /\ WriteTop.i = Len(Entries(WriteKey))
    /\ writing' = Front(writing)
    /\ UNCHANGED <<phase, call, sizing, memo, mSize, out, leaked, ret>>

(* lua_pushlstring(mData, mSize), whatever the buffer holds by then. *)
Pushed(g) == [j \in 1..mSize |-> IF j <= Len(out) THEN out[j] ELSE g]

EncodeReturn ==
    /\ phase = "writing" /\ Len(writing) = 1
    /\ WriteTop.i = Len(Entries(WriteKey))
    /\ phase' = "idle"
    /\ \E g \in Garbage : ret' = [kind |-> "string", bytes |-> Pushed(g)]
    /\ writing' = <<>>
    /\ UNCHANGED <<call, sizing, memo, mSize, out, leaked>>

-----------------------------------------------------------------------------
SizeStep == SizeEnter \/ SizeAdd \/ SizeFail \/ SizeReturn

WriteStep == WriteAdd \/ WriteEnter \/ WriteFail \/ WriteCrash \/ WriteReturn \/ EncodeReturn

Next == (\E c \in Calls : Encode(c)) \/ SizeStep \/ WriteStep

Spec == Init /\ [][Next]_vars

-----------------------------------------------------------------------------
(* Type invariant: the frames and the buffer of both passes; every byte    *)
(* written is a byte, every size a natural number.                         *)
SizeFrames == [key : Keys, sums : Seq(Nat)]
WriteFrames == [key : Keys, i : Nat, base : Nat]

TypeOK ==
    /\ phase \in {"idle", "sizing", "writing", "dead"}
    /\ call \in Calls
    /\ sizing \in Seq(SizeFrames)
    /\ DOMAIN memo \subseteq Keys /\ memo \in [DOMAIN memo -> Seq(Nat)]
    /\ mSize \in Nat
    /\ out \in Seq(Byte)
    /\ writing \in Seq(WriteFrames)
    /\ leaked \in BOOLEAN
    /\ ret.kind \in {"none", "nil", "raise", "abort", "undefined", "string"}
    /\ ret.bytes \in Seq(Byte)

(***************************************************************************)
(* The two passes agree on an entry: a message field is repeated, a scalar *)
(* has one of the types FieldSize measures as WriteValue writes, an        *)
(* enumerator exists.  Exactly the other entries make the passes disagree  *)
(* (see SizeMatchesAlways).                                                *)
(***************************************************************************)
IsCleanEntry(k, e) ==
    /\ IsMessage(k, e) => ~IsMsgFrame(k)
    /\ IsScalar(k, e) =>
         \/ Fd(k, e).type \in {"float", "int32", "bool", "string", "uint32"}
         \/ Fd(k, e).type = "enum" /\ e.val.str \in DOMAIN Fd(k, e).enum

Clean == \A k \in DOMAIN memo : \A i \in 1..Len(Entries(k)) : IsCleanEntry(k, Entries(k)[i])

Writing == phase = "writing"
Returned == phase = "idle" /\ ret.kind = "string"

(* RawEncode writes without a bounds test, so the size of the first pass   *)
(* must suffice at every moment of the second (Encoder.cpp 80-84).         *)
BufferNeverOverrun == Writing /\ Clean => Len(out) <= mSize

(* luapb_encode pushes mSize bytes: they are the bytes written, none of    *)
(* them left over from the allocation (Encoder.cpp 86).                    *)
BufferFilled == Returned /\ Clean => ret.bytes = out

(* Every length written in front of a sub-message is the number of bytes   *)
(* its RawEncode has written when it returns, at every depth.              *)
HeadsMatchBodies ==
    Writing /\ Clean =>
        \A j \in 2..Len(writing) :
            j = Len(writing) /\ writing[j].i = Len(Entries(writing[j].key))
                => Len(out) - writing[j].base = HeadLength(writing[j].key)

(* The first pass raises every conversion error of the second but that of  *)
(* a float, so only a float field can leak the stream (Encoder.cpp 80-84). *)
LeaksAreFloats ==
    [][leaked' # leaked => Fd(WriteKey, WriteEntry).type = "float"]_vars

(* What Stream.h says of the write buffer, "buffer of determined size,     *)
(* written directly", for every call: never past its end ...               *)
SizeSufficesAlways == Writing => Len(out) <= mSize

(* ... and all of it. *)
SizeMatchesAlways == Returned => ret.bytes = out

(* What the second pass wrote is what the first has measured: the whole    *)
(* buffer, and each length inside it.                                      *)
BufferExact == BufferFilled /\ HeadsMatchBodies
=============================================================================
